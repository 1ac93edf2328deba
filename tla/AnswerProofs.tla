---------------------------- MODULE AnswerProofs ----------------------------
(***************************************************************************)
(* What the prompt shows of an API's answer: the theorems about promised   *)
(* JSON, cuts and masks, for any answers, policies, limits and depth.      *)
(*                                                                         *)
(* What is shown is the payload of the answer, shaped by the policy of now *)
(* (AnswerInv), so that the theorems are about the functions on values of  *)
(* JSON.  A value is built in levels (JsonTo); of each function on values  *)
(* a lemma says that it is what its equation says, by induction in the set *)
(* of the depths up to which there is one, and what holds of all values is *)
(* shown in the set of those it holds of: when all that is right inside a  *)
(* value is in it, so is the value (TreeInduction).                        *)
(***************************************************************************)
EXTENDS SurfaceProofs

-----------------------------------------------------------------------------
(* Values of JSON. *)

\* What a sequence is made of.
LEMMA SeqItems ==
  ASSUME NEW S, NEW s \in Seq(S)
  PROVE  Len(s) \in Nat /\ DOMAIN s = 1..Len(s) /\ \A i \in DOMAIN s : s[i] \in S
  OBVIOUS

\* A sequence over a set is one over any that has it.
LEMMA SeqGrows ==
  ASSUME NEW S, NEW R, S \subseteq R
  PROVE  Seq(S) \subseteq Seq(R)
<1> SUFFICES ASSUME NEW s \in Seq(S) PROVE s \in Seq(R)
  OBVIOUS
<1>1. Len(s) \in Nat /\ s \in [1..Len(s) -> S]
  OBVIOUS
<1>2. s \in [1..Len(s) -> R]
  BY <1>1
<1> QED
  BY <1>1, <1>2, IsSeq

\* Values are built of those that are less deep,
LEMMA JsonToIs ==
  ASSUME Nesting \in Nat
  PROVE  /\ JsonTo[0] = Scalars(Kinds)
         /\ \A n \in 1..Nesting :
              JsonTo[n] = Scalars(Kinds) \cup Objects(Members(JsonTo[n - 1]), Seq(JsonKeys))
                                         \cup Arrays(Seq(JsonTo[n - 1]), Seq(JsonTo[n - 1]))
<1> DEFINE N            == Nesting
           Row(prev, n) == Scalars(Kinds) \cup (IF n = 0 THEN {} ELSE Objects(Members(prev), Seq(JsonKeys))
                                                           \cup Arrays(Seq(prev), Seq(prev)))
           Body(g, n)   == Row(g[n - 1], n)
           Built(g, n)  == g = [m \in 0..n |-> Body(g, m)]
           T            == {n \in Nat : \E g : Built(g, n)}
<1>0. \A p, q : Row(p, 0) = Row(q, 0)
  OBVIOUS
<1>1. 0 \in T
  <2> DEFINE g == [m \in 0..0 |-> Body(<<>>, m)]
  <2>1. Built(g, 0)
    <3>1. \A m \in 0..0 : m = 0
      OBVIOUS
    <3> HIDE DEF Row
    <3>2. \A m \in 0..0 : Body(g, m) = Body(<<>>, m)
      BY <1>0, <3>1
    <3> HIDE DEF Body
    <3> QED
      BY <3>2
  <2> QED
    BY <2>1
<1>2. ASSUME NEW n \in T PROVE n + 1 \in T
  <2>1. PICK g : Built(g, n)
    OBVIOUS
  <2>2. n \in Nat /\ n + 1 \in Nat
    OBVIOUS
  <2> DEFINE h == [m \in 0..(n + 1) |-> Body(g, m)]
  <2>3. \A m \in 0..n : h[m] = g[m]
    <3> SUFFICES ASSUME NEW m \in 0..n PROVE h[m] = g[m]
      OBVIOUS
    <3>1. m \in 0..(n + 1)
      BY <2>2
    <3> HIDE DEF Body
    <3> QED
      BY <2>1, <3>1
  <2>4. \A m \in 0..(n + 1) : m # 0 => m - 1 \in 0..n
    BY <2>2
  <2>5. \A m \in 0..(n + 1) : Body(g, m) = Body(h, m)
    <3> HIDE DEF h, Row
    <3> QED
      BY <1>0, <2>3, <2>4
  <2>6. Built(h, n + 1)
    <3> HIDE DEF Body
    <3> QED
      BY <2>5
  <2> QED
    BY <2>2, <2>6
<1>3. PICK f : Built(f, N)
  <2>1. T \in SUBSET Nat
    OBVIOUS
  <2>2. N \in T
    <3> HIDE DEF T
    <3> QED
      BY <1>1, <1>2, <2>1, AllNat
  <2> QED
    BY <2>2
<1> DEFINE H == CHOOSE g : g = [n \in 0..N |-> Row(g[n - 1], n)]
<1>4. H = [n \in 0..N |-> Row(H[n - 1], n)]
  BY <1>3, Zenon
<1>5. JsonTo = H
  BY Zenon DEF JsonTo
<1> HIDE DEF H, Row
<1>6. \A n \in 0..N : H[n] = Row(H[n - 1], n)
  BY <1>4
<1>7. 0 \in 0..N /\ \A n \in 1..N : n \in 0..N /\ n # 0
  OBVIOUS
<1>8. \A n \in 1..N : H[n] = Row(H[n - 1], n)
  BY <1>6, <1>7, Zenon
<1>9. JsonTo[0] = Scalars(Kinds)
  BY <1>5, <1>6, <1>7 DEF Row
<1>10. ASSUME NEW n \in 1..Nesting
      PROVE  JsonTo[n] = Scalars(Kinds) \cup Objects(Members(JsonTo[n - 1]), Seq(JsonKeys))
                                         \cup Arrays(Seq(JsonTo[n - 1]), Seq(JsonTo[n - 1]))
  BY <1>5, <1>7, <1>8 DEF Row
<1> QED
  BY <1>9, <1>10

\* and so are those that are read.
LEMMA ReadToIs ==
  ASSUME Nesting \in Nat
  PROVE  /\ ReadTo[0] = Scalars({"leaf", "null"})
         /\ \A n \in 1..Nesting :
              ReadTo[n] = Scalars({"leaf", "null"})
                          \cup Objects({s \in Members(ReadTo[n - 1]) : KeysDiffer(s)}, {<<>>})
                          \cup Arrays(Seq(ReadTo[n - 1]), {<<>>})
<1> DEFINE N            == Nesting
           Row(prev, n) == Scalars({"leaf", "null"}) \cup
                             (IF n = 0 THEN {} ELSE Objects({s \in Members(prev) : KeysDiffer(s)}, {<<>>})
                                                    \cup Arrays(Seq(prev), {<<>>}))
           Body(g, n)   == Row(g[n - 1], n)
           Built(g, n)  == g = [m \in 0..n |-> Body(g, m)]
           T            == {n \in Nat : \E g : Built(g, n)}
<1>0. \A p, q : Row(p, 0) = Row(q, 0)
  OBVIOUS
<1>1. 0 \in T
  <2> DEFINE g == [m \in 0..0 |-> Body(<<>>, m)]
  <2>1. Built(g, 0)
    <3>1. \A m \in 0..0 : m = 0
      OBVIOUS
    <3> HIDE DEF Row
    <3>2. \A m \in 0..0 : Body(g, m) = Body(<<>>, m)
      BY <1>0, <3>1
    <3> HIDE DEF Body
    <3> QED
      BY <3>2
  <2> QED
    BY <2>1
<1>2. ASSUME NEW n \in T PROVE n + 1 \in T
  <2>1. PICK g : Built(g, n)
    OBVIOUS
  <2>2. n \in Nat /\ n + 1 \in Nat
    OBVIOUS
  <2> DEFINE h == [m \in 0..(n + 1) |-> Body(g, m)]
  <2>3. \A m \in 0..n : h[m] = g[m]
    <3> SUFFICES ASSUME NEW m \in 0..n PROVE h[m] = g[m]
      OBVIOUS
    <3>1. m \in 0..(n + 1)
      BY <2>2
    <3> HIDE DEF Body
    <3> QED
      BY <2>1, <3>1
  <2>4. \A m \in 0..(n + 1) : m # 0 => m - 1 \in 0..n
    BY <2>2
  <2>5. \A m \in 0..(n + 1) : Body(g, m) = Body(h, m)
    <3> HIDE DEF h, Row
    <3> QED
      BY <1>0, <2>3, <2>4
  <2>6. Built(h, n + 1)
    <3> HIDE DEF Body
    <3> QED
      BY <2>5
  <2> QED
    BY <2>2, <2>6
<1>3. PICK f : Built(f, N)
  <2>1. T \in SUBSET Nat
    OBVIOUS
  <2>2. N \in T
    <3> HIDE DEF T
    <3> QED
      BY <1>1, <1>2, <2>1, AllNat
  <2> QED
    BY <2>2
<1> DEFINE H == CHOOSE g : g = [n \in 0..N |-> Row(g[n - 1], n)]
<1>4. H = [n \in 0..N |-> Row(H[n - 1], n)]
  BY <1>3, Zenon
<1>5. ReadTo = H
  BY Zenon DEF ReadTo
<1> HIDE DEF H, Row
<1>6. \A n \in 0..N : H[n] = Row(H[n - 1], n)
  BY <1>4
<1>7. 0 \in 0..N /\ \A n \in 1..N : n \in 0..N /\ n # 0
  OBVIOUS
<1>8. \A n \in 1..N : H[n] = Row(H[n - 1], n)
  BY <1>6, <1>7, Zenon
<1>9. ReadTo[0] = Scalars({"leaf", "null"})
  BY <1>5, <1>6, <1>7 DEF Row
<1>10. ASSUME NEW n \in 1..Nesting
      PROVE  ReadTo[n] = Scalars({"leaf", "null"})
                          \cup Objects({s \in Members(ReadTo[n - 1]) : KeysDiffer(s)}, {<<>>})
                          \cup Arrays(Seq(ReadTo[n - 1]), {<<>>})
  BY <1>5, <1>7, <1>8 DEF Row
<1> QED
  BY <1>9, <1>10

\* The fields of a tree of a depth, and how one is put together.
TreeOf(t, n) ==
  /\ t = [kind |-> t.kind, size |-> t.size, items |-> t.items, left |-> t.left]
  /\ t.kind = "object" => n > 0 /\ t.size = 0 /\ t.items \in Members(JsonTo[n - 1]) /\ t.left \in Seq(JsonKeys)
  /\ t.kind = "array"  => n > 0 /\ t.size = 0 /\ t.items \in Seq(JsonTo[n - 1]) /\ t.left \in Seq(JsonTo[n - 1])
  /\ ~Container(t) => t.kind \in Kinds /\ t.size \in Nat /\ t.items = <<>> /\ t.left = <<>>

\* Every value of a depth has these fields,
LEMMA TreeIs ==
  ASSUME Nesting \in Nat, NEW n \in 0..Nesting, NEW t \in JsonTo[n]
  PROVE  TreeOf(t, n)
<1>0. "object" \notin Kinds /\ "array" \notin Kinds
  BY DEF Kinds
<1>1. CASE t \in Scalars(Kinds)
  BY <1>0, <1>1 DEF Scalars, TreeOf, Container
<1>2. CASE t \notin Scalars(Kinds)
  <2>1. n \in 1..Nesting
    BY <1>2, JsonToIs
  <2>2. n > 0
    BY <2>1
  <2>3. CASE t \in Objects(Members(JsonTo[n - 1]), Seq(JsonKeys))
    <3>1. t = [kind |-> t.kind, size |-> t.size, items |-> t.items, left |-> t.left]
      BY <2>3 DEF Objects
    <3>2. t.kind = "object" /\ t.size = 0 /\ t.items \in Members(JsonTo[n - 1]) /\ t.left \in Seq(JsonKeys)
      BY <2>3 DEF Objects
    <3> QED
      BY <2>2, <3>1, <3>2 DEF TreeOf, Container
  <2>4. CASE t \in Arrays(Seq(JsonTo[n - 1]), Seq(JsonTo[n - 1]))
    <3>1. t = [kind |-> t.kind, size |-> t.size, items |-> t.items, left |-> t.left]
      BY <2>4 DEF Arrays
    <3>2. t.kind = "array" /\ t.size = 0 /\ t.items \in Seq(JsonTo[n - 1]) /\ t.left \in Seq(JsonTo[n - 1])
      BY <2>4 DEF Arrays
    <3> QED
      BY <2>2, <3>1, <3>2 DEF TreeOf, Container
  <2> QED
    BY <1>2, <2>1, <2>3, <2>4, JsonToIs
<1> QED
  BY <1>1, <1>2

\* and what has them is one.
LEMMA TreeMade ==
  ASSUME Nesting \in Nat, NEW n \in 0..Nesting, NEW t, TreeOf(t, n)
  PROVE  t \in JsonTo[n]
<1>1. CASE ~Container(t)
  <2>1. t \in Scalars(Kinds)
    BY <1>1 DEF TreeOf, Scalars
  <2> QED
    BY <2>1, JsonToIs
<1>2. CASE t.kind = "object"
  <2>1. t \in Objects(Members(JsonTo[n - 1]), Seq(JsonKeys)) /\ n \in 1..Nesting
    BY <1>2 DEF TreeOf, Objects
  <2> QED
    BY <2>1, JsonToIs
<1>3. CASE t.kind = "array"
  <2>1. t \in Arrays(Seq(JsonTo[n - 1]), Seq(JsonTo[n - 1])) /\ n \in 1..Nesting
    BY <1>3 DEF TreeOf, Arrays
  <2> QED
    BY <2>1, JsonToIs
<1> QED
  BY <1>1, <1>2, <1>3 DEF Container

\* A value of a depth is one of every greater depth.
LEMMA JsonGrows ==
  ASSUME Nesting \in Nat
  PROVE  \A n \in 0..Nesting : \A m \in 0..n : JsonTo[m] \subseteq JsonTo[n]
<1> DEFINE T == {n \in Nat : n + 1 \in 0..Nesting => JsonTo[n] \subseteq JsonTo[n + 1]}
           U == {n \in Nat : n \in 0..Nesting => \A m \in 0..n : JsonTo[m] \subseteq JsonTo[n]}
<1>1. 0 \in T
  BY JsonToIs
<1>2. ASSUME NEW n \in T PROVE n + 1 \in T
  <2> SUFFICES ASSUME n + 2 \in 0..Nesting, NEW t \in JsonTo[n + 1] PROVE t \in JsonTo[n + 2]
    <3>1. n \in Nat /\ (n + 1) + 1 = n + 2
      OBVIOUS
    <3> QED
      BY <3>1
  <2>0. /\ n \in Nat /\ n + 1 \in 0..Nesting /\ n + 2 > 0
        /\ (n + 1) - 1 = n /\ (n + 2) - 1 = n + 1
    OBVIOUS
  <2>1. JsonTo[n] \subseteq JsonTo[n + 1]
    BY <2>0
  <2>2. TreeOf(t, n + 1)
    BY <2>0, TreeIs
  <2>3. Members(JsonTo[n]) \subseteq Members(JsonTo[n + 1])
    <3>1. [key : JsonKeys, value : JsonTo[n]] \subseteq [key : JsonKeys, value : JsonTo[n + 1]]
      BY <2>1
    <3> QED
      BY <3>1, SeqGrows DEF Members
  <2>4. Seq(JsonTo[n]) \subseteq Seq(JsonTo[n + 1])
    BY <2>1, SeqGrows
  <2>5. TreeOf(t, n + 2)
    <3>1. t.kind = "object" => t.items \in Members(JsonTo[n + 1])
      BY <2>0, <2>2, <2>3 DEF TreeOf
    <3>2. t.kind = "array" => t.items \in Seq(JsonTo[n + 1]) /\ t.left \in Seq(JsonTo[n + 1])
      BY <2>0, <2>2, <2>4 DEF TreeOf
    <3> QED
      BY <2>0, <2>2, <3>1, <3>2 DEF TreeOf
  <2> QED
    BY <2>5, TreeMade
<1>3. \A n \in Nat : n \in T
  <2>1. T \in SUBSET Nat
    OBVIOUS
  <2> HIDE DEF T
  <2> QED
    BY <1>1, <1>2, <2>1, AllNat
<1>4. 0 \in U
  <2>1. \A m \in 0..0 : m = 0
    OBVIOUS
  <2> QED
    BY <2>1
<1>5. ASSUME NEW n \in U PROVE n + 1 \in U
  <2>1. \A m \in 0..(n + 1) : m = n + 1 \/ m \in 0..n
    OBVIOUS
  <2>2. n + 1 \in 0..Nesting => n \in 0..Nesting /\ n \in T
    BY <1>3
  <2> QED
    BY <2>1, <2>2
<1> QED
  <2>1. U \in SUBSET Nat
    OBVIOUS
  <2>2. \A n \in Nat : n \in U
    <3> HIDE DEF U
    <3> QED
      BY <1>4, <1>5, <2>1, AllNat
  <2> QED
    BY <2>2

\* What is right inside a value.
Within(t) ==
  IF t.kind = "object" THEN {t.items[i].value : i \in DOMAIN t.items}
  ELSE IF t.kind = "array" THEN {t.items[i] : i \in DOMAIN t.items} ELSE {}

\* It is less deep than what it is in.
LEMMA WithinIs ==
  ASSUME Nesting \in Nat, NEW n \in 0..Nesting, NEW t \in JsonTo[n]
  PROVE  Within(t) \subseteq IF n = 0 THEN {} ELSE JsonTo[n - 1]
<1>1. TreeOf(t, n)
  BY TreeIs
<1>2. CASE t.kind = "object"
  <2>1. t.items \in Seq([key : JsonKeys, value : JsonTo[n - 1]]) /\ n # 0
    BY <1>1, <1>2 DEF TreeOf, Members
  <2>2. \A i \in DOMAIN t.items : t.items[i] \in [key : JsonKeys, value : JsonTo[n - 1]]
    BY <2>1, SeqItems, Zenon
  <2> QED
    BY <1>2, <2>1, <2>2 DEF Within
<1>3. CASE t.kind = "array"
  <2>1. t.items \in Seq(JsonTo[n - 1]) /\ n # 0
    BY <1>1, <1>3 DEF TreeOf
  <2>2. \A i \in DOMAIN t.items : t.items[i] \in JsonTo[n - 1]
    BY <2>1
  <2> QED
    BY <1>3, <2>1, <2>2 DEF Within
<1> QED
  BY <1>2, <1>3 DEF Within

\* Every depth's values are values.
LEMMA AllJson ==
  ASSUME Nesting \in Nat, NEW n \in 0..Nesting
  PROVE  JsonTo[n] \subseteq Json /\ (n # 0 => JsonTo[n - 1] \subseteq Json)
<1>1. Nesting \in 0..Nesting /\ n \in 0..Nesting /\ (n # 0 => n - 1 \in 0..Nesting)
  OBVIOUS
<1> QED
  BY <1>1, JsonGrows DEF Json

\* The body of Redaction.
RedactedOf(f, t, secrets) ==
  CASE t.kind = "object" ->
         [t EXCEPT !.items = [i \in DOMAIN t.items |-> [t.items[i] EXCEPT !.value =
            IF Hides(secrets, t.items[i]) THEN Stars ELSE f[t.items[i].value]]]]
    [] t.kind = "array" -> [t EXCEPT !.items = [i \in DOMAIN t.items |-> f[t.items[i]]]]
    [] OTHER -> t

\* It depends on what is right inside only.
LEMMA RedactedOfInside ==
  ASSUME Nesting \in Nat, NEW secrets, NEW t \in Json, NEW f, NEW g, \A c \in Within(t) : f[c] = g[c]
  PROVE  RedactedOf(f, t, secrets) = RedactedOf(g, t, secrets)
<1>1. CASE t.kind = "object"
  <2>1. \A i \in DOMAIN t.items : f[t.items[i].value] = g[t.items[i].value]
    BY <1>1 DEF Within
  <2> QED
    BY <1>1, <2>1 DEF RedactedOf
<1>2. CASE t.kind = "array"
  <2>1. \A i \in DOMAIN t.items : f[t.items[i]] = g[t.items[i]]
    BY <1>2 DEF Within
  <2> QED
    BY <1>2, <2>1 DEF RedactedOf
<1> QED
  BY <1>1, <1>2 DEF RedactedOf

\* redact_json, level by level.
LEMMA RedactionIs ==
  ASSUME Nesting \in Nat, NEW secrets
  PROVE  \A t \in Json : Redaction(secrets)[t] = RedactedOf(Redaction(secrets), t, secrets)
<1> DEFINE Upto(g, n) == \A t \in JsonTo[n] : g[t] = RedactedOf(g, t, secrets)
           T == {n \in Nat : n \in 0..Nesting => \E g : Upto(g, n)}
<1>1. ASSUME NEW n \in 0..Nesting, NEW g, \A t \in JsonTo[n] : \A c \in Within(t) : g[c] = RedactedOf(g, c, secrets)
      PROVE  Upto([t \in Json |-> RedactedOf(g, t, secrets)], n)
  <2> DEFINE h == [t \in Json |-> RedactedOf(g, t, secrets)]
  <2> SUFFICES ASSUME NEW t \in JsonTo[n] PROVE h[t] = RedactedOf(h, t, secrets)
    OBVIOUS
  <2>1. t \in Json /\ Within(t) \subseteq Json
    BY WithinIs, AllJson
  <2>2. \A c \in Within(t) : h[c] = g[c]
    BY <1>1, <2>1
  <2>3. RedactedOf(h, t, secrets) = RedactedOf(g, t, secrets)
    <3> HIDE DEF h
    <3> QED
      BY <2>1, <2>2, RedactedOfInside
  <2> QED
    BY <2>1, <2>3
<1>2. 0 \in T
  <2>1. 0 \in 0..Nesting /\ \A t \in JsonTo[0] : Within(t) = {}
    BY WithinIs
  <2>2. \E g : Upto(g, 0)
    <3> HIDE DEF Upto
    <3> QED
      BY <1>1, <2>1
  <2> QED
    BY <2>2
<1>3. ASSUME NEW n \in T PROVE n + 1 \in T
  <2> SUFFICES ASSUME n + 1 \in 0..Nesting PROVE \E g : Upto(g, n + 1)
    OBVIOUS
  <2>1. n \in Nat /\ n \in 0..Nesting /\ (n + 1) - 1 = n /\ n + 1 # 0
    OBVIOUS
  <2>2. PICK g : Upto(g, n)
    BY <2>1
  <2>3. \A t \in JsonTo[n + 1] : Within(t) \subseteq JsonTo[n]
    BY <2>1, WithinIs
  <2>4. \A t \in JsonTo[n + 1] : \A c \in Within(t) : g[c] = RedactedOf(g, c, secrets)
    BY <2>2, <2>3
  <2> HIDE DEF Upto
  <2> QED
    BY <1>1, <2>4
<1>4. PICK g : Upto(g, Nesting)
  <2>1. T \in SUBSET Nat
    OBVIOUS
  <2>2. Nesting \in T
    <3> HIDE DEF T
    <3> QED
      BY <1>2, <1>3, <2>1, AllNat
  <2> QED
    BY <2>2
<1> DEFINE h == [t \in Json |-> g[t]]
<1>5. h = [t \in Json |-> RedactedOf(h, t, secrets)]
  <2>1. \A t \in Json : Within(t) \subseteq Json
    BY WithinIs, AllJson DEF Json
  <2>2. \A t \in Json : \A c \in Within(t) : h[c] = g[c]
    BY <2>1
  <2>3. \A t \in Json : RedactedOf(h, t, secrets) = RedactedOf(g, t, secrets)
    <3> HIDE DEF h
    <3> QED
      BY <2>2, RedactedOfInside
  <2>4. \A t \in Json : h[t] = RedactedOf(h, t, secrets)
    BY <1>4, <2>3 DEF Json
  <2>5. h = [t \in Json |-> h[t]]
    OBVIOUS
  <2> HIDE DEF h
  <2> QED
    BY <2>4, <2>5
<1> DEFINE H == CHOOSE f : f = [t \in Json |-> RedactedOf(f, t, secrets)]
<1>6. H = [t \in Json |-> RedactedOf(H, t, secrets)]
  <2> HIDE DEF h
  <2> QED
    BY <1>5, Zenon
<1>7. Redaction(secrets) = H
  BY Zenon DEF Redaction, RedactedOf
<1> HIDE DEF H
<1> QED
  BY <1>6, <1>7

\* The body of Projection,
ProjectedOf(f, t, fields) ==
  CASE t.kind = "object" ->
         [t EXCEPT !.items = KeptEntries([i \in DOMAIN t.items |->
            Projected(t.items[i], fields, f[t.items[i].value])], fields)]
    [] t.kind = "array" -> [t EXCEPT !.items = KeptItems([i \in DOMAIN t.items |-> f[t.items[i]]])]
    [] OTHER -> t

\* It depends on what is right inside only.
LEMMA ProjectedOfInside ==
  ASSUME Nesting \in Nat, NEW fields, NEW t \in Json, NEW f, NEW g, \A c \in Within(t) : f[c] = g[c]
  PROVE  ProjectedOf(f, t, fields) = ProjectedOf(g, t, fields)
<1>1. CASE t.kind = "object"
  <2>1. \A i \in DOMAIN t.items : f[t.items[i].value] = g[t.items[i].value]
    BY <1>1 DEF Within
  <2>2. [i \in DOMAIN t.items |-> Projected(t.items[i], fields, f[t.items[i].value])]
          = [i \in DOMAIN t.items |-> Projected(t.items[i], fields, g[t.items[i].value])]
    BY <2>1
  <2> QED
    BY <1>1, <2>2 DEF ProjectedOf
<1>2. CASE t.kind = "array"
  <2>1. \A i \in DOMAIN t.items : f[t.items[i]] = g[t.items[i]]
    BY <1>2 DEF Within
  <2>2. [i \in DOMAIN t.items |-> f[t.items[i]]] = [i \in DOMAIN t.items |-> g[t.items[i]]]
    BY <2>1
  <2> QED
    BY <1>2, <2>2 DEF ProjectedOf
<1> QED
  BY <1>1, <1>2 DEF ProjectedOf

\* project_json, level by level.
LEMMA ProjectionIs ==
  ASSUME Nesting \in Nat, NEW fields
  PROVE  \A t \in Json : Projection(fields)[t] = ProjectedOf(Projection(fields), t, fields)
<1> DEFINE Upto(g, n) == \A t \in JsonTo[n] : g[t] = ProjectedOf(g, t, fields)
           T == {n \in Nat : n \in 0..Nesting => \E g : Upto(g, n)}
<1>1. ASSUME NEW n \in 0..Nesting, NEW g, \A t \in JsonTo[n] : \A c \in Within(t) : g[c] = ProjectedOf(g, c, fields)
      PROVE  Upto([t \in Json |-> ProjectedOf(g, t, fields)], n)
  <2> DEFINE h == [t \in Json |-> ProjectedOf(g, t, fields)]
  <2> SUFFICES ASSUME NEW t \in JsonTo[n] PROVE h[t] = ProjectedOf(h, t, fields)
    OBVIOUS
  <2>1. t \in Json /\ Within(t) \subseteq Json
    BY WithinIs, AllJson
  <2>2. \A c \in Within(t) : h[c] = g[c]
    BY <1>1, <2>1
  <2>3. ProjectedOf(h, t, fields) = ProjectedOf(g, t, fields)
    <3> HIDE DEF h
    <3> QED
      BY <2>1, <2>2, ProjectedOfInside
  <2> QED
    BY <2>1, <2>3
<1>2. 0 \in T
  <2>1. 0 \in 0..Nesting /\ \A t \in JsonTo[0] : Within(t) = {}
    BY WithinIs
  <2>2. \E g : Upto(g, 0)
    <3> HIDE DEF Upto
    <3> QED
      BY <1>1, <2>1
  <2> QED
    BY <2>2
<1>3. ASSUME NEW n \in T PROVE n + 1 \in T
  <2> SUFFICES ASSUME n + 1 \in 0..Nesting PROVE \E g : Upto(g, n + 1)
    OBVIOUS
  <2>1. n \in Nat /\ n \in 0..Nesting /\ (n + 1) - 1 = n /\ n + 1 # 0
    OBVIOUS
  <2>2. PICK g : Upto(g, n)
    BY <2>1
  <2>3. \A t \in JsonTo[n + 1] : Within(t) \subseteq JsonTo[n]
    BY <2>1, WithinIs
  <2>4. \A t \in JsonTo[n + 1] : \A c \in Within(t) : g[c] = ProjectedOf(g, c, fields)
    BY <2>2, <2>3
  <2> HIDE DEF Upto
  <2> QED
    BY <1>1, <2>4
<1>4. PICK g : Upto(g, Nesting)
  <2>1. T \in SUBSET Nat
    OBVIOUS
  <2>2. Nesting \in T
    <3> HIDE DEF T
    <3> QED
      BY <1>2, <1>3, <2>1, AllNat
  <2> QED
    BY <2>2
<1> DEFINE h == [t \in Json |-> g[t]]
<1>5. h = [t \in Json |-> ProjectedOf(h, t, fields)]
  <2>1. \A t \in Json : Within(t) \subseteq Json
    BY WithinIs, AllJson DEF Json
  <2>2. \A t \in Json : \A c \in Within(t) : h[c] = g[c]
    BY <2>1
  <2>3. \A t \in Json : ProjectedOf(h, t, fields) = ProjectedOf(g, t, fields)
    <3> HIDE DEF h
    <3> QED
      BY <2>2, ProjectedOfInside
  <2>4. \A t \in Json : h[t] = ProjectedOf(h, t, fields)
    BY <1>4, <2>3 DEF Json
  <2>5. h = [t \in Json |-> h[t]]
    OBVIOUS
  <2> HIDE DEF h
  <2> QED
    BY <2>4, <2>5
<1> DEFINE H == CHOOSE f : f = [t \in Json |-> ProjectedOf(f, t, fields)]
<1>6. H = [t \in Json |-> ProjectedOf(H, t, fields)]
  <2> HIDE DEF h
  <2> QED
    BY <1>5, Zenon
<1>7. Projection(fields) = H
  BY Zenon DEF Projection, ProjectedOf
<1> HIDE DEF H
<1> QED
  BY <1>6, <1>7

\* of Targets
TargetsOf(f, t, secrets) ==
  CASE t.kind = "object" ->
         SumOf([i \in DOMAIN t.items |->
            (IF Hides(secrets, t.items[i]) THEN 1 ELSE 0) + f[t.items[i].value]])
    [] t.kind = "array" -> SumOf([i \in DOMAIN t.items |-> f[t.items[i]]])
    [] OTHER -> 0

\* It depends on what is right inside only.
LEMMA TargetsOfInside ==
  ASSUME Nesting \in Nat, NEW secrets, NEW t \in Json, NEW f, NEW g, \A c \in Within(t) : f[c] = g[c]
  PROVE  TargetsOf(f, t, secrets) = TargetsOf(g, t, secrets)
<1>1. CASE t.kind = "object"
  <2>1. \A i \in DOMAIN t.items : f[t.items[i].value] = g[t.items[i].value]
    BY <1>1 DEF Within
  <2>2. [i \in DOMAIN t.items |-> (IF Hides(secrets, t.items[i]) THEN 1 ELSE 0) + f[t.items[i].value]]
          = [i \in DOMAIN t.items |-> (IF Hides(secrets, t.items[i]) THEN 1 ELSE 0) + g[t.items[i].value]]
    BY <2>1
  <2> QED
    BY <1>1, <2>2 DEF TargetsOf
<1>2. CASE t.kind = "array"
  <2>1. \A i \in DOMAIN t.items : f[t.items[i]] = g[t.items[i]]
    BY <1>2 DEF Within
  <2>2. [i \in DOMAIN t.items |-> f[t.items[i]]] = [i \in DOMAIN t.items |-> g[t.items[i]]]
    BY <2>1
  <2> QED
    BY <1>2, <2>2 DEF TargetsOf
<1> QED
  BY <1>1, <1>2 DEF TargetsOf

\* count_redact_targets, level by level.
LEMMA TargetsAre ==
  ASSUME Nesting \in Nat, NEW secrets
  PROVE  \A t \in Json : Targets(secrets)[t] = TargetsOf(Targets(secrets), t, secrets)
<1> DEFINE Upto(g, n) == \A t \in JsonTo[n] : g[t] = TargetsOf(g, t, secrets)
           T == {n \in Nat : n \in 0..Nesting => \E g : Upto(g, n)}
<1>1. ASSUME NEW n \in 0..Nesting, NEW g, \A t \in JsonTo[n] : \A c \in Within(t) : g[c] = TargetsOf(g, c, secrets)
      PROVE  Upto([t \in Json |-> TargetsOf(g, t, secrets)], n)
  <2> DEFINE h == [t \in Json |-> TargetsOf(g, t, secrets)]
  <2> SUFFICES ASSUME NEW t \in JsonTo[n] PROVE h[t] = TargetsOf(h, t, secrets)
    OBVIOUS
  <2>1. t \in Json /\ Within(t) \subseteq Json
    BY WithinIs, AllJson
  <2>2. \A c \in Within(t) : h[c] = g[c]
    BY <1>1, <2>1
  <2>3. TargetsOf(h, t, secrets) = TargetsOf(g, t, secrets)
    <3> HIDE DEF h
    <3> QED
      BY <2>1, <2>2, TargetsOfInside
  <2> QED
    BY <2>1, <2>3
<1>2. 0 \in T
  <2>1. 0 \in 0..Nesting /\ \A t \in JsonTo[0] : Within(t) = {}
    BY WithinIs
  <2>2. \E g : Upto(g, 0)
    <3> HIDE DEF Upto
    <3> QED
      BY <1>1, <2>1
  <2> QED
    BY <2>2
<1>3. ASSUME NEW n \in T PROVE n + 1 \in T
  <2> SUFFICES ASSUME n + 1 \in 0..Nesting PROVE \E g : Upto(g, n + 1)
    OBVIOUS
  <2>1. n \in Nat /\ n \in 0..Nesting /\ (n + 1) - 1 = n /\ n + 1 # 0
    OBVIOUS
  <2>2. PICK g : Upto(g, n)
    BY <2>1
  <2>3. \A t \in JsonTo[n + 1] : Within(t) \subseteq JsonTo[n]
    BY <2>1, WithinIs
  <2>4. \A t \in JsonTo[n + 1] : \A c \in Within(t) : g[c] = TargetsOf(g, c, secrets)
    BY <2>2, <2>3
  <2> HIDE DEF Upto
  <2> QED
    BY <1>1, <2>4
<1>4. PICK g : Upto(g, Nesting)
  <2>1. T \in SUBSET Nat
    OBVIOUS
  <2>2. Nesting \in T
    <3> HIDE DEF T
    <3> QED
      BY <1>2, <1>3, <2>1, AllNat
  <2> QED
    BY <2>2
<1> DEFINE h == [t \in Json |-> g[t]]
<1>5. h = [t \in Json |-> TargetsOf(h, t, secrets)]
  <2>1. \A t \in Json : Within(t) \subseteq Json
    BY WithinIs, AllJson DEF Json
  <2>2. \A t \in Json : \A c \in Within(t) : h[c] = g[c]
    BY <2>1
  <2>3. \A t \in Json : TargetsOf(h, t, secrets) = TargetsOf(g, t, secrets)
    <3> HIDE DEF h
    <3> QED
      BY <2>2, TargetsOfInside
  <2>4. \A t \in Json : h[t] = TargetsOf(h, t, secrets)
    BY <1>4, <2>3 DEF Json
  <2>5. h = [t \in Json |-> h[t]]
    OBVIOUS
  <2> HIDE DEF h
  <2> QED
    BY <2>4, <2>5
<1> DEFINE H == CHOOSE f : f = [t \in Json |-> TargetsOf(f, t, secrets)]
<1>6. H = [t \in Json |-> TargetsOf(H, t, secrets)]
  <2> HIDE DEF h
  <2> QED
    BY <1>5, Zenon
<1>7. Targets(secrets) = H
  BY Zenon DEF Targets, TargetsOf
<1> HIDE DEF H
<1> QED
  BY <1>6, <1>7

\* and of Leaves.
LeavesOf(f, t) ==
  CASE t.kind = "object" /\ t.items # <<>> ->
         UNION {Beneath(t.items[i].key, f[t.items[i].value]) : i \in DOMAIN t.items}
    [] t.kind = "array" /\ t.items # <<>> -> UNION {f[t.items[i]] : i \in DOMAIN t.items}
    [] OTHER -> {[keys |-> <<>>, is |-> t]}

\* They depend on those of what is right inside only.
LEMMA LeavesOfInside ==
  ASSUME Nesting \in Nat, NEW t \in Json, NEW f, NEW g, \A c \in Within(t) : f[c] = g[c]
  PROVE  LeavesOf(f, t) = LeavesOf(g, t)
<1>1. CASE t.kind = "object" /\ t.items # <<>>
  <2>1. \A i \in DOMAIN t.items : f[t.items[i].value] = g[t.items[i].value]
    BY <1>1 DEF Within
  <2>2. {Beneath(t.items[i].key, f[t.items[i].value]) : i \in DOMAIN t.items}
          = {Beneath(t.items[i].key, g[t.items[i].value]) : i \in DOMAIN t.items}
    BY <2>1
  <2> QED
    BY <1>1, <2>2 DEF LeavesOf
<1>2. CASE t.kind = "array" /\ t.items # <<>>
  <2>1. \A i \in DOMAIN t.items : f[t.items[i]] = g[t.items[i]]
    BY <1>2 DEF Within
  <2>2. {f[t.items[i]] : i \in DOMAIN t.items} = {g[t.items[i]] : i \in DOMAIN t.items}
    BY <2>1
  <2> QED
    BY <1>2, <2>2 DEF LeavesOf
<1> QED
  BY <1>1, <1>2 DEF LeavesOf

\* The leaves, level by level.
LEMMA LeavesAre ==
  ASSUME Nesting \in Nat
  PROVE  \A t \in Json : Leaves[t] = LeavesOf(Leaves, t)
<1> DEFINE Upto(g, n) == \A t \in JsonTo[n] : g[t] = LeavesOf(g, t)
           T == {n \in Nat : n \in 0..Nesting => \E g : Upto(g, n)}
<1>1. ASSUME NEW n \in 0..Nesting, NEW g, \A t \in JsonTo[n] : \A c \in Within(t) : g[c] = LeavesOf(g, c)
      PROVE  Upto([t \in Json |-> LeavesOf(g, t)], n)
  <2> DEFINE h == [t \in Json |-> LeavesOf(g, t)]
  <2> SUFFICES ASSUME NEW t \in JsonTo[n] PROVE h[t] = LeavesOf(h, t)
    OBVIOUS
  <2>1. t \in Json /\ Within(t) \subseteq Json
    BY WithinIs, AllJson
  <2>2. \A c \in Within(t) : h[c] = g[c]
    BY <1>1, <2>1
  <2>3. LeavesOf(h, t) = LeavesOf(g, t)
    <3> HIDE DEF h
    <3> QED
      BY <2>1, <2>2, LeavesOfInside
  <2> QED
    BY <2>1, <2>3
<1>2. 0 \in T
  <2>1. 0 \in 0..Nesting /\ \A t \in JsonTo[0] : Within(t) = {}
    BY WithinIs
  <2>2. \E g : Upto(g, 0)
    <3> HIDE DEF Upto
    <3> QED
      BY <1>1, <2>1
  <2> QED
    BY <2>2
<1>3. ASSUME NEW n \in T PROVE n + 1 \in T
  <2> SUFFICES ASSUME n + 1 \in 0..Nesting PROVE \E g : Upto(g, n + 1)
    OBVIOUS
  <2>1. n \in Nat /\ n \in 0..Nesting /\ (n + 1) - 1 = n /\ n + 1 # 0
    OBVIOUS
  <2>2. PICK g : Upto(g, n)
    BY <2>1
  <2>3. \A t \in JsonTo[n + 1] : Within(t) \subseteq JsonTo[n]
    BY <2>1, WithinIs
  <2>4. \A t \in JsonTo[n + 1] : \A c \in Within(t) : g[c] = LeavesOf(g, c)
    BY <2>2, <2>3
  <2> HIDE DEF Upto
  <2> QED
    BY <1>1, <2>4
<1>4. PICK g : Upto(g, Nesting)
  <2>1. T \in SUBSET Nat
    OBVIOUS
  <2>2. Nesting \in T
    <3> HIDE DEF T
    <3> QED
      BY <1>2, <1>3, <2>1, AllNat
  <2> QED
    BY <2>2
<1> DEFINE h == [t \in Json |-> g[t]]
<1>5. h = [t \in Json |-> LeavesOf(h, t)]
  <2>1. \A t \in Json : Within(t) \subseteq Json
    BY WithinIs, AllJson DEF Json
  <2>2. \A t \in Json : \A c \in Within(t) : h[c] = g[c]
    BY <2>1
  <2>3. \A t \in Json : LeavesOf(h, t) = LeavesOf(g, t)
    <3> HIDE DEF h
    <3> QED
      BY <2>2, LeavesOfInside
  <2>4. \A t \in Json : h[t] = LeavesOf(h, t)
    BY <1>4, <2>3 DEF Json
  <2>5. h = [t \in Json |-> h[t]]
    OBVIOUS
  <2> HIDE DEF h
  <2> QED
    BY <2>4, <2>5
<1> DEFINE H == CHOOSE f : f = [t \in Json |-> LeavesOf(f, t)]
<1>6. H = [t \in Json |-> LeavesOf(H, t)]
  <2> HIDE DEF h
  <2> QED
    BY <1>5, Zenon
<1>7. Leaves = H
  BY Zenon DEF Leaves, LeavesOf
<1> HIDE DEF H
<1> QED
  BY <1>6, <1>7

\* Induction over values, by their depth.
LEMMA LevelInduction ==
  ASSUME Nesting \in Nat, NEW T,
         \A n \in 0..Nesting : \A t \in JsonTo[n] : (\A c \in Within(t) : <<n - 1, c>> \in T) => <<n, t>> \in T
  PROVE  \A n \in 0..Nesting : \A t \in JsonTo[n] : <<n, t>> \in T
<1> DEFINE U == {n \in Nat : n \in 0..Nesting => \A t \in JsonTo[n] : <<n, t>> \in T}
<1>1. 0 \in U
  <2>1. \A t \in JsonTo[0] : Within(t) = {}
    BY WithinIs
  <2> QED
    BY <2>1
<1>2. ASSUME NEW n \in U PROVE n + 1 \in U
  <2> SUFFICES ASSUME n + 1 \in 0..Nesting, NEW t \in JsonTo[n + 1] PROVE <<n + 1, t>> \in T
    OBVIOUS
  <2>1. n \in 0..Nesting /\ (n + 1) - 1 = n /\ n + 1 # 0
    OBVIOUS
  <2>2. \A c \in Within(t) : <<n, c>> \in T
    BY <2>1, WithinIs
  <2> QED
    BY <2>1, <2>2
<1>3. U \in SUBSET Nat
  OBVIOUS
<1>4. \A n \in Nat : n \in U
  <2> HIDE DEF U
  <2> QED
    BY <1>1, <1>2, <1>3, AllNat
<1> SUFFICES ASSUME NEW n \in 0..Nesting PROVE \A t \in JsonTo[n] : <<n, t>> \in T
  OBVIOUS
<1>5. n \in U
  BY <1>4
<1> QED
  BY <1>5

\* What holds of a value when it holds right inside it holds of all.
LEMMA TreeInduction ==
  ASSUME Nesting \in Nat, NEW T,
         \A n \in 0..Nesting : \A t \in JsonTo[n] : Within(t) \subseteq T => t \in T
  PROVE  Json \subseteq T
<1> DEFINE P == {<<n, t>> : n \in {-1} \cup (0..Nesting), t \in T}
<1>1. ASSUME NEW n \in 0..Nesting, NEW t \in JsonTo[n], \A c \in Within(t) : <<n - 1, c>> \in P
      PROVE  <<n, t>> \in P
  <2>1. Within(t) \subseteq T
    BY <1>1
  <2>2. t \in T
    BY <2>1
  <2> QED
    BY <2>2
<1>2. \A t \in JsonTo[Nesting] : <<Nesting, t>> \in P
  <2>1. Nesting \in 0..Nesting
    OBVIOUS
  <2> HIDE DEF P
  <2> QED
    BY <1>1, <2>1, LevelInduction
<1> QED
  BY <1>2 DEF Json

\* A container of a depth has sequences of what is less deep.
LEMMA ItemsAre ==
  ASSUME Nesting \in Nat, NEW n \in 0..Nesting, NEW t \in JsonTo[n], Container(t)
  PROVE  /\ n > 0 /\ n - 1 \in 0..Nesting /\ Len(t.items) \in Nat /\ DOMAIN t.items = 1..Len(t.items)
         /\ t.kind = "object" => \A i \in DOMAIN t.items :
              /\ t.items[i] = [key |-> t.items[i].key, value |-> t.items[i].value]
              /\ t.items[i].key \in JsonKeys /\ t.items[i].value \in JsonTo[n - 1] \cap Within(t)
         /\ t.kind = "array" => \A i \in DOMAIN t.items : t.items[i] \in JsonTo[n - 1] \cap Within(t)
<1>1. TreeOf(t, n)
  BY TreeIs
<1>2. CASE t.kind = "object"
  <2>1. t.items \in Seq([key : JsonKeys, value : JsonTo[n - 1]]) /\ n > 0
    BY <1>1, <1>2 DEF TreeOf, Members
  <2>2. Len(t.items) \in Nat /\ DOMAIN t.items = 1..Len(t.items)
        /\ \A i \in DOMAIN t.items : t.items[i] \in [key : JsonKeys, value : JsonTo[n - 1]]
    BY <2>1, SeqItems, Zenon
  <2> QED
    BY <1>2, <2>1, <2>2 DEF Within
<1>3. CASE t.kind = "array"
  <2>1. t.items \in Seq(JsonTo[n - 1]) /\ n > 0
    BY <1>1, <1>3 DEF TreeOf
  <2>2. Len(t.items) \in Nat /\ DOMAIN t.items = 1..Len(t.items) /\ \A i \in DOMAIN t.items : t.items[i] \in JsonTo[n - 1]
    BY <2>1, SeqItems, Zenon
  <2> QED
    BY <1>3, <2>1, <2>2 DEF Within
<1> QED
  BY <1>2, <1>3 DEF Container

\* An object or an array with other items and another rest is a value too.
LEMMA Rebuilt ==
  ASSUME Nesting \in Nat, NEW n \in 0..Nesting, NEW t \in JsonTo[n], Container(t), NEW items, NEW left,
         IF t.kind = "object" THEN items \in Seq([key : JsonKeys, value : JsonTo[n - 1]]) /\ left \in Seq(JsonKeys)
         ELSE items \in Seq(JsonTo[n - 1]) /\ left \in Seq(JsonTo[n - 1])
  PROVE  /\ [t EXCEPT !.items = items] \in JsonTo[n]
         /\ [t EXCEPT !.items = items, !.left = left] \in JsonTo[n]
<1>1. TreeOf(t, n)
  BY TreeIs
<1> DEFINE one == [t EXCEPT !.items = items]
           two == [t EXCEPT !.items = items, !.left = left]
<1>0. t = [kind |-> t.kind, size |-> t.size, items |-> t.items, left |-> t.left]
  BY <1>1 DEF TreeOf
<1>2. one = [kind |-> t.kind, size |-> t.size, items |-> items, left |-> t.left]
  BY <1>0
<1>3. two = [kind |-> t.kind, size |-> t.size, items |-> items, left |-> left]
  <2>1. PICK k, z, i, l : t = [kind |-> k, size |-> z, items |-> i, left |-> l]
    BY <1>0
  <2>2. [t EXCEPT !.items = items] = [kind |-> k, size |-> z, items |-> items, left |-> l]
    BY <2>1
  <2>3. two = [[t EXCEPT !.items = items] EXCEPT !.left = left]
    BY <2>1
  <2>5. ASSUME NEW o, o = [kind |-> k, size |-> z, items |-> items, left |-> l]
        PROVE  [o EXCEPT !.left = left] = [kind |-> k, size |-> z, items |-> items, left |-> left]
    BY <2>5
  <2>4. two = [kind |-> k, size |-> z, items |-> items, left |-> left]
    BY <2>2, <2>3, <2>5
  <2> QED
    BY <2>1, <2>4
<1>4. /\ one.kind = t.kind /\ one.size = t.size /\ one.items = items /\ one.left = t.left
      /\ two.kind = t.kind /\ two.size = t.size /\ two.items = items /\ two.left = left
  BY <1>2, <1>3
<1>5. one = [kind |-> one.kind, size |-> one.size, items |-> one.items, left |-> one.left]
  BY <1>2
<1>6. two = [kind |-> two.kind, size |-> two.size, items |-> two.items, left |-> two.left]
  BY <1>3
<1> HIDE DEF one, two
<1>7. CASE t.kind = "object"
  <2>1. items \in Members(JsonTo[n - 1]) /\ left \in Seq(JsonKeys)
    BY <1>7 DEF Members
  <2>2. TreeOf(one, n)
    BY <1>1, <1>4, <1>5, <1>7, <2>1 DEF TreeOf, Container
  <2>3. TreeOf(two, n)
    BY <1>1, <1>4, <1>6, <1>7, <2>1 DEF TreeOf, Container
  <2> QED
    BY <2>2, <2>3, TreeMade DEF one, two
<1>8. CASE t.kind = "array"
  <2>1. items \in Seq(JsonTo[n - 1]) /\ left \in Seq(JsonTo[n - 1])
    BY <1>8
  <2>2. TreeOf(one, n)
    BY <1>1, <1>4, <1>5, <1>8, <2>1 DEF TreeOf, Container
  <2>3. TreeOf(two, n)
    BY <1>1, <1>4, <1>6, <1>8, <2>1 DEF TreeOf, Container
  <2> QED
    BY <2>2, <2>3, TreeMade DEF one, two
<1> QED
  BY <1>7, <1>8 DEF Container

\* What is redacted keeps its shape.
LEMMA RedactAt ==
  ASSUME Nesting \in Nat, NEW secrets, NEW n \in 0..Nesting, NEW t \in JsonTo[n]
  PROVE  LET r == Redact(t, secrets) IN
         /\ ~Full(t) => r = t
         /\ r.kind = t.kind /\ r.left = t.left /\ DOMAIN r.items = DOMAIN t.items
         /\ Container(t) => r.items \in [DOMAIN t.items -> ValuesOf(r.items)]
         /\ Container(t) => r = [t EXCEPT !.items = r.items]
         /\ t.kind = "object" => \A i \in DOMAIN t.items :
              r.items[i] = [key   |-> t.items[i].key,
                            value |-> IF Hides(secrets, t.items[i]) THEN Stars ELSE Redact(t.items[i].value, secrets)]
         /\ t.kind = "array" => \A i \in DOMAIN t.items : r.items[i] = Redact(t.items[i], secrets)
<1> DEFINE r == Redact(t, secrets)
<1>0. t \in Json /\ TreeOf(t, n)
  BY AllJson, TreeIs
<1>1. r = RedactedOf(Redaction(secrets), t, secrets)
  BY <1>0, RedactionIs DEF Redact
<1>2. t = [kind |-> t.kind, size |-> t.size, items |-> t.items, left |-> t.left]
  BY <1>0 DEF TreeOf
<1>3. ASSUME NEW items, r = [t EXCEPT !.items = items]
      PROVE  r.kind = t.kind /\ r.left = t.left /\ r.items = items /\ r = [t EXCEPT !.items = r.items]
             /\ (items = t.items => r = t)
  <2>1. r = [kind |-> t.kind, size |-> t.size, items |-> items, left |-> t.left]
    BY <1>2, <1>3
  <2> HIDE DEF r
  <2>2. r.items = items
    BY <2>1
  <2> QED
    BY <1>2, <1>3, <2>1, <2>2
<1>4. CASE t.kind = "object"
  <2> DEFINE items == [i \in DOMAIN t.items |-> [t.items[i] EXCEPT !.value =
                         IF Hides(secrets, t.items[i]) THEN Stars ELSE Redaction(secrets)[t.items[i].value]]]
  <2>1. r = [t EXCEPT !.items = items]
    BY <1>1, <1>4 DEF RedactedOf
  <2>2. ASSUME NEW i \in DOMAIN t.items
        PROVE  items[i] = [key   |-> t.items[i].key,
                           value |-> IF Hides(secrets, t.items[i]) THEN Stars ELSE Redact(t.items[i].value, secrets)]
    <3>1. t.items[i] = [key |-> t.items[i].key, value |-> t.items[i].value]
      BY <1>4, ItemsAre DEF Container
    <3> DEFINE v == IF Hides(secrets, t.items[i]) THEN Stars ELSE Redaction(secrets)[t.items[i].value]
    <3>2. items[i] = [t.items[i] EXCEPT !.value = v]
      OBVIOUS
    <3>3. v = IF Hides(secrets, t.items[i]) THEN Stars ELSE Redact(t.items[i].value, secrets)
      BY DEF Redact
    <3> HIDE DEF v, items
    <3>4. items[i] = [key |-> t.items[i].key, value |-> v]
      BY <3>1, <3>2
    <3> QED
      BY <3>3, <3>4
  <2>3. t.items = <<>> => items = t.items
    OBVIOUS
  <2>4. DOMAIN items = DOMAIN t.items
    OBVIOUS
  <2>5. items \in [DOMAIN t.items -> ValuesOf(items)]
    BY DEF ValuesOf
  <2> HIDE DEF r, items
  <2> QED
    BY <1>3, <1>4, <2>1, <2>2, <2>3, <2>4, <2>5 DEF r, Full, Container
<1>5. CASE t.kind = "array"
  <2> DEFINE items == [i \in DOMAIN t.items |-> Redaction(secrets)[t.items[i]]]
  <2>1. r = [t EXCEPT !.items = items]
    BY <1>1, <1>5 DEF RedactedOf
  <2>2. \A i \in DOMAIN t.items : items[i] = Redact(t.items[i], secrets)
    BY DEF Redact
  <2>3. t.items = <<>> => items = t.items
    OBVIOUS
  <2>4. DOMAIN items = DOMAIN t.items
    OBVIOUS
  <2>5. items \in [DOMAIN t.items -> ValuesOf(items)]
    BY DEF ValuesOf
  <2> HIDE DEF r, items
  <2> QED
    BY <1>3, <1>5, <2>1, <2>2, <2>3, <2>4, <2>5 DEF r, Full, Container
<1>6. CASE ~Container(t)
  BY <1>1, <1>6 DEF RedactedOf, Container, Full
<1> QED
  BY <1>4, <1>5, <1>6 DEF Container

\* Where an item of it comes from.
LEMMA RedactArray ==
  ASSUME Nesting \in Nat, NEW secrets, NEW n \in 0..Nesting, NEW t \in JsonTo[n], t.kind = "array",
         NEW i \in DOMAIN t.items
  PROVE  Redact(t, secrets).items[i] = Redact(t.items[i], secrets)
BY RedactAt

\* Where an entry of it comes from.
LEMMA RedactObject ==
  ASSUME Nesting \in Nat, NEW secrets, NEW n \in 0..Nesting, NEW t \in JsonTo[n], t.kind = "object",
         NEW i \in DOMAIN t.items
  PROVE  Redact(t, secrets).items[i]
           = [key   |-> t.items[i].key,
              value |-> IF Hides(secrets, t.items[i]) THEN Stars ELSE Redact(t.items[i].value, secrets)]
BY RedactAt

\* What masks a value is a value itself, and not null.
LEMMA StarsAre ==
  ASSUME Nesting \in Nat, NEW n \in 0..Nesting
  PROVE  Stars \in JsonTo[n] /\ Null \in JsonTo[n] /\ Stars # Null /\ ~Full(Stars) /\ ~Full(Null)
<1>1. {Stars, Null} \subseteq Scalars(Kinds)
  BY DEF Stars, Null, Tree, Scalars, Kinds
<1>2. JsonTo[0] \subseteq JsonTo[n]
  BY JsonGrows
<1>3. Stars.kind = "***" /\ Null.kind = "null"
  BY DEF Stars, Null, Tree
<1>4. ~Full(Stars) /\ ~Full(Null)
  BY <1>3 DEF Full, Container
<1> QED
  BY <1>1, <1>2, <1>3, <1>4, JsonToIs

\* What is redacted is a value of the same depth.
LEMMA RedactStays ==
  ASSUME Nesting \in Nat, NEW secrets
  PROVE  \A n \in 0..Nesting : \A t \in JsonTo[n] : Redact(t, secrets) \in JsonTo[n]
<1> DEFINE T == {p \in (0..Nesting) \X Json : Redact(p[2], secrets) \in JsonTo[p[1]]}
<1>1. ASSUME NEW n \in 0..Nesting, NEW t \in JsonTo[n], \A c \in Within(t) : <<n - 1, c>> \in T
      PROVE  Redact(t, secrets) \in JsonTo[n]
  <2> DEFINE r == Redact(t, secrets)
  <2>1. \A c \in Within(t) : Redact(c, secrets) \in JsonTo[n - 1]
    BY <1>1
  <2>2. CASE ~Container(t)
    BY <2>2, RedactAt DEF Full
  <2>3. CASE Container(t)
    <3>1. Len(t.items) \in Nat /\ DOMAIN t.items = 1..Len(t.items) /\ n - 1 \in 0..Nesting
      BY <2>3, ItemsAre
    <3>2. r = [t EXCEPT !.items = r.items] /\ r.items \in [DOMAIN t.items -> ValuesOf(r.items)]
      BY <2>3, RedactAt, ZenonT(60)
    <3>3. CASE t.kind = "object"
      <4>1. ASSUME NEW i \in DOMAIN t.items PROVE r.items[i] \in [key : JsonKeys, value : JsonTo[n - 1]]
        <5>1. t.items[i].key \in JsonKeys /\ Redact(t.items[i].value, secrets) \in JsonTo[n - 1]
          BY <2>1, <2>3, <3>3, ItemsAre
        <5>2. Stars \in JsonTo[n - 1]
          BY <3>1, StarsAre
        <5>3. r.items[i] = [key   |-> t.items[i].key,
                            value |-> IF Hides(secrets, t.items[i]) THEN Stars ELSE Redact(t.items[i].value, secrets)]
          BY <3>3, RedactObject
        <5> HIDE DEF r
        <5> QED
          BY <5>1, <5>2, <5>3
      <4>2. r.items = [i \in 1..Len(t.items) |-> r.items[i]]
        BY <3>1, <3>2
      <4> HIDE DEF r
      <4>3. r.items \in Seq([key : JsonKeys, value : JsonTo[n - 1]])
        <5>1. r.items \in [1..Len(t.items) -> [key : JsonKeys, value : JsonTo[n - 1]]]
          BY <3>1, <4>1, <4>2
        <5> QED
          BY <3>1, <5>1, IsSeq
      <4>4. <<>> \in Seq(JsonKeys)
        OBVIOUS
      <4>5. [t EXCEPT !.items = r.items] \in JsonTo[n]
        BY <2>3, <3>3, <4>3, <4>4, Rebuilt
      <4> QED
        BY <3>2, <4>5 DEF r
    <3>4. CASE t.kind = "array"
      <4>1. ASSUME NEW i \in DOMAIN t.items PROVE r.items[i] \in JsonTo[n - 1]
        <5>1. t.items[i] \in Within(t)
          BY <2>3, <3>4, ItemsAre
        <5>2. Redact(t.items[i], secrets) \in JsonTo[n - 1]
          BY <2>1, <5>1
        <5>3. r.items[i] = Redact(t.items[i], secrets)
          BY <3>4, RedactArray
        <5> HIDE DEF r
        <5> QED
          BY <5>2, <5>3
      <4>2. r.items = [i \in 1..Len(t.items) |-> r.items[i]]
        BY <3>1, <3>2
      <4> HIDE DEF r
      <4>3. r.items \in Seq(JsonTo[n - 1])
        <5>1. r.items \in [1..Len(t.items) -> JsonTo[n - 1]]
          BY <3>1, <4>1, <4>2
        <5> QED
          BY <3>1, <5>1, IsSeq
      <4>4. <<>> \in Seq(JsonTo[n - 1])
        OBVIOUS
      <4>5. [t EXCEPT !.items = r.items] \in JsonTo[n]
        BY <2>3, <3>4, <4>3, <4>4, Rebuilt
      <4> QED
        BY <3>2, <4>5 DEF r
    <3> QED
      BY <2>3, <3>3, <3>4 DEF Container
  <2> QED
    BY <2>2, <2>3
<1>2. \A n \in 0..Nesting : \A t \in JsonTo[n] : (\A c \in Within(t) : <<n - 1, c>> \in T) => <<n, t>> \in T
  BY <1>1, AllJson
<1>3. \A n \in 0..Nesting : \A t \in JsonTo[n] : <<n, t>> \in T
  <2> HIDE DEF T
  <2> QED
    BY <1>2, LevelInduction
<1> QED
  BY <1>3

\* The positions of what --fields keeps of a container, and what it keeps there.
Keeps(t, fields) ==
  {i \in DOMAIN t.items :
     IF t.kind = "object" THEN t.items[i].key \in fields \/ Full(Project(t.items[i].value, fields))
     ELSE Full(Project(t.items[i], fields))}
KeptAt(t, fields, i) ==
  IF t.kind = "object"
  THEN [key   |-> t.items[i].key,
        value |-> IF t.items[i].key \in fields THEN t.items[i].value ELSE Project(t.items[i].value, fields)]
  ELSE Project(t.items[i], fields)

\* A projected container has each of those once, and is the same otherwise.
KeepsThose(r, t, fields, from) ==
  /\ r.kind = t.kind /\ r.left = t.left /\ r.size = t.size
  /\ Len(r.items) \in Nat /\ DOMAIN r.items = 1..Len(r.items)
  /\ \A j \in DOMAIN r.items : from[j] \in Keeps(t, fields) /\ r.items[j] = KeptAt(t, fields, from[j])
  /\ \A j, k \in DOMAIN r.items : from[j] = from[k] => j = k
  /\ \A i \in Keeps(t, fields) : \E j \in DOMAIN r.items : from[j] = i

\* One level of a projection, given those of what is inside.
LEMMA ProjectStep ==
  ASSUME Nesting \in Nat, NEW fields, NEW n \in 0..Nesting, NEW t \in JsonTo[n], Container(t),
         \A c \in Within(t) : Project(c, fields) \in JsonTo[n - 1]
  PROVE  /\ Project(t, fields) \in JsonTo[n]
         /\ \E from : KeepsThose(Project(t, fields), t, fields, from)
<1> DEFINE r == Project(t, fields)
<1>1. n > 0 /\ n - 1 \in 0..Nesting /\ Len(t.items) \in Nat /\ DOMAIN t.items = 1..Len(t.items)
  BY ItemsAre
<1>2. r = ProjectedOf(Projection(fields), t, fields)
  BY AllJson, ProjectionIs DEF Project
<1>3. t = [kind |-> t.kind, size |-> t.size, items |-> t.items, left |-> t.left]
  BY TreeIs DEF TreeOf
<1>4. ASSUME NEW items, r = [t EXCEPT !.items = items]
      PROVE  r.kind = t.kind /\ r.left = t.left /\ r.size = t.size /\ r.items = items
  <2>1. r = [kind |-> t.kind, size |-> t.size, items |-> items, left |-> t.left]
    BY <1>3, <1>4
  <2> HIDE DEF r
  <2> QED
    BY <2>1
<1>5. CASE t.kind = "object"
  <2> DEFINE S == [key : JsonKeys, value : JsonTo[n - 1]]
             s == [i \in DOMAIN t.items |-> Projected(t.items[i], fields, Projection(fields)[t.items[i].value])]
             D == {i \in DOMAIN s : s[i].key \in fields \/ Full(s[i].value)}
  <2>1. r = [t EXCEPT !.items = Selected(s, D)]
    BY <1>2, <1>5 DEF ProjectedOf, KeptEntries
  <2>2. ASSUME NEW i \in DOMAIN t.items PROVE s[i] = KeptAt(t, fields, i) /\ KeptAt(t, fields, i) \in S
    <3>1. /\ t.items[i] = [key |-> t.items[i].key, value |-> t.items[i].value]
          /\ t.items[i].key \in JsonKeys /\ t.items[i].value \in JsonTo[n - 1] /\ t.items[i].value \in Within(t)
      BY <1>5, ItemsAre
    <3>2. Project(t.items[i].value, fields) \in JsonTo[n - 1]
      BY <3>1
    <3>3. KeptAt(t, fields, i) = [key   |-> t.items[i].key,
                                  value |-> IF t.items[i].key \in fields THEN t.items[i].value
                                            ELSE Project(t.items[i].value, fields)]
      BY <1>5 DEF KeptAt
    <3>4. KeptAt(t, fields, i) \in S
      <4> HIDE DEF s, D
      <4> QED
        BY <3>1, <3>2, <3>3
    <3>5. s[i] = Projected(t.items[i], fields, Project(t.items[i].value, fields))
      BY DEF Project
    <3>6. ASSUME NEW inside
          PROVE  [t.items[i] EXCEPT !.value = inside] = [key |-> t.items[i].key, value |-> inside]
      BY <3>1
    <3>7. CASE t.items[i].key \in fields
      BY <3>1, <3>3, <3>4, <3>5, <3>7 DEF Projected
    <3>8. CASE t.items[i].key \notin fields
      BY <3>3, <3>4, <3>5, <3>6, <3>8 DEF Projected
    <3> QED
      BY <3>7, <3>8
  <2>3. s \in Seq(S)
    <3>1. DOMAIN s = 1..Len(t.items)
      BY <1>1
    <3>2. s \in [1..Len(t.items) -> S]
      BY <1>1, <2>2
    <3> QED
      BY <1>1, <3>2, IsSeq
  <2>4. D = Keeps(t, fields)
    <3>1. ASSUME NEW i \in DOMAIN t.items
          PROVE  (s[i].key \in fields \/ Full(s[i].value))
                 <=> (t.items[i].key \in fields \/ Full(Project(t.items[i].value, fields)))
      <4>1. s[i].key = t.items[i].key
            /\ s[i].value = IF t.items[i].key \in fields THEN t.items[i].value ELSE Project(t.items[i].value, fields)
        <5>1. s[i] = KeptAt(t, fields, i)
          BY <2>2
        <5> HIDE DEF s
        <5> QED
          BY <1>5, <5>1 DEF KeptAt
      <4> HIDE DEF s
      <4> QED
        BY <4>1
    <3> QED
      BY <1>5, <3>1 DEF Keeps
  <2>5. DOMAIN s = DOMAIN t.items
    OBVIOUS
  <2> HIDE DEF r, s, D
  <2>6. PICK from : Reads(s, D, Selected(s, D), from)
    BY <2>3, SelectedIs
  <2>7. Selected(s, D) \in Seq(S)
    BY <2>3, SelectedIs
  <2>8. r.items = Selected(s, D) /\ r.kind = t.kind /\ r.left = t.left /\ r.size = t.size
    BY <1>4, <2>1
  <2>9. Len(r.items) \in Nat /\ DOMAIN r.items = 1..Len(r.items)
    BY <2>7, <2>8, SeqItems
  <2>10. KeepsThose(r, t, fields, from)
    <3>1. \A i \in D : i \in DOMAIN t.items /\ s[i] = KeptAt(t, fields, i)
      BY <2>2, <2>4 DEF Keeps
    <3>2. D \cap DOMAIN s = D
      BY <2>5, <3>1
    <3> QED
      BY <2>4, <2>6, <2>8, <2>9, <3>1, <3>2 DEF KeepsThose, Reads
  <2>11. r \in JsonTo[n]
    <3>1. <<>> \in Seq(JsonKeys)
      OBVIOUS
    <3> QED
      BY <1>5, <2>1, <2>7, <3>1, Rebuilt
  <2> QED
    BY <2>10, <2>11 DEF r
<1>6. CASE t.kind = "array"
  <2> DEFINE s == [i \in DOMAIN t.items |-> Projection(fields)[t.items[i]]]
             D == {i \in DOMAIN s : Full(s[i])}
  <2>1. r = [t EXCEPT !.items = Selected(s, D)]
    BY <1>2, <1>6 DEF ProjectedOf, KeptItems
  <2>2. ASSUME NEW i \in DOMAIN t.items PROVE s[i] = KeptAt(t, fields, i) /\ KeptAt(t, fields, i) \in JsonTo[n - 1]
    <3>1. t.items[i] \in Within(t)
      BY <1>6, ItemsAre
    <3>2. KeptAt(t, fields, i) = Project(t.items[i], fields)
      BY <1>6 DEF KeptAt
    <3>3. s[i] = Project(t.items[i], fields)
      BY DEF Project
    <3> HIDE DEF s
    <3> QED
      BY <3>1, <3>2, <3>3
  <2>3. s \in Seq(JsonTo[n - 1])
    <3>1. s \in [1..Len(t.items) -> JsonTo[n - 1]]
      BY <1>1, <2>2
    <3> QED
      BY <1>1, <3>1, IsSeq
  <2>4. D = Keeps(t, fields)
    BY <1>6 DEF Keeps, Project
  <2>5. DOMAIN s = DOMAIN t.items
    OBVIOUS
  <2> HIDE DEF r, s, D
  <2>6. PICK from : Reads(s, D, Selected(s, D), from)
    BY <2>3, SelectedIs
  <2>7. Selected(s, D) \in Seq(JsonTo[n - 1])
    BY <2>3, SelectedIs
  <2>8. r.items = Selected(s, D) /\ r.kind = t.kind /\ r.left = t.left /\ r.size = t.size
    BY <1>4, <2>1
  <2>9. Len(r.items) \in Nat /\ DOMAIN r.items = 1..Len(r.items)
    BY <2>7, <2>8, SeqItems
  <2>10. KeepsThose(r, t, fields, from)
    <3>1. \A i \in D : i \in DOMAIN t.items /\ s[i] = KeptAt(t, fields, i)
      BY <2>2, <2>4 DEF Keeps
    <3>2. D \cap DOMAIN s = D
      BY <2>5, <3>1
    <3> QED
      BY <2>4, <2>6, <2>8, <2>9, <3>1, <3>2 DEF KeepsThose, Reads
  <2>11. r \in JsonTo[n]
    <3>1. <<>> \in Seq(JsonTo[n - 1])
      OBVIOUS
    <3> QED
      BY <1>6, <2>1, <2>7, <3>1, Rebuilt
  <2> QED
    BY <2>10, <2>11 DEF r
<1> QED
  BY <1>5, <1>6 DEF Container

\* What is no container is its own projection.
LEMMA ProjectScalar ==
  ASSUME Nesting \in Nat, NEW fields, NEW t \in Json, ~Container(t)
  PROVE  Project(t, fields) = t
BY ProjectionIs DEF Project, ProjectedOf, Container

\* What is projected is as deep at most.
LEMMA ProjectStays ==
  ASSUME Nesting \in Nat, NEW fields
  PROVE  \A n \in 0..Nesting : \A t \in JsonTo[n] : Project(t, fields) \in JsonTo[n]
<1> DEFINE T == {p \in (0..Nesting) \X Json : Project(p[2], fields) \in JsonTo[p[1]]}
<1>1. ASSUME NEW n \in 0..Nesting, NEW t \in JsonTo[n], \A c \in Within(t) : <<n - 1, c>> \in T
      PROVE  Project(t, fields) \in JsonTo[n]
  <2>1. \A c \in Within(t) : Project(c, fields) \in JsonTo[n - 1]
    BY <1>1
  <2> QED
    BY <2>1, AllJson, ProjectStep, ProjectScalar
<1>2. \A n \in 0..Nesting : \A t \in JsonTo[n] : (\A c \in Within(t) : <<n - 1, c>> \in T) => <<n, t>> \in T
  BY <1>1, AllJson
<1>3. \A n \in 0..Nesting : \A t \in JsonTo[n] : <<n, t>> \in T
  <2> HIDE DEF T
  <2> QED
    BY <1>2, LevelInduction
<1> QED
  BY <1>3

\* So a projected container has what it keeps.
LEMMA ProjectAt ==
  ASSUME Nesting \in Nat, NEW fields, NEW n \in 0..Nesting, NEW t \in JsonTo[n], Container(t)
  PROVE  \E from : KeepsThose(Project(t, fields), t, fields, from)
<1>1. \A c \in Within(t) : Project(c, fields) \in JsonTo[n - 1]
  BY ItemsAre, WithinIs, ProjectStays
<1> QED
  BY <1>1, ProjectStep

\* What is read is a value,
LEMMA ReadIsJson ==
  ASSUME Nesting \in Nat
  PROVE  \A n \in 0..Nesting : ReadTo[n] \subseteq JsonTo[n]
<1> DEFINE U == {n \in Nat : n \in 0..Nesting => ReadTo[n] \subseteq JsonTo[n]}
<1>1. Scalars({"leaf", "null"}) \subseteq Scalars(Kinds)
  BY DEF Scalars, Kinds
<1>2. 0 \in U
  BY <1>1, JsonToIs, ReadToIs
<1>3. ASSUME NEW n \in U PROVE n + 1 \in U
  <2> SUFFICES ASSUME n + 1 \in 0..Nesting PROVE ReadTo[n + 1] \subseteq JsonTo[n + 1]
    OBVIOUS
  <2>1. n \in 0..Nesting /\ (n + 1) - 1 = n /\ n + 1 \in 1..Nesting
    OBVIOUS
  <2>2. ReadTo[n] \subseteq JsonTo[n]
    BY <2>1
  <2>3. [key : JsonKeys, value : ReadTo[n]] \subseteq [key : JsonKeys, value : JsonTo[n]]
    BY <2>2
  <2>4. Members(ReadTo[n]) \subseteq Members(JsonTo[n]) /\ Seq(ReadTo[n]) \subseteq Seq(JsonTo[n])
    <3>1. Seq([key : JsonKeys, value : ReadTo[n]]) \subseteq Seq([key : JsonKeys, value : JsonTo[n]])
      BY <2>3, SeqGrows
    <3>2. Seq(ReadTo[n]) \subseteq Seq(JsonTo[n])
      BY <2>2, SeqGrows
    <3> QED
      BY <3>1, <3>2, Zenon DEF Members
  <2>5. <<>> \in Seq(JsonKeys) /\ <<>> \in Seq(JsonTo[n])
    OBVIOUS
  <2>6. Objects({s \in Members(ReadTo[n]) : KeysDiffer(s)}, {<<>>}) \subseteq Objects(Members(JsonTo[n]), Seq(JsonKeys))
    <3> DEFINE A == {s \in Members(ReadTo[n]) : KeysDiffer(s)}
               B == Members(JsonTo[n])
               C == Seq(JsonKeys)
    <3>1. A \subseteq B /\ {<<>>} \subseteq C
      BY <2>4, <2>5
    <3> HIDE DEF A, B, C
    <3>2. Objects(A, {<<>>}) \subseteq Objects(B, C)
      BY <3>1 DEF Objects
    <3> QED
      BY <3>2 DEF A, B, C
  <2>7. Arrays(Seq(ReadTo[n]), {<<>>}) \subseteq Arrays(Seq(JsonTo[n]), Seq(JsonTo[n]))
    <3> DEFINE A == Seq(ReadTo[n])
               B == Seq(JsonTo[n])
    <3>1. A \subseteq B /\ {<<>>} \subseteq B
      BY <2>4, <2>5
    <3> HIDE DEF A, B
    <3>2. Arrays(A, {<<>>}) \subseteq Arrays(B, B)
      BY <3>1 DEF Arrays
    <3> QED
      BY <3>2 DEF A, B
  <2>8. ReadTo[n + 1] = Scalars({"leaf", "null"})
                        \cup Objects({s \in Members(ReadTo[n]) : KeysDiffer(s)}, {<<>>})
                        \cup Arrays(Seq(ReadTo[n]), {<<>>})
    BY <2>1, ReadToIs
  <2>9. JsonTo[n + 1] = Scalars(Kinds) \cup Objects(Members(JsonTo[n]), Seq(JsonKeys))
                                       \cup Arrays(Seq(JsonTo[n]), Seq(JsonTo[n]))
    BY <2>1, JsonToIs
  <2> QED
    BY <1>1, <2>6, <2>7, <2>8, <2>9, Zenon
<1>4. \A n \in Nat : n \in U
  <2>1. U \in SUBSET Nat
    OBVIOUS
  <2> HIDE DEF U
  <2> QED
    BY <1>2, <1>3, <2>1, AllNat
<1> SUFFICES ASSUME NEW n \in 0..Nesting PROVE ReadTo[n] \subseteq JsonTo[n]
  OBVIOUS
<1>5. n \in U
  BY <1>4
<1> QED
  BY <1>5

\* whole, and nothing of it is masked.
LEMMA ReadIs ==
  ASSUME Nesting \in Nat, NEW n \in 0..Nesting, NEW t \in ReadTo[n]
  PROVE  /\ t \in JsonTo[n] /\ t.left = <<>> /\ t.kind \in {"leaf", "null", "object", "array"}
         /\ t.kind = "object" => KeysDiffer(t.items) /\ \A i \in DOMAIN t.items : t.items[i].value \in ReadTo[n - 1]
         /\ t.kind = "array"  => \A i \in DOMAIN t.items : t.items[i] \in ReadTo[n - 1]
<1>1. t \in JsonTo[n]
  BY ReadIsJson
<1>2. CASE t \in Scalars({"leaf", "null"})
  BY <1>1, <1>2 DEF Scalars
<1>3. ASSUME t \notin Scalars({"leaf", "null"})
      PROVE  n \in 1..Nesting /\ (t \in Objects({s \in Members(ReadTo[n - 1]) : KeysDiffer(s)}, {<<>>})
                                  \/ t \in Arrays(Seq(ReadTo[n - 1]), {<<>>}))
  <2>1. n # 0
    BY <1>3, ReadToIs
  <2>2. n \in 1..Nesting
    BY <2>1
  <2>3. ReadTo[n] = Scalars({"leaf", "null"})
                    \cup Objects({s \in Members(ReadTo[n - 1]) : KeysDiffer(s)}, {<<>>})
                    \cup Arrays(Seq(ReadTo[n - 1]), {<<>>})
    BY <2>2, ReadToIs
  <2> QED
    BY <1>3, <2>2, <2>3, Zenon
<1>4. CASE t \in Objects({s \in Members(ReadTo[n - 1]) : KeysDiffer(s)}, {<<>>})
  <2> DEFINE M == {s \in Members(ReadTo[n - 1]) : KeysDiffer(s)}
  <2>1. t.items \in M /\ t.left = <<>> /\ t.kind = "object"
    <3> HIDE DEF M
    <3>1. t \in Objects(M, {<<>>})
      BY <1>4 DEF M
    <3> QED
      BY <3>1 DEF Objects
  <2>2. t.items \in Seq([key : JsonKeys, value : ReadTo[n - 1]])
    BY <2>1 DEF Members
  <2>3. \A i \in DOMAIN t.items : t.items[i] \in [key : JsonKeys, value : ReadTo[n - 1]]
    BY <2>2, SeqItems, Zenon
  <2>4. \A i \in DOMAIN t.items : t.items[i].value \in ReadTo[n - 1]
    BY <2>3
  <2> QED
    BY <1>1, <2>1, <2>4
<1>5. CASE t \in Arrays(Seq(ReadTo[n - 1]), {<<>>})
  <2>1. t.items \in Seq(ReadTo[n - 1]) /\ t.left = <<>> /\ t.kind = "array"
    BY <1>5 DEF Arrays
  <2>2. \A i \in DOMAIN t.items : t.items[i] \in ReadTo[n - 1]
    BY <2>1, SeqItems, Zenon
  <2> QED
    BY <1>1, <2>1, <2>2
<1> QED
  BY <1>2, <1>3, <1>4, <1>5

\* No secret, nothing masked.
LEMMA RedactNothing ==
  ASSUME Nesting \in Nat
  PROVE  \A t \in Json : Redact(t, {}) = t
<1> DEFINE T == {t \in Json : Redact(t, {}) = t}
<1>1. ASSUME NEW n \in 0..Nesting, NEW t \in JsonTo[n], Within(t) \subseteq T PROVE t \in T
  <2> DEFINE r == Redact(t, {})
  <2>1. CASE ~Container(t)
    BY <2>1, AllJson, RedactAt DEF Full
  <2>2. CASE Container(t)
    <3>1. r = [t EXCEPT !.items = r.items] /\ r.items \in [DOMAIN t.items -> ValuesOf(r.items)]
      BY <2>2, RedactAt, ZenonT(60)
    <3>2. Len(t.items) \in Nat /\ DOMAIN t.items = 1..Len(t.items)
      BY <2>2, ItemsAre
    <3>3. ASSUME NEW i \in DOMAIN t.items PROVE r.items[i] = t.items[i]
      <4>1. CASE t.kind = "object"
        <5>1. r.items[i] = [key   |-> t.items[i].key,
                            value |-> IF Hides({}, t.items[i]) THEN Stars ELSE Redact(t.items[i].value, {})]
          BY <4>1, RedactObject
        <5>2. t.items[i] = [key |-> t.items[i].key, value |-> t.items[i].value] /\ t.items[i].value \in T
          BY <1>1, <2>2, <4>1, ItemsAre
        <5>3. ~Hides({}, t.items[i]) /\ Redact(t.items[i].value, {}) = t.items[i].value
          BY <5>2 DEF Hides
        <5> HIDE DEF r
        <5> QED
          BY <5>1, <5>2, <5>3
      <4>2. CASE t.kind = "array"
        <5>1. r.items[i] = Redact(t.items[i], {})
          BY <4>2, RedactArray
        <5>2. t.items[i] \in T
          BY <1>1, <2>2, <4>2, ItemsAre
        <5> HIDE DEF r
        <5> QED
          BY <5>1, <5>2
      <4> QED
        BY <2>2, <4>1, <4>2 DEF Container
    <3>4. t.items = [i \in DOMAIN t.items |-> t.items[i]]
      <4>1. CASE t.kind = "object"
        <5>1. t.items \in Seq([key : JsonKeys, value : JsonTo[n - 1]])
          BY <4>1, TreeIs DEF TreeOf, Members
        <5> QED
          BY <5>1
      <4>2. CASE t.kind = "array"
        <5>1. t.items \in Seq(JsonTo[n - 1])
          BY <4>2, TreeIs DEF TreeOf
        <5> QED
          BY <5>1
      <4> QED
        BY <2>2, <4>1, <4>2 DEF Container
    <3>5. r.items = t.items
      <4> HIDE DEF r
      <4> QED
        BY <3>1, <3>3, <3>4
    <3>6. t = [kind |-> t.kind, size |-> t.size, items |-> t.items, left |-> t.left]
      BY TreeIs DEF TreeOf
    <3>7. [t EXCEPT !.items = t.items] = t
      BY <3>6
    <3>8. r = t
      <4> HIDE DEF r
      <4> QED
        BY <3>1, <3>5, <3>7
    <3> QED
      BY <3>8, AllJson
  <2> QED
    BY <2>1, <2>2
<1>2. Json \subseteq T
  <2> HIDE DEF T
  <2> QED
    BY <1>1, TreeInduction
<1> QED
  BY <1>2

-----------------------------------------------------------------------------
(* Lengths. *)

\* A sum adds the numbers one by one.
LEMMA SumSteps ==
  ASSUME NEW s, Len(s) \in Nat
  PROVE  \E f : /\ f[0] = 0
                /\ \A n \in 1..Len(s) : f[n] = f[n - 1] + s[n]
                /\ SumOf(s) = f[Len(s)]
<1> DEFINE N            == Len(s)
           Row(prev, n) == prev + s[n]
           Body(g, n)   == IF n = 0 THEN 0 ELSE Row(g[n - 1], n)
           Built(g, n)  == g = [m \in 0..n |-> Body(g, m)]
           T            == {n \in Nat : \E g : Built(g, n)}
<1>1. 0 \in T
  <2> DEFINE g == [m \in 0..0 |-> Body(<<>>, m)]
  <2>1. Built(g, 0)
    <3>1. \A m \in 0..0 : m = 0
      OBVIOUS
    <3> HIDE DEF Row
    <3>2. \A m \in 0..0 : Body(g, m) = Body(<<>>, m)
      BY <3>1
    <3> HIDE DEF Body
    <3> QED
      BY <3>2
  <2> QED
    BY <2>1
<1>2. ASSUME NEW n \in T PROVE n + 1 \in T
  <2>1. PICK g : Built(g, n)
    OBVIOUS
  <2>2. n \in Nat /\ n + 1 \in Nat
    OBVIOUS
  <2> DEFINE h == [m \in 0..(n + 1) |-> Body(g, m)]
  <2>3. \A m \in 0..n : h[m] = g[m]
    <3> SUFFICES ASSUME NEW m \in 0..n PROVE h[m] = g[m]
      OBVIOUS
    <3>1. m \in 0..(n + 1)
      BY <2>2
    <3> HIDE DEF Body
    <3> QED
      BY <2>1, <3>1
  <2>4. \A m \in 0..(n + 1) : m # 0 => m - 1 \in 0..n
    BY <2>2
  <2>5. \A m \in 0..(n + 1) : Body(g, m) = Body(h, m)
    <3> HIDE DEF h, Row
    <3> QED
      BY <2>3, <2>4
  <2>6. Built(h, n + 1)
    <3> HIDE DEF Body
    <3> QED
      BY <2>5
  <2> QED
    BY <2>2, <2>6
<1>3. PICK f : Built(f, N)
  <2>1. T \in SUBSET Nat
    OBVIOUS
  <2>2. N \in T
    <3> HIDE DEF T
    <3> QED
      BY <1>1, <1>2, <2>1, AllNat
  <2> QED
    BY <2>2
<1> DEFINE H == CHOOSE g : g = [n \in 0..N |-> IF n = 0 THEN 0 ELSE Row(g[n - 1], n)]
<1>4. H = [n \in 0..N |-> IF n = 0 THEN 0 ELSE Row(H[n - 1], n)]
  BY <1>3, Zenon
<1>5. SumOf(s) = H[Len(s)]
  BY Zenon DEF SumOf
<1> HIDE DEF H, Row
<1>6. \A n \in 0..N : H[n] = IF n = 0 THEN 0 ELSE Row(H[n - 1], n)
  BY <1>4
<1>7. 0 \in 0..N /\ \A n \in 1..N : n \in 0..N /\ n # 0
  OBVIOUS
<1>8. H[0] = 0 /\ \A n \in 1..N : H[n] = Row(H[n - 1], n)
  BY <1>6, <1>7, Zenon
<1> QED
  BY <1>5, <1>8 DEF Row

\* A sum of natural numbers is one.
LEMMA SumIs ==
  ASSUME NEW s, Len(s) \in Nat, \A i \in 1..Len(s) : s[i] \in Nat
  PROVE  SumOf(s) \in Nat
<1>1. PICK f : /\ f[0] = 0
               /\ \A n \in 1..Len(s) : f[n] = f[n - 1] + s[n]
               /\ SumOf(s) = f[Len(s)]
  BY SumSteps
<1> DEFINE T == {n \in Nat : n <= Len(s) => f[n] \in Nat}
<1>2. 0 \in T
  BY <1>1
<1>3. ASSUME NEW n \in T PROVE n + 1 \in T
  <2>1. n \in Nat /\ n + 1 \in Nat /\ (n + 1) - 1 = n
    OBVIOUS
  <2> SUFFICES ASSUME n + 1 <= Len(s) PROVE f[n + 1] \in Nat
    BY <2>1
  <2>2. f[n] \in Nat /\ n + 1 \in 1..Len(s)
    OBVIOUS
  <2>3. f[n + 1] = f[n] + s[n + 1]
    BY <1>1, <2>1, <2>2
  <2> QED
    BY <2>2, <2>3
<1>4. Len(s) \in T
  <2>1. T \in SUBSET Nat
    OBVIOUS
  <2> HIDE DEF T
  <2> QED
    BY <1>2, <1>3, <2>1, AllNat
<1> QED
  BY <1>1, <1>4

\* The body of Length.
LengthOf(f, t) ==
  LET note == IF t.left = <<>> THEN 0 ELSE Marker + Len(t.left) IN
  CASE t.kind = "object" -> 1 + note + SumOf([i \in DOMAIN t.items |-> 1 + f[t.items[i].value]])
    [] t.kind = "array"  -> 1 + note + SumOf([i \in DOMAIN t.items |-> f[t.items[i]]])
    [] OTHER             -> t.size

\* It depends on the lengths of what is right inside only.
LEMMA LengthOfInside ==
  ASSUME Nesting \in Nat, NEW t \in Json, NEW f, NEW g, \A c \in Within(t) : f[c] = g[c]
  PROVE  LengthOf(f, t) = LengthOf(g, t)
<1>1. CASE t.kind = "object"
  <2>1. \A i \in DOMAIN t.items : f[t.items[i].value] = g[t.items[i].value]
    BY <1>1 DEF Within
  <2>2. [i \in DOMAIN t.items |-> 1 + f[t.items[i].value]] = [i \in DOMAIN t.items |-> 1 + g[t.items[i].value]]
    BY <2>1
  <2> QED
    BY <1>1, <2>2 DEF LengthOf
<1>2. CASE t.kind = "array"
  <2>1. \A i \in DOMAIN t.items : f[t.items[i]] = g[t.items[i]]
    BY <1>2 DEF Within
  <2>2. [i \in DOMAIN t.items |-> f[t.items[i]]] = [i \in DOMAIN t.items |-> g[t.items[i]]]
    BY <2>1
  <2> QED
    BY <1>2, <2>2 DEF LengthOf
<1> QED
  BY <1>1, <1>2 DEF LengthOf

\* Lengths, level by level.
LEMMA LengthsAre ==
  ASSUME Nesting \in Nat
  PROVE  \A t \in Json : Length[t] = LengthOf(Length, t)
<1> DEFINE Upto(g, n) == \A t \in JsonTo[n] : g[t] = LengthOf(g, t)
           T == {n \in Nat : n \in 0..Nesting => \E g : Upto(g, n)}
<1>1. ASSUME NEW n \in 0..Nesting, NEW g, \A t \in JsonTo[n] : \A c \in Within(t) : g[c] = LengthOf(g, c)
      PROVE  Upto([t \in Json |-> LengthOf(g, t)], n)
  <2> DEFINE h == [t \in Json |-> LengthOf(g, t)]
  <2> SUFFICES ASSUME NEW t \in JsonTo[n] PROVE h[t] = LengthOf(h, t)
    OBVIOUS
  <2>1. t \in Json /\ Within(t) \subseteq Json
    BY WithinIs, AllJson
  <2>2. \A c \in Within(t) : h[c] = g[c]
    BY <1>1, <2>1
  <2>3. LengthOf(h, t) = LengthOf(g, t)
    <3> HIDE DEF h
    <3> QED
      BY <2>1, <2>2, LengthOfInside
  <2> QED
    BY <2>1, <2>3
<1>2. 0 \in T
  <2>1. 0 \in 0..Nesting /\ \A t \in JsonTo[0] : Within(t) = {}
    BY WithinIs
  <2>2. \E g : Upto(g, 0)
    <3> HIDE DEF Upto
    <3> QED
      BY <1>1, <2>1
  <2> QED
    BY <2>2
<1>3. ASSUME NEW n \in T PROVE n + 1 \in T
  <2> SUFFICES ASSUME n + 1 \in 0..Nesting PROVE \E g : Upto(g, n + 1)
    OBVIOUS
  <2>1. n \in Nat /\ n \in 0..Nesting /\ (n + 1) - 1 = n /\ n + 1 # 0
    OBVIOUS
  <2>2. PICK g : Upto(g, n)
    BY <2>1
  <2>3. \A t \in JsonTo[n + 1] : Within(t) \subseteq JsonTo[n]
    BY <2>1, WithinIs
  <2>4. \A t \in JsonTo[n + 1] : \A c \in Within(t) : g[c] = LengthOf(g, c)
    BY <2>2, <2>3
  <2> HIDE DEF Upto
  <2> QED
    BY <1>1, <2>4
<1>4. PICK g : Upto(g, Nesting)
  <2>1. T \in SUBSET Nat
    OBVIOUS
  <2>2. Nesting \in T
    <3> HIDE DEF T
    <3> QED
      BY <1>2, <1>3, <2>1, AllNat
  <2> QED
    BY <2>2
<1> DEFINE h == [t \in Json |-> g[t]]
<1>5. h = [t \in Json |-> LengthOf(h, t)]
  <2>1. \A t \in Json : Within(t) \subseteq Json
    BY WithinIs, AllJson DEF Json
  <2>2. \A t \in Json : \A c \in Within(t) : h[c] = g[c]
    BY <2>1
  <2>3. \A t \in Json : LengthOf(h, t) = LengthOf(g, t)
    <3> HIDE DEF h
    <3> QED
      BY <2>2, LengthOfInside
  <2>4. \A t \in Json : h[t] = LengthOf(h, t)
    BY <1>4, <2>3 DEF Json
  <2>5. h = [t \in Json |-> h[t]]
    OBVIOUS
  <2> HIDE DEF h
  <2> QED
    BY <2>4, <2>5
<1> DEFINE H == CHOOSE f : f = [t \in Json |-> LengthOf(f, t)]
<1>6. H = [t \in Json |-> LengthOf(H, t)]
  <2> HIDE DEF h
  <2> QED
    BY <1>5, Zenon
<1>7. Length = H
  BY Zenon DEF Length, LengthOf
<1> HIDE DEF H
<1> QED
  BY <1>6, <1>7

\* Every value has a length.
LEMMA LengthIs ==
  ASSUME Nesting \in Nat, Marker \in Nat
  PROVE  \A t \in Json : Length[t] \in Nat
<1> DEFINE T == {t \in Json : Length[t] \in Nat}
<1>1. ASSUME NEW n \in 0..Nesting, NEW t \in JsonTo[n], Within(t) \subseteq T PROVE t \in T
  <2> DEFINE note == IF t.left = <<>> THEN 0 ELSE Marker + Len(t.left)
             lengths == IF t.kind = "object" THEN [i \in DOMAIN t.items |-> 1 + Length[t.items[i].value]]
                        ELSE [i \in DOMAIN t.items |-> Length[t.items[i]]]
  <2>0. t \in Json /\ TreeOf(t, n)
    BY AllJson, TreeIs
  <2>1. Length[t] = LengthOf(Length, t)
    BY <2>0, LengthsAre
  <2>2. CASE ~Container(t)
    <3>1. Length[t] = t.size
      BY <2>1, <2>2 DEF LengthOf, Container
    <3> QED
      BY <2>0, <2>2, <3>1 DEF TreeOf
  <2>3. CASE Container(t)
    <3>1. Len(t.items) \in Nat /\ DOMAIN t.items = 1..Len(t.items)
      BY <2>3, ItemsAre
    <3>2. note \in Nat
      <4>1. t.left \in Seq(JsonKeys) \/ t.left \in Seq(JsonTo[n - 1])
        BY <2>0, <2>3 DEF TreeOf, Container
      <4>2. Len(t.left) \in Nat
        BY <4>1
      <4> QED
        BY <4>2
    <3>3. \A i \in 1..Len(t.items) : lengths[i] \in Nat
      <4> SUFFICES ASSUME NEW i \in 1..Len(t.items) PROVE lengths[i] \in Nat
        OBVIOUS
      <4>1. CASE t.kind = "object"
        <5>1. t.items[i].value \in T
          BY <1>1, <2>3, <3>1, <4>1, ItemsAre
        <5> QED
          BY <3>1, <4>1, <5>1
      <4>2. CASE t.kind # "object"
        <5>1. t.items[i] \in T
          BY <1>1, <2>3, <3>1, <4>2, ItemsAre DEF Container
        <5> QED
          BY <3>1, <4>2, <5>1
      <4> QED
        BY <4>1, <4>2
    <3>4. lengths \in [1..Len(t.items) -> Nat]
      BY <3>1, <3>3
    <3>5. Len(lengths) = Len(t.items)
      <4> HIDE DEF lengths
      <4> QED
        BY <3>1, <3>4, IsSeq
    <3>6. Length[t] = 1 + note + SumOf(lengths)
      BY <2>1, <2>3 DEF LengthOf, Container
    <3> HIDE DEF lengths, note
    <3>7. SumOf(lengths) \in Nat
      BY <3>1, <3>3, <3>5, SumIs
    <3> QED
      BY <2>0, <3>2, <3>6, <3>7
  <2> QED
    BY <2>2, <2>3
<1>2. Json \subseteq T
  <2> HIDE DEF T
  <2> QED
    BY <1>1, TreeInduction
<1> QED
  BY <1>2
-----------------------------------------------------------------------------
(* Beginnings. *)

\* The first of a container's items, with the others noted.
LEMMA FirstOfIs ==
  ASSUME Nesting \in Nat, NEW n \in 0..Nesting, NEW t \in JsonTo[n], Container(t), NEW k \in 0..Len(t.items)
  PROVE  /\ FirstOf(t, k) \in JsonTo[n] /\ FirstOf(t, k).kind = t.kind
         /\ Len(FirstOf(t, k).items) = k /\ DOMAIN FirstOf(t, k).items = 1..k
         /\ \A i \in 1..k : FirstOf(t, k).items[i] = t.items[i]
         /\ k = Len(t.items) /\ t.left = <<>> => FirstOf(t, k) = t
<1> DEFINE L     == Len(t.items)
           rest  == SubSeq(t.items, k + 1, L)
           begin == SubSeq(t.items, 1, k)
           left  == IF t.kind = "array" THEN rest ELSE [i \in DOMAIN rest |-> rest[i].key]
           c     == FirstOf(t, k)
<1>1. L \in Nat /\ DOMAIN t.items = 1..L /\ k \in Nat /\ k <= L
  BY ItemsAre
<1>2. t = [kind |-> t.kind, size |-> t.size, items |-> t.items, left |-> t.left]
  BY TreeIs DEF TreeOf
<1>3. c = [t EXCEPT !.items = begin, !.left = left]
  BY DEF FirstOf
<1>4. c = [kind |-> t.kind, size |-> t.size, items |-> begin, left |-> left]
  <2>1. PICK kind, size, items, l : t = [kind |-> kind, size |-> size, items |-> items, left |-> l]
    BY <1>2
  <2> HIDE DEF begin, left, c
  <2>2. [t EXCEPT !.items = begin] = [kind |-> kind, size |-> size, items |-> begin, left |-> l]
    BY <2>1
  <2>3. c = [[t EXCEPT !.items = begin] EXCEPT !.left = left]
    BY <1>3, <2>1
  <2>4. ASSUME NEW o, o = [kind |-> kind, size |-> size, items |-> begin, left |-> l]
        PROVE  [o EXCEPT !.left = left] = [kind |-> kind, size |-> size, items |-> begin, left |-> left]
    BY <2>4
  <2> QED
    BY <2>1, <2>2, <2>3, <2>4
<1>5. ASSUME NEW S, t.items \in Seq(S)
      PROVE  /\ begin \in Seq(S) /\ Len(begin) = k /\ DOMAIN begin = 1..k /\ \A i \in 1..k : begin[i] = t.items[i]
             /\ rest \in Seq(S) /\ Len(rest) = L - k /\ DOMAIN rest = 1..(L - k)
             /\ k = L => begin = t.items /\ rest = <<>>
  <2>1. begin \in Seq(S) /\ Len(begin) = k /\ DOMAIN begin = 1..k /\ \A i \in 1..k : begin[i] = t.items[i]
    BY <1>1, <1>5
  <2>2. rest \in Seq(S)
    BY <1>1, <1>5
  <2>3. Len(rest) = L - k
    BY <1>1, <1>5
  <2>4. k = L => begin = t.items /\ rest = <<>>
    <3> SUFFICES ASSUME k = L PROVE begin = t.items /\ rest = <<>>
      OBVIOUS
    <3>1. Len(begin) = Len(t.items) /\ \A i \in 1..Len(t.items) : begin[i] = t.items[i]
      BY <2>1
    <3> HIDE DEF begin, rest
    <3>2. begin = t.items
      BY <1>5, <2>1, <3>1
    <3>3. rest = <<>>
      BY <1>1, <2>2, <2>3
    <3> QED
      BY <3>2, <3>3
  <2>5. DOMAIN rest = 1..(L - k)
    <3>1. Len(rest) \in Nat /\ DOMAIN rest = 1..Len(rest)
      <4> HIDE DEF rest
      <4> QED
        BY <2>2
    <3> QED
      BY <2>3, <3>1
  <2> QED
    BY <2>1, <2>2, <2>3, <2>4, <2>5
<1>6. c.kind = t.kind /\ c.items = begin /\ c.left = left
  <2> HIDE DEF c, begin, left
  <2> QED
    BY <1>4
<1>7. CASE t.kind = "object"
  <2> DEFINE S == [key : JsonKeys, value : JsonTo[n - 1]]
  <2>1. t.items \in Seq(S)
    BY <1>7, TreeIs DEF TreeOf, Members
  <2>2. /\ begin \in Seq(S) /\ Len(begin) = k /\ DOMAIN begin = 1..k /\ \A i \in 1..k : begin[i] = t.items[i]
        /\ rest \in Seq(S) /\ Len(rest) = L - k /\ DOMAIN rest = 1..(L - k)
        /\ k = L => begin = t.items /\ rest = <<>>
    <3> HIDE DEF S, begin, rest
    <3> QED
      BY <1>5, <2>1
  <2>3. left \in Seq(JsonKeys)
    <3>1. left = [i \in DOMAIN rest |-> rest[i].key]
      BY <1>7
    <3> HIDE DEF rest
    <3>2. \A i \in 1..(L - k) : rest[i] \in S
      BY <2>2, SeqItems, Zenon
    <3>3. L - k \in Nat
      BY <1>1
    <3> HIDE DEF left
    <3>4. left \in [1..(L - k) -> JsonKeys]
      BY <2>2, <3>1, <3>2
    <3> QED
      BY <3>3, <3>4, IsSeq
  <2>4. k = L => left = <<>>
    <3> SUFFICES ASSUME k = L PROVE left = <<>>
      OBVIOUS
    <3>1. rest = <<>> /\ left = [i \in DOMAIN rest |-> rest[i].key]
      BY <1>7, <2>2
    <3> HIDE DEF rest, left
    <3> QED
      BY <3>1
  <2> HIDE DEF begin, left, rest, c
  <2>5. [t EXCEPT !.items = begin, !.left = left] \in JsonTo[n]
    BY <1>7, <2>2, <2>3, Rebuilt
  <2>6. k = L /\ t.left = <<>> => c = t
    BY <1>2, <1>4, <2>2, <2>4
  <2> QED
    BY <1>3, <1>6, <2>2, <2>5, <2>6 DEF c, L
<1>8. CASE t.kind = "array"
  <2>1. t.items \in Seq(JsonTo[n - 1])
    BY <1>8, TreeIs DEF TreeOf
  <2>2. /\ begin \in Seq(JsonTo[n - 1]) /\ Len(begin) = k /\ DOMAIN begin = 1..k
        /\ \A i \in 1..k : begin[i] = t.items[i]
        /\ rest \in Seq(JsonTo[n - 1]) /\ Len(rest) = L - k /\ DOMAIN rest = 1..(L - k)
        /\ k = L => begin = t.items /\ rest = <<>>
    <3> HIDE DEF begin, rest
    <3> QED
      BY <1>5, <2>1
  <2>3. left = rest
    BY <1>8
  <2> HIDE DEF begin, left, rest, c
  <2>5. [t EXCEPT !.items = begin, !.left = left] \in JsonTo[n]
    BY <1>8, <2>2, <2>3, Rebuilt
  <2>6. k = L /\ t.left = <<>> => c = t
    BY <1>2, <1>4, <2>2, <2>3
  <2> QED
    BY <1>3, <1>6, <2>2, <2>5, <2>6 DEF c, L
<1> QED
  BY <1>7, <1>8 DEF Container

\* The numbers that are tried are of items there are.
LEMMA TriedIs ==
  ASSUME NEW n \in Nat
  PROVE  Tried(n) \subseteq 1..n
<1> DEFINE Down(k)    == IF k > 20 THEN (k * 9) \div 10 ELSE k - 1
           Body(g, k) == IF k = 0 THEN {} ELSE {k} \cup g[Down(k)]
           Upto(g, m) == \A k \in 0..m : g[k] = Body(g, k)
           T == {m \in Nat : m <= n => \E g : Upto(g, m)}
<1>1. \A k \in Nat \ {0} : Down(k) \in 0..(k - 1)
  OBVIOUS
<1> HIDE DEF Down
<1>2. 0 \in T
  <2> DEFINE g == [k \in {0} |-> {}]
  <2>1. Upto(g, 0)
    OBVIOUS
  <2> QED
    BY <2>1
<1>3. ASSUME NEW m \in T PROVE m + 1 \in T
  <2>0. m \in Nat /\ m + 1 \in Nat
    OBVIOUS
  <2> SUFFICES ASSUME m + 1 <= n PROVE \E g : Upto(g, m + 1)
    BY <2>0
  <2>1. PICK g : Upto(g, m)
    <3>1. m <= n
      BY <2>0
    <3> HIDE DEF Upto
    <3> QED
      BY <3>1
  <2> DEFINE h == [k \in 0..(m + 1) |-> Body(g, k)]
  <2>2. \A k \in 0..(m + 1) : h[k] = Body(g, k)
    OBVIOUS
  <2>3. \A k \in 0..m : h[k] = g[k]
    <3>1. \A k \in 0..m : k \in 0..(m + 1)
      BY <2>0
    <3> HIDE DEF h, Body
    <3> QED
      BY <2>1, <2>2, <3>1
  <2>4. \A k \in 0..(m + 1) : k # 0 => Down(k) \in 0..m
    BY <1>1, <2>0
  <2> HIDE DEF h
  <2>5. \A k \in 0..(m + 1) : Body(h, k) = Body(g, k)
    BY <2>3, <2>4
  <2>6. Upto(h, m + 1)
    BY <2>2, <2>5
  <2> QED
    BY <2>6
<1>4. PICK g : Upto(g, n)
  <2>1. T \in SUBSET Nat
    OBVIOUS
  <2>2. n \in T
    <3> HIDE DEF T
    <3> QED
      BY <1>2, <1>3, <2>1, AllNat
  <2> HIDE DEF Upto
  <2> QED
    BY <2>2
<1> DEFINE h == [k \in 0..n |-> g[k]]
<1>5. h = [k \in 0..n |-> Body(h, k)]
  <2>1. \A k \in 0..n : h[k] = g[k]
    OBVIOUS
  <2>2. \A k \in 0..n : k # 0 => Down(k) \in 0..n
    BY <1>1
  <2>3. h = [k \in 0..n |-> h[k]]
    OBVIOUS
  <2> HIDE DEF h
  <2>4. \A k \in 0..n : h[k] = Body(h, k)
    BY <1>4, <2>1, <2>2
  <2> QED
    BY <2>3, <2>4
<1> DEFINE H == CHOOSE f : f = [k \in 0..n |-> Body(f, k)]
<1>6. H = [k \in 0..n |-> Body(H, k)]
  <2> HIDE DEF h
  <2> QED
    BY <1>5, Zenon
<1>7. Tried(n) = H[n]
  BY Zenon DEF Tried, Down
<1> HIDE DEF H
<1>8. \A k \in 0..n : H[k] = Body(H, k)
  BY <1>6
<1> DEFINE U == {m \in Nat : m <= n => \A k \in 0..m : H[k] \subseteq 1..k}
<1>9. 0 \in U
  <2>1. H[0] = {}
    <3>1. 0 \in 0..n
      OBVIOUS
    <3>2. H[0] = Body(H, 0)
      BY <1>8, <3>1
    <3> QED
      BY <3>2
  <2>2. \A k \in 0..0 : k = 0
    OBVIOUS
  <2> QED
    BY <2>1, <2>2
<1>10. ASSUME NEW m \in U PROVE m + 1 \in U
  <2>0. m \in Nat /\ m + 1 \in Nat
    OBVIOUS
  <2> SUFFICES ASSUME m + 1 <= n, NEW k \in 0..(m + 1) PROVE H[k] \subseteq 1..k
    BY <2>0
  <2>1. k \in 0..n /\ k \in Nat
    BY <2>0
  <2>2. CASE k = 0
    BY <1>8, <2>1, <2>2
  <2>3. CASE k # 0
    <3>1. Down(k) \in 0..(k - 1) /\ Down(k) \in 0..m
      BY <1>1, <2>0, <2>1, <2>3
    <3>2. H[Down(k)] \subseteq 1..Down(k)
      BY <2>0, <3>1
    <3>3. H[k] = {k} \cup H[Down(k)]
      BY <1>8, <2>1, <2>3
    <3> QED
      BY <2>1, <2>3, <3>1, <3>2, <3>3
  <2> QED
    BY <2>2, <2>3
<1>11. n \in U
  <2>1. U \in SUBSET Nat
    OBVIOUS
  <2> HIDE DEF U
  <2> QED
    BY <1>9, <1>10, <2>1, AllNat
<1> QED
  BY <1>7, <1>11

\* Numbers that are not above another have a greatest.
LEMMA GreatestOf ==
  ASSUME NEW n \in Nat, NEW T \in SUBSET (0..n), T # {}
  PROVE  \E x \in T : \A y \in T : y <= x
<1> DEFINE U == {n - x : x \in T}
<1>1. U \in SUBSET Nat /\ U # {}
  <2>1. \A x \in T : n - x \in Nat
    OBVIOUS
  <2>2. PICK x \in T : TRUE
    OBVIOUS
  <2>3. n - x \in U
    BY <2>2
  <2> QED
    BY <2>1, <2>3
<1>2. PICK u \in U : \A v \in U : u <= v
  <2> HIDE DEF U
  <2> QED
    BY <1>1, LeastOf
<1>3. PICK x \in T : u = n - x
  OBVIOUS
<1>4. \A y \in T : u <= n - y
  BY <1>2
<1>5. \A y \in T : y <= x
  BY <1>3, <1>4
<1> QED
  BY <1>5

\* What is fitted is a beginning that fits.
LEMMA FittedIs ==
  ASSUME Nesting \in Nat, NEW n \in 0..Nesting, NEW t \in JsonTo[n], Container(t), NEW wrapper, NEW budget,
         FittedTo(t, wrapper, budget) # NONE
  PROVE  \E k \in 1..Len(t.items) : /\ FittedTo(t, wrapper, budget) = FirstOf(t, k)
                                    /\ wrapper + Length[FirstOf(t, k)] <= budget
<1> DEFINE fits == {k \in Tried(Len(t.items)) : wrapper + Length[FirstOf(t, k)] <= budget}
<1>1. FittedTo(t, wrapper, budget)
        = IF fits = {} THEN NONE ELSE FirstOf(t, CHOOSE k \in fits : \A m \in fits : m <= k)
  BY DEF FittedTo
<1>2. Len(t.items) \in Nat
  BY ItemsAre
<1>3. fits \subseteq 1..Len(t.items) /\ fits # {}
  BY <1>1, <1>2, TriedIs
<1>4. \E k \in fits : \A m \in fits : m <= k
  <2> HIDE DEF fits
  <2>1. fits \in SUBSET (0..Len(t.items))
    BY <1>2, <1>3
  <2> QED
    BY <1>2, <1>3, <2>1, GreatestOf
<1> DEFINE k == CHOOSE x \in fits : \A m \in fits : m <= x
<1>5. k \in fits
  <2> HIDE DEF fits
  <2> QED
    BY <1>4
<1>6. FittedTo(t, wrapper, budget) = FirstOf(t, k)
  BY <1>1, <1>3
<1>7. wrapper + Length[FirstOf(t, k)] <= budget
  <2> HIDE DEF k
  <2> QED
    BY <1>5
<1> HIDE DEF k, fits
<1> QED
  BY <1>3, <1>5, <1>6, <1>7

\* What a cut may leave of a value.
Begins(v, w) == v = w \/ (Container(w) /\ \E k \in 1..Len(w.items) : v = FirstOf(w, k))

\* One key more: kept, cut, or omitted.
LEMMA TakeEntryIs ==
  ASSUME Nesting \in Nat, NEW n \in 0..Nesting, NEW e, e = [key |-> e.key, value |-> e.value],
         e.value \in JsonTo[n], NEW kept, NEW omitted, NEW used
  PROVE  \E u, v : /\ v \in JsonTo[n] /\ Begins(v, e.value)
                   /\ TakeEntry([kept |-> kept, omitted |-> omitted, used |-> used], e)
                        \in {[kept |-> Append(kept, [key |-> e.key, value |-> v]), omitted |-> omitted, used |-> u],
                             [kept |-> kept, omitted |-> Append(omitted, e.key), used |-> u]}
<1> DEFINE so     == [kept |-> kept, omitted |-> omitted, used |-> used]
           budget == Limit - so.used - Marker
           fitted == IF budget > 0 /\ Container(e.value) THEN FittedTo(e.value, 2, budget) ELSE NONE
           next   == TakeEntry(so, e)
<1>1. next = IF 2 + Length[e.value] <= budget
             THEN [so EXCEPT !.kept = Append(@, e), !.used = @ + 3 + Length[e.value]]
             ELSE IF fitted # NONE
             THEN [so EXCEPT !.kept = Append(@, Entry(e.key, fitted)),
                             !.used = budget - (2 + Length[fitted])]
             ELSE [so EXCEPT !.omitted = Append(@, e.key)]
  BY DEF TakeEntry
<1>3. so.kept = kept /\ so.omitted = omitted
  OBVIOUS
<1>2. ASSUME NEW k, NEW u
      PROVE  [so EXCEPT !.kept = k, !.used = u] = [kept |-> k, omitted |-> omitted, used |-> u]
  <2>1. so = [kept |-> kept, omitted |-> omitted, used |-> used]
    OBVIOUS
  <2> HIDE DEF so
  <2>2. [so EXCEPT !.kept = k] = [kept |-> k, omitted |-> omitted, used |-> used]
    BY <2>1
  <2>3. [so EXCEPT !.kept = k, !.used = u] = [[so EXCEPT !.kept = k] EXCEPT !.used = u]
    BY <2>1
  <2>4. ASSUME NEW o, o = [kept |-> k, omitted |-> omitted, used |-> used]
        PROVE  [o EXCEPT !.used = u] = [kept |-> k, omitted |-> omitted, used |-> u]
    BY <2>4
  <2> QED
    BY <2>2, <2>3, <2>4
<1>4. [so EXCEPT !.omitted = Append(@, e.key)] = [kept |-> kept, omitted |-> Append(omitted, e.key), used |-> used]
  <2>1. so = [kept |-> kept, omitted |-> omitted, used |-> used]
    OBVIOUS
  <2>2. ASSUME NEW o, o = so, NEW x
        PROVE  [o EXCEPT !.omitted = x] = [kept |-> kept, omitted |-> x, used |-> used]
    BY <2>1, <2>2
  <2>3. [so EXCEPT !.omitted = Append(@, e.key)] = [so EXCEPT !.omitted = Append(so.omitted, e.key)]
    OBVIOUS
  <2> HIDE DEF so
  <2> QED
    BY <1>3, <2>2, <2>3
<1>5. CASE 2 + Length[e.value] <= budget
  <2>1. next = [so EXCEPT !.kept = Append(so.kept, e), !.used = so.used + 3 + Length[e.value]]
    BY <1>1, <1>5
  <2>2. next = [kept |-> Append(kept, e), omitted |-> omitted, used |-> so.used + 3 + Length[e.value]]
    BY <2>1
  <2>3. Begins(e.value, e.value)
    BY DEF Begins
  <2> DEFINE u == so.used + 3 + Length[e.value]
  <2>4. next = [kept |-> Append(kept, [key |-> e.key, value |-> e.value]), omitted |-> omitted, used |-> u]
    BY <2>2
  <2> HIDE DEF next, so, u
  <2> QED
    BY <2>3, <2>4 DEF next, so
<1>6. CASE ~(2 + Length[e.value] <= budget) /\ fitted # NONE
  <2>0. fitted = FittedTo(e.value, 2, budget) /\ Container(e.value) /\ FittedTo(e.value, 2, budget) # NONE
    BY <1>6
  <2>1. PICK k \in 1..Len(e.value.items) : FittedTo(e.value, 2, budget) = FirstOf(e.value, k)
    <3> HIDE DEF budget, fitted
    <3> QED
      BY <2>0, FittedIs
  <2>2. Begins(fitted, e.value) /\ fitted \in JsonTo[n]
    <3>1. Len(e.value.items) \in Nat
      BY <2>0, ItemsAre
    <3>2. k \in 0..Len(e.value.items)
      BY <3>1
    <3>3. FirstOf(e.value, k) \in JsonTo[n]
      BY <2>0, <3>2, FirstOfIs
    <3> HIDE DEF fitted, budget
    <3> QED
      BY <2>0, <2>1, <3>3 DEF Begins
  <2> DEFINE u == budget - (2 + Length[fitted])
  <2>3. next = [so EXCEPT !.kept = Append(so.kept, Entry(e.key, fitted)), !.used = u]
    BY <1>1, <1>6
  <2>4. next = [kept |-> Append(kept, [key |-> e.key, value |-> fitted]), omitted |-> omitted, used |-> u]
    <3>1. Entry(e.key, fitted) = [key |-> e.key, value |-> fitted]
      BY DEF Entry
    <3> HIDE DEF next, fitted, u
    <3> QED
      BY <2>3, <3>1
  <2> HIDE DEF next, so, u, fitted
  <2> QED
    BY <2>2, <2>4 DEF next, so
<1>7. CASE ~(2 + Length[e.value] <= budget) /\ fitted = NONE
  <2>1. next = [kept |-> kept, omitted |-> Append(omitted, e.key), used |-> used]
    BY <1>1, <1>4, <1>7
  <2>2. Begins(e.value, e.value)
    BY DEF Begins
  <2> HIDE DEF next, so
  <2> QED
    BY <2>1, <2>2 DEF next, so
<1> QED
  BY <1>5, <1>6, <1>7

\* The keys are taken one by one.
LEMMA TakeSteps ==
  ASSUME NEW items, Len(items) \in Nat
  PROVE  \E f : /\ f[0] = [kept |-> <<>>, omitted |-> <<>>, used |-> 0]
                /\ \A n \in 1..Len(items) : f[n] = TakeEntry(f[n - 1], items[n])
                /\ TakeEntries(items) = f[Len(items)]
<1> DEFINE N            == Len(items)
           Row(prev, n) == TakeEntry(prev, items[n])
           Body(g, n)   == IF n = 0 THEN [kept |-> <<>>, omitted |-> <<>>, used |-> 0] ELSE Row(g[n - 1], n)
           Built(g, n)  == g = [m \in 0..n |-> Body(g, m)]
           T            == {n \in Nat : \E g : Built(g, n)}
<1>1. 0 \in T
  <2> DEFINE g == [m \in 0..0 |-> Body(<<>>, m)]
  <2>1. Built(g, 0)
    <3>1. \A m \in 0..0 : m = 0
      OBVIOUS
    <3> HIDE DEF Row
    <3>2. \A m \in 0..0 : Body(g, m) = Body(<<>>, m)
      BY <3>1
    <3> HIDE DEF Body
    <3> QED
      BY <3>2
  <2> QED
    BY <2>1
<1>2. ASSUME NEW n \in T PROVE n + 1 \in T
  <2>1. PICK g : Built(g, n)
    OBVIOUS
  <2>2. n \in Nat /\ n + 1 \in Nat
    OBVIOUS
  <2> DEFINE h == [m \in 0..(n + 1) |-> Body(g, m)]
  <2>3. \A m \in 0..n : h[m] = g[m]
    <3> SUFFICES ASSUME NEW m \in 0..n PROVE h[m] = g[m]
      OBVIOUS
    <3>1. m \in 0..(n + 1)
      BY <2>2
    <3> HIDE DEF Body
    <3> QED
      BY <2>1, <3>1
  <2>4. \A m \in 0..(n + 1) : m # 0 => m - 1 \in 0..n
    BY <2>2
  <2>5. \A m \in 0..(n + 1) : Body(g, m) = Body(h, m)
    <3> HIDE DEF h, Row
    <3> QED
      BY <2>3, <2>4
  <2>6. Built(h, n + 1)
    <3> HIDE DEF Body
    <3> QED
      BY <2>5
  <2> QED
    BY <2>2, <2>6
<1>3. PICK f : Built(f, N)
  <2>1. T \in SUBSET Nat
    OBVIOUS
  <2>2. N \in T
    <3> HIDE DEF T
    <3> QED
      BY <1>1, <1>2, <2>1, AllNat
  <2> QED
    BY <2>2
<1> DEFINE H == CHOOSE g : g = [n \in 0..N |-> IF n = 0 THEN [kept |-> <<>>, omitted |-> <<>>, used |-> 0] ELSE Row(g[n - 1], n)]
<1>4. H = [n \in 0..N |-> IF n = 0 THEN [kept |-> <<>>, omitted |-> <<>>, used |-> 0] ELSE Row(H[n - 1], n)]
  BY <1>3, Zenon
<1>5. TakeEntries(items) = H[Len(items)]
  BY Zenon DEF TakeEntries
<1> HIDE DEF H, Row
<1>6. \A n \in 0..N : H[n] = IF n = 0 THEN [kept |-> <<>>, omitted |-> <<>>, used |-> 0] ELSE Row(H[n - 1], n)
  BY <1>4
<1>7. 0 \in 0..N /\ \A n \in 1..N : n \in 0..N /\ n # 0
  OBVIOUS
<1>8. H[0] = [kept |-> <<>>, omitted |-> <<>>, used |-> 0] /\ \A n \in 1..N : H[n] = Row(H[n - 1], n)
  BY <1>6, <1>7, Zenon
<1> QED
  BY <1>5, <1>8 DEF Row

\* Each key of the first k is kept or omitted, and what is kept is of one of them.
Taken(so, items, k, n) ==
  /\ so.kept \in Seq([key : JsonKeys, value : JsonTo[n]]) /\ so.omitted \in Seq(JsonKeys)
  /\ \A i \in 1..k : (\E j \in DOMAIN so.kept : so.kept[j].key = items[i].key)
                     \/ (\E j \in DOMAIN so.omitted : so.omitted[j] = items[i].key)
  /\ \A j \in DOMAIN so.kept : \E i \in 1..k :
       so.kept[j].key = items[i].key /\ Begins(so.kept[j].value, items[i].value)

\* So it is when all are taken.
LEMMA TakenIs ==
  ASSUME Nesting \in Nat, NEW n \in 0..Nesting, NEW items \in Seq([key : JsonKeys, value : JsonTo[n]])
  PROVE  Taken(TakeEntries(items), items, Len(items), n)
<1> DEFINE S == [key : JsonKeys, value : JsonTo[n]]
<1>0. Len(items) \in Nat /\ DOMAIN items = 1..Len(items) /\ \A i \in DOMAIN items : items[i] \in S
  BY SeqItems, Zenon
<1>1. PICK f : /\ f[0] = [kept |-> <<>>, omitted |-> <<>>, used |-> 0]
               /\ \A k \in 1..Len(items) : f[k] = TakeEntry(f[k - 1], items[k])
               /\ TakeEntries(items) = f[Len(items)]
  BY <1>0, TakeSteps
<1> DEFINE Record(so) == \E kept, omitted, used : so = [kept |-> kept, omitted |-> omitted, used |-> used]
           T == {k \in Nat : k <= Len(items) => Record(f[k]) /\ Taken(f[k], items, k, n)}
<1>2. 0 \in T
  <2>0. f[0] = [kept |-> <<>>, omitted |-> <<>>, used |-> 0]
    BY <1>1
  <2>1. f[0].kept = <<>> /\ f[0].omitted = <<>>
    BY <2>0
  <2>4. Record(f[0])
    BY <2>0
  <2>2. <<>> \in Seq(S) /\ <<>> \in Seq(JsonKeys) /\ DOMAIN <<>> = {} /\ 1..0 = {}
    OBVIOUS
  <2>3. Taken(f[0], items, 0, n)
    BY <2>1, <2>2 DEF Taken
  <2> HIDE DEF Record
  <2> QED
    BY <2>3, <2>4
<1>3. ASSUME NEW k \in T PROVE k + 1 \in T
  <2>0. k \in Nat /\ k + 1 \in Nat /\ (k + 1) - 1 = k
    OBVIOUS
  <2> SUFFICES ASSUME k + 1 <= Len(items) PROVE Record(f[k + 1]) /\ Taken(f[k + 1], items, k + 1, n)
    <3> HIDE DEF Record
    <3> QED
      BY <2>0
  <2>1. k + 1 \in 1..Len(items) /\ k <= Len(items)
    BY <1>0, <2>0
  <2>2. Record(f[k]) /\ Taken(f[k], items, k, n)
    <3> HIDE DEF Record
    <3> QED
      BY <2>1
  <2>3. PICK kept, omitted, used : f[k] = [kept |-> kept, omitted |-> omitted, used |-> used]
    BY <2>2
  <2> DEFINE e == items[k + 1]
  <2>4. e \in S /\ f[k + 1] = TakeEntry(f[k], e)
    BY <1>0, <1>1, <2>0, <2>1
  <2>5. e = [key |-> e.key, value |-> e.value] /\ e.key \in JsonKeys /\ e.value \in JsonTo[n]
    <3> HIDE DEF e
    <3> QED
      BY <2>4
  <2> HIDE DEF e, T, Record
  <2>6. PICK u, v : /\ v \in JsonTo[n] /\ Begins(v, e.value)
                    /\ TakeEntry([kept |-> kept, omitted |-> omitted, used |-> used], e)
                         \in {[kept |-> Append(kept, [key |-> e.key, value |-> v]), omitted |-> omitted, used |-> u],
                              [kept |-> kept, omitted |-> Append(omitted, e.key), used |-> u]}
    BY <2>5, TakeEntryIs
  <2>7. /\ kept \in Seq(S) /\ omitted \in Seq(JsonKeys)
        /\ \A i \in 1..k : (\E j \in DOMAIN kept : kept[j].key = items[i].key)
                           \/ (\E j \in DOMAIN omitted : omitted[j] = items[i].key)
        /\ \A j \in DOMAIN kept : \E i \in 1..k :
             kept[j].key = items[i].key /\ Begins(kept[j].value, items[i].value)
    <3>1. f[k].kept = kept /\ f[k].omitted = omitted
      BY <2>3
    <3> QED
      BY <2>2, <3>1 DEF Taken
  <2>8. \A i \in 1..(k + 1) : i = k + 1 \/ i \in 1..k
    BY <2>0
  <2>9. k + 1 \in 1..(k + 1) /\ 1..k \subseteq 1..(k + 1) /\ e = items[k + 1]
    BY <2>0 DEF e
  <2>10. CASE f[k + 1] = [kept |-> Append(kept, [key |-> e.key, value |-> v]), omitted |-> omitted, used |-> u]
    <3> DEFINE x == [key |-> e.key, value |-> v]
               more == Append(kept, x)
    <3>1. x \in S /\ x.key = e.key /\ x.value = v
      BY <2>5, <2>6
    <3> HIDE DEF x, S
    <3>2. /\ more \in Seq(S) /\ Len(more) = Len(kept) + 1
          /\ \A i \in 1..(Len(kept) + 1) : more[i] = IF i <= Len(kept) THEN kept[i] ELSE x
      BY <2>7, <3>1, AppendIs
    <3>3. Len(kept) \in Nat /\ DOMAIN kept = 1..Len(kept) /\ DOMAIN more = 1..(Len(kept) + 1)
      <4>1. Len(kept) \in Nat /\ DOMAIN kept = 1..Len(kept)
        BY <2>7
      <4> HIDE DEF more
      <4>2. DOMAIN more = 1..Len(more)
        BY <3>2
      <4> QED
        BY <3>2, <4>1, <4>2
    <3> HIDE DEF more
    <3>4. \A j \in DOMAIN kept : j \in DOMAIN more /\ more[j] = kept[j]
      BY <3>2, <3>3
    <3>5. Len(kept) + 1 \in DOMAIN more /\ more[Len(kept) + 1] = x
      BY <3>2, <3>3
    <3>6. \A j \in DOMAIN more : j = Len(kept) + 1 \/ j \in DOMAIN kept
      BY <3>3
    <3>7. \A i \in 1..(k + 1) : (\E j \in DOMAIN more : more[j].key = items[i].key)
                                \/ (\E j \in DOMAIN omitted : omitted[j] = items[i].key)
      <4> SUFFICES ASSUME NEW i \in 1..(k + 1)
                   PROVE  (\E j \in DOMAIN more : more[j].key = items[i].key)
                          \/ (\E j \in DOMAIN omitted : omitted[j] = items[i].key)
        OBVIOUS
      <4>1. CASE i = k + 1
        BY <2>9, <3>1, <3>5, <4>1
      <4>2. CASE i \in 1..k
        BY <2>7, <3>4, <4>2
      <4> QED
        BY <2>8, <4>1, <4>2
    <3>8. \A j \in DOMAIN more : \E i \in 1..(k + 1) :
            more[j].key = items[i].key /\ Begins(more[j].value, items[i].value)
      <4> SUFFICES ASSUME NEW j \in DOMAIN more
                   PROVE  \E i \in 1..(k + 1) : more[j].key = items[i].key /\ Begins(more[j].value, items[i].value)
        OBVIOUS
      <4>1. CASE j = Len(kept) + 1
        BY <2>6, <2>9, <3>1, <3>5, <4>1
      <4>2. CASE j \in DOMAIN kept
        BY <2>7, <2>9, <3>4, <4>2
      <4> QED
        BY <3>6, <4>1, <4>2
    <3>9. f[k + 1].kept = more /\ f[k + 1].omitted = omitted
      BY <2>10 DEF more, x
    <3>10. Taken(f[k + 1], items, k + 1, n)
      BY <2>7, <3>2, <3>7, <3>8, <3>9 DEF Taken, S
    <3> QED
      BY <2>10, <3>10 DEF Record
  <2>11. CASE f[k + 1] = [kept |-> kept, omitted |-> Append(omitted, e.key), used |-> u]
    <3> DEFINE more == Append(omitted, e.key)
    <3>2. /\ more \in Seq(JsonKeys) /\ Len(more) = Len(omitted) + 1
          /\ \A i \in 1..(Len(omitted) + 1) : more[i] = IF i <= Len(omitted) THEN omitted[i] ELSE e.key
      BY <2>5, <2>7, AppendIs
    <3>3. Len(omitted) \in Nat /\ DOMAIN omitted = 1..Len(omitted) /\ DOMAIN more = 1..(Len(omitted) + 1)
      <4>1. Len(omitted) \in Nat /\ DOMAIN omitted = 1..Len(omitted)
        BY <2>7
      <4> HIDE DEF more
      <4>2. DOMAIN more = 1..Len(more)
        BY <3>2
      <4> QED
        BY <3>2, <4>1, <4>2
    <3> HIDE DEF more
    <3>4. \A j \in DOMAIN omitted : j \in DOMAIN more /\ more[j] = omitted[j]
      BY <3>2, <3>3
    <3>5. Len(omitted) + 1 \in DOMAIN more /\ more[Len(omitted) + 1] = e.key
      BY <3>2, <3>3
    <3>7. \A i \in 1..(k + 1) : (\E j \in DOMAIN kept : kept[j].key = items[i].key)
                                \/ (\E j \in DOMAIN more : more[j] = items[i].key)
      <4> SUFFICES ASSUME NEW i \in 1..(k + 1)
                   PROVE  (\E j \in DOMAIN kept : kept[j].key = items[i].key)
                          \/ (\E j \in DOMAIN more : more[j] = items[i].key)
        OBVIOUS
      <4>1. CASE i = k + 1
        BY <2>9, <3>5, <4>1
      <4>2. CASE i \in 1..k
        BY <2>7, <3>4, <4>2
      <4> QED
        BY <2>8, <4>1, <4>2
    <3>8. \A j \in DOMAIN kept : \E i \in 1..(k + 1) :
            kept[j].key = items[i].key /\ Begins(kept[j].value, items[i].value)
      BY <2>7, <2>9
    <3>9. f[k + 1].kept = kept /\ f[k + 1].omitted = more
      BY <2>11 DEF more
    <3>10. Taken(f[k + 1], items, k + 1, n)
      BY <2>7, <3>2, <3>7, <3>8, <3>9 DEF Taken
    <3> QED
      BY <2>11, <3>10 DEF Record
  <2> QED
    BY <2>3, <2>4, <2>6, <2>10, <2>11
<1>4. Taken(f[Len(items)], items, Len(items), n)
  <2>1. T \in SUBSET Nat
    OBVIOUS
  <2>2. Len(items) \in T
    <3> HIDE DEF T
    <3> QED
      BY <1>0, <1>2, <1>3, <2>1, AllNat
  <2> HIDE DEF Record
  <2> QED
    BY <1>0, <2>2
<1> QED
  BY <1>1, <1>4

-----------------------------------------------------------------------------
(* Answers. *)

\* What is assumed of the depth.
LEMMA NestingIs == Nesting \in Nat \ {0} /\ Nesting \in 0..Nesting /\ JsonTo[Nesting] = Json
  BY ProcessAssumption DEF Json

\* What is left of an answer in JSON before it is redacted.
KeptOfAnswer(a, fields) ==
  IF fields # {} /\ a.status \in 200..399 THEN Project(a.json, fields) ELSE a.json

\* Shaping changes the JSON of an answer only.
LEMMA ShapedIs ==
  ASSUME NEW a \in Answers, NEW fields, NEW secrets
  PROVE  LET sh == Shaped(a, fields, secrets) IN
         /\ sh.status = a.status /\ sh.media = a.media /\ sh.blank = a.blank /\ sh.xml = a.xml
         /\ a.json = NONE => sh = a
         /\ a.json # NONE => /\ sh.json = Redact(KeptOfAnswer(a, fields), secrets) /\ sh.json \in Json /\ sh.json # NONE
                             /\ a.json \in ReadTo[Nesting] /\ a.json \in Json
                             /\ KeptOfAnswer(a, fields) \in Json /\ sh.json.left = <<>>
         /\ [sh EXCEPT !.json = a.xml].json = a.xml
         /\ [sh EXCEPT !.json = a.xml].status = a.status
         /\ [sh EXCEPT !.json = a.xml].media = a.media
         /\ [sh EXCEPT !.json = a.xml].blank = a.blank
<1> DEFINE sh == Shaped(a, fields, secrets)
<1>1. a \in [status : Nat, media : STRING, blank : BOOLEAN,
             json : {NONE} \cup ReadTo[Nesting], xml : {NONE} \cup ReadTo[Nesting]]
  BY AnswersAssumption
<1>2. a = [status |-> a.status, media |-> a.media, blank |-> a.blank, json |-> a.json, xml |-> a.xml]
  BY <1>1
<1>3. ASSUME NEW j
      PROVE  [a EXCEPT !.json = j] = [status |-> a.status, media |-> a.media, blank |-> a.blank,
                                      json |-> j, xml |-> a.xml]
  BY <1>2
<1>4. ASSUME a.json # NONE
      PROVE  /\ sh = [a EXCEPT !.json = Redact(KeptOfAnswer(a, fields), secrets)]
             /\ Redact(KeptOfAnswer(a, fields), secrets) \in Json
             /\ KeptOfAnswer(a, fields) \in Json /\ a.json \in ReadTo[Nesting] /\ a.json \in Json
             /\ Redact(KeptOfAnswer(a, fields), secrets).left = <<>>
  <2>1. a.json \in ReadTo[Nesting]
    BY <1>1, <1>4
  <2>2. a.json \in Json /\ a.json.left = <<>>
    BY <2>1, NestingIs, ReadIs
  <2>3. Project(a.json, fields) \in Json
    BY <2>2, NestingIs, ProjectStays
  <2>4. Project(a.json, fields).left = <<>>
    <3>1. CASE Container(a.json)
      <4>1. PICK from : KeepsThose(Project(a.json, fields), a.json, fields, from)
        BY <2>2, <3>1, NestingIs, ProjectAt
      <4> QED
        BY <2>2, <4>1 DEF KeepsThose
    <3>2. CASE ~Container(a.json)
      BY <2>2, <3>2, NestingIs, ProjectScalar
    <3> QED
      BY <3>1, <3>2
  <2>5. KeptOfAnswer(a, fields) \in Json /\ KeptOfAnswer(a, fields).left = <<>>
    BY <2>2, <2>3, <2>4 DEF KeptOfAnswer
  <2>6. Redact(KeptOfAnswer(a, fields), secrets) \in Json
    BY <2>5, NestingIs, RedactStays
  <2>7. Redact(KeptOfAnswer(a, fields), secrets).left = KeptOfAnswer(a, fields).left
    BY <2>5, NestingIs, RedactAt
  <2>8. sh = [a EXCEPT !.json = Redact(KeptOfAnswer(a, fields), secrets)]
    BY <1>4 DEF Shaped, KeptOfAnswer
  <2> QED
    BY <2>1, <2>2, <2>5, <2>6, <2>7, <2>8
<1>5. a.json = NONE => sh = a
  BY DEF Shaped
<1>6. \E j : sh = [status |-> a.status, media |-> a.media, blank |-> a.blank, json |-> j, xml |-> a.xml]
  BY <1>2, <1>3, <1>4, <1>5
<1>7. PICK j : sh = [status |-> a.status, media |-> a.media, blank |-> a.blank, json |-> j, xml |-> a.xml]
  BY <1>6
<1>8. NONE \notin Json
  BY AnswersAssumption
<1> HIDE DEF sh
<1>9. a.json # NONE => sh.json = Redact(KeptOfAnswer(a, fields), secrets)
  BY <1>3, <1>4
<1>10. [sh EXCEPT !.json = a.xml] = [status |-> a.status, media |-> a.media, blank |-> a.blank,
                                     json |-> a.xml, xml |-> a.xml]
  BY <1>7
<1>11. sh.status = a.status /\ sh.media = a.media /\ sh.blank = a.blank /\ sh.xml = a.xml
  BY <1>7
<1> DEFINE x == [sh EXCEPT !.json = a.xml]
<1>12. x.json = a.xml /\ x.status = a.status /\ x.media = a.media /\ x.blank = a.blank
  <2> HIDE DEF x
  <2> QED
    BY <1>10 DEF x
<1> QED
  BY <1>4, <1>5, <1>8, <1>9, <1>11, <1>12 DEF sh

\* What is converted of it.
LEMMA ConvertedIs ==
  ASSUME NEW a \in Answers, NEW fields, NEW secrets, NEW format
  PROVE  LET sh   == Shaped(a, fields, secrets)
             body == Converted(sh, format)
         IN /\ a.json # NONE => body = sh
            /\ a.json = NONE => body.json \in {NONE, a.xml}
            /\ body.json # NONE => body.json.left = <<>>
<1> DEFINE sh == Shaped(a, fields, secrets)
           body == Converted(sh, format)
<1>1. a.json # NONE => sh.json # NONE /\ sh.json.left = <<>>
  BY ShapedIs
<1>2. a.json = NONE => sh.json = NONE
  BY ShapedIs
<1>3. body = sh \/ body = [sh EXCEPT !.json = a.xml]
  BY ShapedIs DEF Converted
<1>4. [sh EXCEPT !.json = a.xml].json = a.xml
  BY ShapedIs
<1>5. sh.json # NONE => body = sh
  BY DEF Converted
<1>6. a.xml # NONE => a.xml.left = <<>>
  <2>1. a.xml \in {NONE} \cup ReadTo[Nesting]
    BY AnswersAssumption
  <2> QED
    BY <2>1, NestingIs, ReadIs
<1> HIDE DEF sh, body
<1> QED
  BY <1>1, <1>2, <1>3, <1>4, <1>5, <1>6 DEF sh, body

\* What a payload is: an error, a success that cannot be shown, a broken promise, or a success.
PayloadIs(p, promised, a, sh, body) ==
  \/ p = ErrorPayload(sh) /\ (a.status = 0 \/ a.status >= 400)
  \/ /\ a.status # 0 /\ a.status < 400
     /\ \/ p = Payload("empty", FALSE, NONE, NONE) /\ a.json = NONE
        \/ p = Payload("binary", FALSE, NONE, NONE)
        \/ p = Payload("page", FALSE, Excerpted(sh), NONE)
        \/ p = Payload("not JSON", TRUE, NONE, NONE) /\ promised /\ body.json = NONE /\ a.status # 204
        \/ /\ p = Payload("success", FALSE, Text(body), IF promised THEN body.json ELSE NONE)
           /\ promised => body.json # NONE

\* What is shown of a shaped answer is one of those (_payload_for).
LEMMA PayloadsAre ==
  ASSUME NEW promised \in BOOLEAN, NEW a \in Answers, NEW fields, NEW secrets, NEW format
  PROVE  PayloadIs(PayloadFor(promised, Shaped(a, fields, secrets), format), promised, a,
                   Shaped(a, fields, secrets), Converted(Shaped(a, fields, secrets), format))
<1> DEFINE sh   == Shaped(a, fields, secrets)
           body == Converted(sh, format)
           p    == PayloadFor(promised, sh, format)
<1>1. sh.status = a.status /\ sh.media = a.media /\ sh.blank = a.blank
  BY ShapedIs
<1>2. a.status \in Nat /\ (a.status = 204 \/ a.blank => a.json = NONE)
  BY AnswersAssumption
<1>3. a.status # 0 /\ ~(a.status >= 400) => a.status < 400
  BY <1>2
<1> HIDE DEF sh
<1>4. CASE a.status = 0 \/ a.status >= 400
  <2>1. p = ErrorPayload(sh)
    BY <1>1, <1>4 DEF PayloadFor
  <2> QED
    BY <1>4, <2>1 DEF PayloadIs, sh
<1>5. CASE ~(a.status = 0 \/ a.status >= 400)
  <2>1. sh.status # 0 /\ ~(sh.status >= 400) /\ a.status # 0 /\ a.status < 400
    BY <1>1, <1>3, <1>5
  <2>2. CASE sh.status = 204 \/ (sh.blank /\ sh.media \notin {"text", "html"})
    <3>1. p = Payload("empty", FALSE, NONE, NONE)
      BY <2>1, <2>2, Zenon DEF PayloadFor
    <3>2. a.json = NONE
      BY <1>1, <1>2, <2>2
    <3> QED
      BY <2>1, <3>1, <3>2, Zenon DEF PayloadIs, sh
  <2>3. CASE ~(sh.status = 204 \/ (sh.blank /\ sh.media \notin {"text", "html"}))
    <3>1. p = IF sh.media = "binary" THEN Payload("binary", FALSE, NONE, NONE)
              ELSE IF sh.media = "html"   THEN Payload("page", FALSE, Excerpted(sh), NONE)
              ELSE IF promised /\ body.json = NONE THEN Payload("not JSON", TRUE, NONE, NONE)
              ELSE Payload("success", FALSE, Text(body), IF promised THEN body.json ELSE NONE)
      BY <2>1, <2>3, Zenon DEF PayloadFor
    <3>2. a.status # 204
      BY <1>1, <2>3
    <3>3. CASE sh.media \in {"binary", "html"}
      BY <2>1, <3>1, <3>3, Zenon DEF PayloadIs, sh
    <3>4. CASE sh.media \notin {"binary", "html"}
      BY <2>1, <3>1, <3>2, <3>4, Zenon DEF PayloadIs, sh
    <3> QED
      BY <3>3, <3>4
  <2> QED
    BY <2>2, <2>3
<1> QED
  BY <1>4, <1>5

\* An error reads as its category, which is its structured content too.
LEMMA CategoryIs ==
  ASSUME NEW status \in Nat
  PROVE  /\ Category(status) \in {"forbidden", "retryable", "invalid_request"}
         /\ Category(status) = "retryable" => status \notin (400..499) \ {429}
         /\ Tree(Category(status), 1, <<>>).kind = Category(status)
         /\ ~Container(Tree(Category(status), 1, <<>>))
         /\ Tree(Category(status), 1, <<>>) \in Json
<1>1. /\ Category(status) \in {"forbidden", "retryable", "invalid_request"}
      /\ Category(status) = "retryable" => status \notin (400..499) \ {429}
  BY DEF Category
<1>2. \A kind \in {"forbidden", "retryable", "invalid_request"} :
        /\ Tree(kind, 1, <<>>).kind = kind /\ ~Container(Tree(kind, 1, <<>>))
        /\ Tree(kind, 1, <<>>) \in Scalars(Kinds)
  BY DEF Tree, Container, Scalars, Kinds
<1>3. Scalars(Kinds) \subseteq Json
  BY NestingIs, JsonToIs, AllJson
<1> QED
  BY <1>1, <1>2, <1>3

\* The fields of an error.
LEMMA ErrorIs ==
  ASSUME NEW a
  PROVE  /\ ErrorPayload(a).isError = TRUE /\ ErrorPayload(a).reads = Category(a.status)
         /\ ErrorPayload(a).text = Text(a) /\ ErrorPayload(a).structured = Tree(Category(a.status), 1, <<>>)
BY DEF ErrorPayload, Payload

\* Whatever is answered, what was promised is kept.
LEMMA PromiseIsKept ==
  ASSUME NEW promised \in BOOLEAN, NEW a \in Answers, NEW fields, NEW secrets, NEW format
  PROVE  LET p == PayloadFor(promised, Shaped(a, fields, secrets), format) IN
         /\ PromiseKept(promised, a, p)
         /\ fields = {} /\ secrets = {} /\ ~p.isError /\ p.structured # NONE => p.structured \in {a.json, a.xml}
<1> DEFINE sh   == Shaped(a, fields, secrets)
           body == Converted(sh, format)
           p    == PayloadFor(promised, sh, format)
<1>0. a.status \in Nat /\ NONE \notin Json
  BY AnswersAssumption
<1>1. sh.status = a.status
  BY ShapedIs
<1>2. PayloadIs(p, promised, a, sh, body)
  BY PayloadsAre
<1>3. /\ a.json # NONE => body = sh /\ sh.json # NONE
      /\ a.json = NONE => body.json \in {NONE, a.xml}
      /\ body.json # NONE => body.json.left = <<>>
  BY ConvertedIs, ShapedIs
<1>4. a.json # NONE /\ fields = {} /\ secrets = {} => sh.json = a.json
  BY NestingIs, ShapedIs, RedactNothing DEF KeptOfAnswer
<1> HIDE DEF sh, body, p
<1>5. CASE p = ErrorPayload(sh) /\ (a.status = 0 \/ a.status >= 400)
  <2>1. /\ p.isError = TRUE /\ p.reads = Category(a.status) /\ p.structured = Tree(Category(a.status), 1, <<>>)
    BY <1>1, <1>5, ErrorIs
  <2>2. a.status \notin 200..399
    BY <1>0, <1>5
  <2>3. p.reads # "empty" /\ p.structured.kind = p.reads /\ ~Container(p.structured)
        /\ (p.reads = "retryable" => a.status \notin (400..499) \ {429})
    <3>1. a.status \in Nat
      BY <1>0
    <3>2. /\ Category(a.status) \in {"forbidden", "retryable", "invalid_request"}
          /\ Category(a.status) = "retryable" => a.status \notin (400..499) \ {429}
      BY <3>1, CategoryIs, ZenonT(60)
    <3>3. /\ Tree(Category(a.status), 1, <<>>).kind = Category(a.status)
          /\ ~Container(Tree(Category(a.status), 1, <<>>))
      BY <3>1, CategoryIs
    <3> QED
      BY <2>1, <3>2, <3>3
  <2>4. PromiseKept(promised, a, p)
    BY <2>1, <2>2, <2>3 DEF PromiseKept
  <2> QED
    BY <2>1, <2>4 DEF p, sh
<1>6. CASE p = Payload("empty", FALSE, NONE, NONE) /\ a.json = NONE
  BY <1>6 DEF PromiseKept, Payload, p, sh
<1>7. CASE p = Payload("binary", FALSE, NONE, NONE)
  BY <1>7 DEF PromiseKept, Payload, p, sh
<1>8. CASE p = Payload("page", FALSE, Excerpted(sh), NONE)
  BY <1>8 DEF PromiseKept, Payload, p, sh
<1>9. CASE p = Payload("not JSON", TRUE, NONE, NONE) /\ promised /\ body.json = NONE /\ a.status # 204
  <2>1. a.json = NONE
    BY <1>3, <1>9
  <2>2. p.isError /\ p.structured = NONE /\ p.reads = "not JSON"
    BY <1>9 DEF Payload
  <2> QED
    BY <1>9, <2>1, <2>2 DEF PromiseKept, p, sh
<1>10. CASE /\ p = Payload("success", FALSE, Text(body), IF promised THEN body.json ELSE NONE)
            /\ promised => body.json # NONE
  <2>1. p.reads = "success" /\ ~p.isError /\ p.structured = IF promised THEN body.json ELSE NONE
    BY <1>10 DEF Payload
  <2>2. PromiseKept(promised, a, p)
    BY <1>3, <1>10, <2>1 DEF PromiseKept
  <2>3. fields = {} /\ secrets = {} /\ p.structured # NONE => p.structured \in {a.json, a.xml}
    BY <1>3, <1>4, <1>10, <2>1
  <2> QED
    BY <2>2, <2>3 DEF p, sh
<1> QED
  BY <1>2, <1>5, <1>6, <1>7, <1>8, <1>9, <1>10 DEF PayloadIs

\* What is shown of an answer is the payload of that answer, shaped by the policy of now.
PolicyOf == policy[call.tool.api]
AnswerInv == answer # NONE =>
  /\ stage = "shown" /\ answer \in Answers
  /\ payload = PayloadFor(call.tool.output # NONE, Shaped(answer, PolicyOf.fields, PolicyOf.secrets), Global("format"))

\* At the start nothing is answered,
LEMMA AnswerFirst == Init => AnswerInv
  BY DEF Init, TryInit, AnswerInv

\* and what is shown stays what it is until the next call.
LEMMA AnswerNext == AnswerInv /\ [Next]_vars => AnswerInv'
<1> SUFFICES ASSUME AnswerInv, [Next]_vars PROVE AnswerInv'
  OBVIOUS
<1>1. CASE UNCHANGED <<stage, launch, policy, call, answer, payload>>
  BY <1>1 DEF AnswerInv, PolicyOf, Global
<1>2. ASSUME stage # "shown", UNCHANGED answer PROVE AnswerInv'
  BY <1>2 DEF AnswerInv
<1>3. CASE Boot \/ SetPolicy("fields") \/ SetPolicy("secrets") \/ \E i \in DOMAIN tools : Call(i) \/ CallMeta(i) \/ Preview(i)
  <2>1. stage # "shown" /\ UNCHANGED answer
    BY <1>3 DEF Boot, SetPolicy, Call, Send, CallMeta, Preview
  <2> QED
    BY <1>2, <2>1
<1>4. CASE Ask
  BY <1>4 DEF Ask, AnswerInv
<1>5. CASE Show
  <2>1. /\ UNCHANGED <<launch, policy>> /\ stage' = "shown" /\ answer' \in Answers
        /\ payload' = PayloadFor(call.tool.output # NONE,
                                 Shaped(answer', policy[call.tool.api].fields, policy[call.tool.api].secrets),
                                 Global("format"))
    BY <1>5 DEF Show
  <2>2. call'.tool.api = call.tool.api /\ call'.tool.output = call.tool.output
    BY <1>5 DEF Show
  <2>3. Global("format")' = Global("format") /\ PolicyOf' = policy[call.tool.api]
    BY <2>1, <2>2 DEF Global, PolicyOf
  <2> QED
    BY <2>1, <2>2, <2>3 DEF AnswerInv
<1> QED
  BY <1>1, <1>3, <1>4, <1>5 DEF Next, Prompt, TryNext, vars, tryVars

\* For any answers and policies: a tool that promises JSON gives the API's own whole with each success
\* but those that are empty, binary or a page, which break the promise (EverySuccessStructured);
\* it makes an error of no other answer than one that is not JSON; what promises nothing gives nothing;
\* and only errors of the API that do not blame the request are worth another try (api_server.py
\* 407-476, http_client.py 492-574).
THEOREM PromisesAreKept == Spec => []PromisesKept
<1>1. AnswerInv => PromisesKept
  <2> SUFFICES ASSUME AnswerInv, answer # NONE
               PROVE  LET promised == call.tool.output # NONE
                          p == policy[call.tool.api]
                      IN /\ PromiseKept(promised, answer, payload)
                         /\ p.fields = {} /\ p.secrets = {} /\ ~payload.isError /\ payload.structured # NONE
                              => payload.structured \in {answer.json, answer.xml}
    BY Zenon DEF PromisesKept
  <2> DEFINE promised == call.tool.output # NONE
  <2>1. answer \in Answers /\ promised \in BOOLEAN
        /\ payload = PayloadFor(promised, Shaped(answer, PolicyOf.fields, PolicyOf.secrets), Global("format"))
    BY DEF AnswerInv
  <2> HIDE DEF promised
  <2>2. /\ PromiseKept(promised, answer, payload)
        /\ PolicyOf.fields = {} /\ PolicyOf.secrets = {} /\ ~payload.isError /\ payload.structured # NONE
             => payload.structured \in {answer.json, answer.xml}
    BY <2>1, PromiseIsKept
  <2> QED
    BY <2>2 DEF promised, PolicyOf
<1> QED
  BY <1>1, AnswerFirst, AnswerNext, PTL DEF Spec

-----------------------------------------------------------------------------
(* Cuts. *)

\* A value whose keys differ, and of which nothing is left out.
Whole(t) ==
  /\ t.left = <<>>
  /\ t.kind = "object" => /\ KeysDiffer(t.items)
                          /\ \A i \in DOMAIN t.items : t.items[i].value.left = <<>>

\* What is projected has as much left out as before: nothing, of what is read.
LEMMA ProjectLeft ==
  ASSUME Nesting \in Nat, NEW fields, NEW n \in 0..Nesting, NEW t \in JsonTo[n]
  PROVE  Project(t, fields).left = t.left
<1>1. CASE Container(t)
  <2>1. PICK from : KeepsThose(Project(t, fields), t, fields, from)
    BY <1>1, ProjectAt
  <2> QED
    BY <2>1 DEF KeepsThose
<1>2. CASE ~Container(t)
  BY <1>2, AllJson, ProjectScalar
<1> QED
  BY <1>1, <1>2

\* A whole value is whole after projection,
LEMMA ProjectWhole ==
  ASSUME Nesting \in Nat, NEW fields, NEW n \in 0..Nesting, NEW t \in JsonTo[n], Whole(t)
  PROVE  Whole(Project(t, fields))
<1> DEFINE r == Project(t, fields)
<1>1. r.left = <<>>
  BY ProjectLeft DEF Whole
<1>2. CASE t.kind = "object"
  <2>0. Container(t)
    BY <1>2 DEF Container
  <2>1. PICK from : KeepsThose(r, t, fields, from)
    BY <2>0, ProjectAt
  <2> HIDE DEF r
  <2>2. ASSUME NEW j \in DOMAIN r.items
        PROVE  /\ from[j] \in DOMAIN t.items /\ r.items[j].key = t.items[from[j]].key
               /\ r.items[j].value.left = <<>>
    <3>1. from[j] \in DOMAIN t.items /\ r.items[j] = KeptAt(t, fields, from[j])
      BY <2>1 DEF KeepsThose, Keeps
    <3> DEFINE e == t.items[from[j]]
               v == IF e.key \in fields THEN e.value ELSE Project(e.value, fields)
    <3>2. r.items[j] = [key |-> e.key, value |-> v]
      BY <1>2, <3>1 DEF KeptAt
    <3>3. e.value.left = <<>> /\ n - 1 \in 0..Nesting /\ e.value \in JsonTo[n - 1]
      BY <1>2, <2>0, <3>1, ItemsAre DEF Whole
    <3>4. Project(e.value, fields).left = <<>>
      BY <3>3, ProjectLeft
    <3> HIDE DEF e
    <3>5. v.left = <<>>
      BY <3>3, <3>4
    <3> HIDE DEF v
    <3> QED
      BY <3>1, <3>2, <3>5 DEF e
  <2>3. \A j, k \in DOMAIN r.items : from[j] = from[k] => j = k
    BY <2>1 DEF KeepsThose
  <2>4. KeysDiffer(r.items)
    BY <1>2, <2>2, <2>3 DEF KeysDiffer, Whole
  <2> QED
    BY <1>1, <2>2, <2>4 DEF Whole, r
<1>3. CASE t.kind # "object"
  <2>1. r.kind = t.kind
    <3>1. CASE Container(t)
      <4>1. PICK from : KeepsThose(r, t, fields, from)
        BY <3>1, ProjectAt
      <4> QED
        BY <4>1 DEF KeepsThose
    <3>2. CASE ~Container(t)
      BY <3>2, AllJson, ProjectScalar
    <3> QED
      BY <3>1, <3>2
  <2> HIDE DEF r
  <2> QED
    BY <1>1, <1>3, <2>1 DEF Whole, r
<1> QED
  BY <1>2, <1>3

\* and after redaction,
LEMMA RedactWhole ==
  ASSUME Nesting \in Nat, NEW secrets, NEW n \in 0..Nesting, NEW t \in JsonTo[n], Whole(t)
  PROVE  Whole(Redact(t, secrets))
<1> DEFINE r == Redact(t, secrets)
<1>1. r.left = t.left /\ r.kind = t.kind /\ DOMAIN r.items = DOMAIN t.items
  BY RedactAt
<1>2. ASSUME t.kind = "object", NEW i \in DOMAIN t.items
      PROVE  r.items[i].key = t.items[i].key /\ r.items[i].value.left = <<>>
  <2> DEFINE e == t.items[i]
             v == IF Hides(secrets, e) THEN Stars ELSE Redact(e.value, secrets)
  <2>1. r.items[i] = [key |-> e.key, value |-> v]
    BY <1>2, RedactObject
  <2>2. e.value.left = <<>> /\ n - 1 \in 0..Nesting /\ e.value \in JsonTo[n - 1]
    BY <1>2, ItemsAre DEF Whole, Container
  <2> HIDE DEF e
  <2>3. Redact(e.value, secrets).left = <<>>
    <3>1. ASSUME NEW m \in 0..Nesting, NEW c \in JsonTo[m] PROVE Redact(c, secrets).left = c.left
      BY RedactAt
    <3> QED
      BY <2>2, <3>1
  <2>4. Stars.left = <<>>
    BY DEF Stars, Tree
  <2>5. v.left = <<>>
    BY <2>3, <2>4
  <2> HIDE DEF v, r
  <2> QED
    BY <2>1, <2>5 DEF e
<1> HIDE DEF r
<1>3. t.kind = "object" => KeysDiffer(r.items) /\ \A i \in DOMAIN r.items : r.items[i].value.left = <<>>
  BY <1>1, <1>2 DEF KeysDiffer, Whole
<1> QED
  BY <1>1, <1>3 DEF Whole, r

\* so what is shaped of an answer is.
LEMMA ShapedWhole ==
  ASSUME NEW a \in Answers, NEW fields, NEW secrets, a.json # NONE
  PROVE  Shaped(a, fields, secrets).json \in Json /\ Whole(Shaped(a, fields, secrets).json)
<1>1. /\ Shaped(a, fields, secrets).json = Redact(KeptOfAnswer(a, fields), secrets)
      /\ Shaped(a, fields, secrets).json \in Json
      /\ a.json \in ReadTo[Nesting] /\ a.json \in Json /\ KeptOfAnswer(a, fields) \in Json
  BY ShapedIs
<1>2. Whole(a.json)
  <2>1. Nesting - 1 \in 0..Nesting
    BY NestingIs
  <2>2. a.json.left = <<>> /\ (a.json.kind = "object" => KeysDiffer(a.json.items)
                               /\ \A i \in DOMAIN a.json.items : a.json.items[i].value \in ReadTo[Nesting - 1])
    BY <1>1, NestingIs, ReadIs
  <2>3. \A v \in ReadTo[Nesting - 1] : v.left = <<>>
    BY <2>1, NestingIs, ReadIs
  <2> QED
    BY <2>2, <2>3 DEF Whole
<1>3. Whole(KeptOfAnswer(a, fields))
  <2>1. Whole(Project(a.json, fields))
    BY <1>1, <1>2, NestingIs, ProjectWhole
  <2> QED
    BY <1>2, <2>1 DEF KeptOfAnswer
<1> QED
  BY <1>1, <1>3, NestingIs, RedactWhole

\* A cut value of an object, or one that is kept, is a beginning of it.
LEMMA BeginsIs ==
  ASSUME Nesting \in Nat, NEW n \in 0..Nesting, NEW v, NEW w \in JsonTo[n], w.left = <<>>, Begins(v, w)
  PROVE  IsBeginning(v, w)
<1>1. CASE v = w
  BY <1>1 DEF IsBeginning
<1>2. CASE Container(w) /\ \E k \in 1..Len(w.items) : v = FirstOf(w, k)
  <2>1. PICK k \in 1..Len(w.items) : v = FirstOf(w, k)
    BY <1>2
  <2>2. Len(w.items) \in Nat
    BY <1>2, ItemsAre
  <2>3. k \in 0..Len(w.items)
    BY <2>2
  <2>4. v.kind = w.kind /\ (k = Len(w.items) => v = w)
    BY <1>2, <2>1, <2>3, FirstOfIs
  <2>5. k # Len(w.items) => k \in 1..(Len(w.items) - 1)
    BY <2>2
  <2> QED
    BY <1>2, <2>1, <2>4, <2>5 DEF IsBeginning
<1> QED
  BY <1>1, <1>2 DEF Begins

\* An array that is cut fits, and is a beginning.
LEMMA ArrayCutIs ==
  ASSUME Nesting \in Nat, Marker \in Nat, NEW n \in 0..Nesting, NEW t \in JsonTo[n], t.kind = "array",
         t.left = <<>>, ~(Length[t] <= Limit), FittedTo(t, 0, Limit) # NONE
  PROVE  Length[FittedTo(t, 0, Limit)] <= Limit /\ IsBeginning(FittedTo(t, 0, Limit), t)
<1>0. Container(t)
  BY DEF Container
<1>1. PICK k \in 1..Len(t.items) : FittedTo(t, 0, Limit) = FirstOf(t, k) /\ 0 + Length[FirstOf(t, k)] <= Limit
  BY <1>0, FittedIs
<1>2. Len(t.items) \in Nat
  BY <1>0, ItemsAre
<1>3. k \in 0..Len(t.items)
  BY <1>2
<1>4. FirstOf(t, k) \in JsonTo[n] /\ FirstOf(t, k).kind = t.kind /\ (k = Len(t.items) => FirstOf(t, k) = t)
  BY <1>0, <1>3, FirstOfIs
<1>5. Length[FirstOf(t, k)] \in Nat
  BY <1>4, AllJson, LengthIs
<1>6. Length[FirstOf(t, k)] <= Limit
  BY <1>1, <1>5
<1>7. k \in 1..(Len(t.items) - 1)
  BY <1>2, <1>4, <1>6
<1> QED
  BY <1>0, <1>1, <1>4, <1>6, <1>7 DEF IsBeginning

\* A value with other items and another rest is that, and the same otherwise.
LEMMA ChangedIs ==
  ASSUME NEW t, t = [kind |-> t.kind, size |-> t.size, items |-> t.items, left |-> t.left], NEW items, NEW left
  PROVE  /\ [t EXCEPT !.items = items, !.left = left].items = items
         /\ [t EXCEPT !.items = items, !.left = left].left = left
         /\ [t EXCEPT !.items = items, !.left = left].kind = t.kind
<1> DEFINE two == [t EXCEPT !.items = items, !.left = left]
<1>1. PICK k, z, i, l : t = [kind |-> k, size |-> z, items |-> i, left |-> l]
  OBVIOUS
<1>2. [t EXCEPT !.items = items] = [kind |-> k, size |-> z, items |-> items, left |-> l]
  BY <1>1
<1>3. two = [[t EXCEPT !.items = items] EXCEPT !.left = left]
  BY <1>1
<1>4. ASSUME NEW o, o = [kind |-> k, size |-> z, items |-> items, left |-> l]
      PROVE  [o EXCEPT !.left = left] = [kind |-> k, size |-> z, items |-> items, left |-> left]
  BY <1>4
<1>5. two = [kind |-> k, size |-> z, items |-> items, left |-> left]
  BY <1>2, <1>3, <1>4
<1>6. t.kind = k
  BY <1>1
<1> HIDE DEF two
<1> QED
  BY <1>5, <1>6 DEF two

\* What goes from the end of an object, and with it what was omitted before.
GoneOf(t, so, k) ==
  LET keys == [i \in DOMAIN t.items |-> t.items[i].key]
  IN {keys[i] : i \in (Len(keys) - k + 1)..Len(keys)} \cup ValuesOf(so.omitted)

\* Without its last keys an object has the entries that were kept of the others, and the rest by
\* name.
LEMMA WithoutLastIs ==
  ASSUME Nesting \in Nat, NEW n \in 0..Nesting, NEW t \in JsonTo[n], t.kind = "object", NEW k,
         NEW so, so.kept \in Seq([key : JsonKeys, value : JsonTo[n - 1]])
  PROVE  LET c    == WithoutLast(t, so, k)
             gone == GoneOf(t, so, k)
         IN /\ c.kind = t.kind /\ c \in JsonTo[n]
            /\ \A j \in DOMAIN c.items : c.items[j].key \notin gone /\ \E x \in DOMAIN so.kept : c.items[j] = so.kept[x]
            /\ \A x \in DOMAIN so.kept : so.kept[x].key \notin gone => \E j \in DOMAIN c.items : c.items[j] = so.kept[x]
            /\ \A key \in ValuesOf(c.left) : key \in gone
            /\ \A i \in DOMAIN t.items : t.items[i].key \in gone => t.items[i].key \in ValuesOf(c.left)
<1> DEFINE keys  == [i \in DOMAIN t.items |-> t.items[i].key]
           gone  == GoneOf(t, so, k)
           S     == [key : JsonKeys, value : JsonTo[n - 1]]
           K     == {i \in DOMAIN so.kept : so.kept[i].key \notin gone}
           L     == {i \in DOMAIN keys : keys[i] \in gone}
           items == Selected(so.kept, K)
           left  == Selected(keys, L)
           c     == WithoutLast(t, so, k)
<1>0. Container(t) /\ t = [kind |-> t.kind, size |-> t.size, items |-> t.items, left |-> t.left]
  BY TreeIs DEF TreeOf, Container
<1>1. c = [t EXCEPT !.items = items, !.left = left]
  BY Zenon DEF WithoutLast, GoneOf
<1>2. DOMAIN t.items = 1..Len(t.items) /\ Len(t.items) \in Nat /\ \A i \in DOMAIN t.items : t.items[i].key \in JsonKeys
  BY <1>0, ItemsAre
<1>3. keys \in Seq(JsonKeys) /\ DOMAIN keys = DOMAIN t.items /\ \A i \in DOMAIN t.items : keys[i] = t.items[i].key
  <2>1. keys \in [1..Len(t.items) -> JsonKeys]
    BY <1>2
  <2>2. keys \in Seq(JsonKeys)
    <3> HIDE DEF keys
    <3> QED
      BY <1>2, <2>1, IsSeq
  <2> QED
    BY <2>2
<1> HIDE DEF keys, gone, K, L
<1>4. PICK from : Reads(so.kept, K, items, from)
  BY SelectedIs
<1>5. PICK of : Reads(keys, L, left, of)
  BY <1>3, SelectedIs
<1>11. items \in Seq(S) /\ left \in Seq(JsonKeys)
  BY <1>3, SelectedIs
<1> HIDE DEF items, left
<1>6. c.items = items /\ c.left = left /\ c.kind = t.kind
  BY <1>0, <1>1, ChangedIs
<1> HIDE DEF c
<1>7. \A j \in DOMAIN items : items[j].key \notin gone /\ \E x \in DOMAIN so.kept : items[j] = so.kept[x]
  BY <1>4 DEF Reads, K
<1>8. \A x \in DOMAIN so.kept : so.kept[x].key \notin gone => \E j \in DOMAIN items : items[j] = so.kept[x]
  BY <1>4 DEF Reads, K
<1>9. \A key \in ValuesOf(left) : key \in gone
  <2>1. \A j \in DOMAIN left : left[j] \in gone
    BY <1>5 DEF Reads, L
  <2> QED
    BY <2>1 DEF ValuesOf
<1>10. \A i \in DOMAIN t.items : t.items[i].key \in gone => t.items[i].key \in ValuesOf(left)
  <2> SUFFICES ASSUME NEW i \in DOMAIN t.items, t.items[i].key \in gone PROVE t.items[i].key \in ValuesOf(left)
    OBVIOUS
  <2>1. i \in L \cap DOMAIN keys
    BY <1>3 DEF L
  <2>2. PICK j \in DOMAIN left : of[j] = i
    BY <1>5, <2>1 DEF Reads
  <2>3. left[j] = t.items[i].key
    BY <1>3, <1>5, <2>2 DEF Reads
  <2> QED
    BY <2>3 DEF ValuesOf
<1>12. c \in JsonTo[n]
  <2>1. [t EXCEPT !.items = items, !.left = left] \in JsonTo[n]
    BY <1>0, <1>11, Rebuilt
  <2> QED
    BY <1>1, <2>1
<1> QED
  BY <1>6, <1>7, <1>8, <1>9, <1>10, <1>11, <1>12 DEF c, gone

\* One key, as the account of a cut has it.
KeyAccounted(c, t, i) ==
  LET here == {j \in DOMAIN c.items : c.items[j].key = t.items[i].key} IN
  /\ (here = {}) <=> (t.items[i].key \in ValuesOf(c.left))
  /\ \A j \in here : IsBeginning(c.items[j].value, t.items[i].value)

\* Every key of an object that is cut is there, as a beginning, or is named.
LEMMA ObjectCutIs ==
  ASSUME Nesting \in Nat, NEW n \in 0..Nesting, NEW t \in JsonTo[n], t.kind = "object", Whole(t), NEW k,
         NEW i \in DOMAIN t.items
  PROVE  KeyAccounted(WithoutLast(t, TakeEntries(t.items), k), t, i)
<1> DEFINE so   == TakeEntries(t.items)
           c    == WithoutLast(t, so, k)
           gone == GoneOf(t, so, k)
           here == {j \in DOMAIN c.items : c.items[j].key = t.items[i].key}
           S    == [key : JsonKeys, value : JsonTo[n - 1]]
<1>0. Container(t) /\ t.items \in Seq(S) /\ n - 1 \in 0..Nesting
  <2>1. Container(t)
    BY DEF Container
  <2>2. t.items \in Seq(S)
    BY TreeIs DEF TreeOf, Members
  <2> QED
    BY <2>1, <2>2, ItemsAre
<1>1. Taken(so, t.items, Len(t.items), n - 1)
  BY <1>0, TakenIs
<1> HIDE DEF so
<1>2. so.kept \in Seq(S) /\ i \in 1..Len(t.items) /\ DOMAIN t.items = 1..Len(t.items)
  BY <1>0, <1>1, ItemsAre DEF Taken
<1>3. /\ \A j \in DOMAIN c.items : c.items[j].key \notin gone /\ \E x \in DOMAIN so.kept : c.items[j] = so.kept[x]
      /\ \A x \in DOMAIN so.kept : so.kept[x].key \notin gone => \E j \in DOMAIN c.items : c.items[j] = so.kept[x]
      /\ \A key \in ValuesOf(c.left) : key \in gone
      /\ t.items[i].key \in gone => t.items[i].key \in ValuesOf(c.left)
  <2> QED
    BY <1>2, WithoutLastIs, ZenonT(60)
<1>4. \A x \in DOMAIN so.omitted : so.omitted[x] \in gone
  BY DEF GoneOf, ValuesOf
<1> HIDE DEF c, gone
<1>5. (\E x \in DOMAIN so.kept : so.kept[x].key = t.items[i].key)
      \/ (\E x \in DOMAIN so.omitted : so.omitted[x] = t.items[i].key)
  BY <1>1, <1>2 DEF Taken
<1>6. (here = {}) <=> (t.items[i].key \in ValuesOf(c.left))
  BY <1>3, <1>4, <1>5
<1>7. ASSUME NEW j \in here PROVE IsBeginning(c.items[j].value, t.items[i].value)
  <2>1. PICK x \in DOMAIN so.kept : c.items[j] = so.kept[x]
    BY <1>3
  <2>2. PICK y \in 1..Len(t.items) : so.kept[x].key = t.items[y].key /\ Begins(so.kept[x].value, t.items[y].value)
    BY <1>1 DEF Taken
  <2>3. y = i
    BY <1>2, <2>1, <2>2 DEF Whole, KeysDiffer
  <2>4. t.items[i].value.left = <<>> /\ t.items[i].value \in JsonTo[n - 1]
    BY <1>0, ItemsAre DEF Whole
  <2>5. Begins(c.items[j].value, t.items[i].value)
    BY <2>1, <2>2, <2>3
  <2> QED
    BY <1>0, <2>4, <2>5, BeginsIs
<1> QED
  BY <1>6, <1>7, Zenon DEF KeyAccounted, c, so

\* What is cut, as an account of it says.
LEMMA CutIs ==
  ASSUME Nesting \in Nat, Marker \in Nat, NEW n \in 0..Nesting, NEW t \in JsonTo[n], Whole(t)
  PROVE  TruncationAccounts(t)
<1> SUFFICES ASSUME Truncated(t) # NONE
             PROVE  /\ Length[Truncated(t)] <= Limit
                    /\ t.kind = "object" => \A i \in DOMAIN t.items : KeyAccounted(Truncated(t), t, i)
                    /\ t.kind # "object" => IsBeginning(Truncated(t), t)
  BY Zenon DEF TruncationAccounts, KeyAccounted
<1> DEFINE so     == TakeEntries(t.items)
           enough == {k \in 0..Len(t.items) : Length[WithoutLast(t, so, k)] <= Limit}
           least  == CHOOSE k \in enough : \A m \in enough : k <= m
<1>1. Truncated(t) = IF Length[t] <= Limit    THEN t
                     ELSE IF t.kind = "array" THEN FittedTo(t, 0, Limit)
                     ELSE IF t.kind # "object" \/ so.kept = <<>> \/ enough = {} THEN NONE
                     ELSE WithoutLast(t, so, least)
  BY Zenon DEF Truncated
<1> HIDE DEF so, enough, least
<1>2. CASE Length[t] <= Limit
  <2>1. Truncated(t) = t
    BY <1>1, <1>2
  <2>2. IsBeginning(t, t)
    BY DEF IsBeginning
  <2>3. ASSUME t.kind = "object", NEW i \in DOMAIN t.items
        PROVE  KeyAccounted(t, t, i)
    <3>1. \A j \in DOMAIN t.items : t.items[j].key = t.items[i].key => j = i
      BY <2>3 DEF Whole, KeysDiffer
    <3>2. IsBeginning(t.items[i].value, t.items[i].value)
      BY DEF IsBeginning
    <3>3. ValuesOf(t.left) = {}
      <4>1. t.left = <<>>
        BY DEF Whole
      <4> QED
        BY <4>1 DEF ValuesOf
    <3> QED
      BY <3>1, <3>2, <3>3 DEF KeyAccounted
  <2> QED
    BY <1>2, <2>1, <2>2, <2>3
<1>3. CASE ~(Length[t] <= Limit) /\ t.kind = "array"
  <2>1. Truncated(t) = FittedTo(t, 0, Limit)
    BY <1>1, <1>3
  <2>2. t.left = <<>>
    BY DEF Whole
  <2>3. Length[FittedTo(t, 0, Limit)] <= Limit /\ IsBeginning(FittedTo(t, 0, Limit), t)
    BY <1>3, <2>1, <2>2, ArrayCutIs
  <2> QED
    BY <1>3, <2>1, <2>3
<1>4. CASE ~(Length[t] <= Limit) /\ t.kind # "array"
  <2>1. t.kind = "object" /\ enough # {} /\ Truncated(t) = WithoutLast(t, so, least)
    BY <1>1, <1>4
  <2>2. least \in enough
    <3>1. Container(t)
      BY <2>1 DEF Container
    <3>2. enough \in SUBSET Nat
      BY <3>1, ItemsAre DEF enough
    <3>3. \E k \in enough : \A m \in enough : k <= m
      BY <2>1, <3>2, LeastOf
    <3> QED
      BY <3>3 DEF least
  <2>3. Length[Truncated(t)] <= Limit
    BY <2>1, <2>2 DEF enough
  <2>4. ASSUME NEW i \in DOMAIN t.items
        PROVE  KeyAccounted(Truncated(t), t, i)
    <3>1. Truncated(t) = WithoutLast(t, TakeEntries(t.items), least)
      BY <2>1 DEF so
    <3> QED
      BY <2>1, <3>1, ObjectCutIs
  <2> QED
    BY <2>1, <2>3, <2>4
<1> QED
  BY <1>2, <1>3, <1>4

\* For any answers, limits and policies: a text that was cut fits, and accounts for all it is
\* without (http_client.py 577-722).
THEOREM CutsAreAccounted == Spec => []CutsAccounted
<1>1. AnswerInv => CutsAccounted
  <2> SUFFICES ASSUME AnswerInv, answer # NONE, answer.json # NONE
               PROVE  LET p == policy[call.tool.api] IN
                      TruncationAccounts(Shaped(answer, p.fields, p.secrets).json)
    BY DEF CutsAccounted
  <2>1. answer \in Answers
    BY DEF AnswerInv
  <2> DEFINE p == policy[call.tool.api]
             t == Shaped(answer, p.fields, p.secrets).json
  <2>2. t \in Json /\ Whole(t)
    BY <2>1, ShapedWhole
  <2>3. Marker \in Nat
    BY ProcessAssumption
  <2> HIDE DEF t
  <2>4. TruncationAccounts(t)
    BY <2>2, <2>3, NestingIs, CutIs
  <2> QED
    BY <2>4 DEF t
<1> QED
  BY <1>1, AnswerFirst, AnswerNext, PTL DEF Spec

-----------------------------------------------------------------------------
(* Leaves. *)

\* A leaf, seen from above a key.
Below(key, l) == [keys |-> <<key>> \o l.keys, is |-> l.is]

\* A value without items is its own leaf,
LEMMA LeavesBare ==
  ASSUME Nesting \in Nat, NEW t \in Json, ~Full(t)
  PROVE  Leaves[t] = {[keys |-> <<>>, is |-> t]}
<1>1. Leaves[t] = LeavesOf(Leaves, t)
  BY LeavesAre
<1>2. ~(t.kind = "object" /\ t.items # <<>>) /\ ~(t.kind = "array" /\ t.items # <<>>)
  BY DEF Full, Container
<1> QED
  BY <1>1, <1>2 DEF LeavesOf

\* an array has those of its items,
LEMMA LeavesArray ==
  ASSUME Nesting \in Nat, NEW t \in Json, t.kind = "array", Full(t), NEW l
  PROVE  l \in Leaves[t] <=> \E i \in DOMAIN t.items : l \in Leaves[t.items[i]]
<1>1. Leaves[t] = LeavesOf(Leaves, t)
  BY LeavesAre
<1>2. Leaves[t] = UNION {Leaves[t.items[i]] : i \in DOMAIN t.items}
  BY <1>1 DEF LeavesOf, Full
<1> QED
  BY <1>2

\* and an object those of its values, below their keys.
LEMMA LeavesObject ==
  ASSUME Nesting \in Nat, NEW t \in Json, t.kind = "object", Full(t), NEW l
  PROVE  l \in Leaves[t]
           <=> \E i \in DOMAIN t.items : \E m \in Leaves[t.items[i].value] : l = Below(t.items[i].key, m)
<1>1. Leaves[t] = LeavesOf(Leaves, t)
  BY LeavesAre
<1>2. Leaves[t] = UNION {Beneath(t.items[i].key, Leaves[t.items[i].value]) : i \in DOMAIN t.items}
  BY <1>1 DEF LeavesOf, Full
<1>3. \A key, leaves : l \in Beneath(key, leaves) <=> \E m \in leaves : l = Below(key, m)
  BY DEF Beneath, Below
<1> QED
  BY <1>2, <1>3

\* A leaf below a key that redact_json finds.
Matched(l, secrets) == \E i \in DOMAIN l.keys : Lower(l.keys[i]) \in secrets

\* The keys above a leaf.
LEMMA BelowIs ==
  ASSUME NEW key \in JsonKeys, NEW l, l.keys \in Seq(JsonKeys)
  PROVE  /\ Below(key, l).is = l.is /\ Below(key, l).keys \in Seq(JsonKeys)
         /\ \A names : Under(Below(key, l), names) <=> key \in names \/ Under(l, names)
         /\ \A secrets : Matched(Below(key, l), secrets) <=> Lower(key) \in secrets \/ Matched(l, secrets)
         /\ Below(key, l) = [keys |-> Below(key, l).keys, is |-> Below(key, l).is]
         /\ Below(key, l).keys # <<>>
<1> DEFINE b == Below(key, l)
           above == <<key>> \o l.keys
<1>1. b = [keys |-> above, is |-> l.is]
  BY DEF Below
<1>2. <<key>> \in Seq(JsonKeys) /\ Len(<<key>>) = 1 /\ <<key>>[1] = key
  OBVIOUS
<1>3. above \in Seq(JsonKeys) /\ DOMAIN above = 1..(1 + Len(l.keys))
      /\ \A i \in 1..(1 + Len(l.keys)) : above[i] = IF i <= 1 THEN <<key>>[i] ELSE l.keys[i - 1]
  <2> DEFINE F == <<key>>
  <2>1. F \in Seq(JsonKeys) /\ Len(F) = 1
    BY <1>2
  <2>2. /\ F \o l.keys \in Seq(JsonKeys) /\ DOMAIN (F \o l.keys) = 1..(Len(F) + Len(l.keys))
        /\ \A i \in 1..(Len(F) + Len(l.keys)) : (F \o l.keys)[i] = IF i <= Len(F) THEN F[i] ELSE l.keys[i - Len(F)]
    <3> HIDE DEF F
    <3> QED
      BY <2>1, ConcatIs
  <2> QED
    BY <2>1, <2>2
<1> HIDE DEF above, b
<1>4. b.keys = above /\ b.is = l.is /\ b = [keys |-> b.keys, is |-> b.is]
  BY <1>1
<1>5. Len(l.keys) \in Nat /\ DOMAIN l.keys = 1..Len(l.keys)
  OBVIOUS
<1>6. 1 \in DOMAIN above /\ above[1] = key
  BY <1>2, <1>3, <1>5
<1>7. \A i \in DOMAIN l.keys : i + 1 \in DOMAIN above /\ above[i + 1] = l.keys[i]
  BY <1>3, <1>5
<1>8. \A i \in DOMAIN above : above[i] = key \/ \E j \in DOMAIN l.keys : above[i] = l.keys[j]
  <2> SUFFICES ASSUME NEW i \in DOMAIN above, i # 1 PROVE \E j \in DOMAIN l.keys : above[i] = l.keys[j]
    BY <1>6
  <2>1. i - 1 \in DOMAIN l.keys /\ above[i] = l.keys[i - 1]
    BY <1>3, <1>5
  <2> QED
    BY <2>1
<1>9. \A names : (\E i \in DOMAIN above : above[i] \in names) <=> key \in names \/ \E i \in DOMAIN l.keys : l.keys[i] \in names
  BY <1>6, <1>7, <1>8
<1>10. \A secrets : (\E i \in DOMAIN above : Lower(above[i]) \in secrets)
                    <=> Lower(key) \in secrets \/ \E i \in DOMAIN l.keys : Lower(l.keys[i]) \in secrets
  BY <1>6, <1>7, <1>8
<1>11. above # <<>>
  BY <1>6
<1> QED
  BY <1>3, <1>4, <1>9, <1>10, <1>11 DEF b, Under, Matched

\* A leaf that has no key above it is below none.
LEMMA BareIs ==
  ASSUME NEW t, NEW l, l = [keys |-> <<>>, is |-> t]
  PROVE  /\ l.is = t /\ l.keys \in Seq(JsonKeys) /\ l = [keys |-> l.keys, is |-> l.is]
         /\ (\A names : ~Under(l, names)) /\ (\A secrets : ~Matched(l, secrets))
<1>1. l.keys = <<>> /\ l.is = t
  OBVIOUS
<1>2. DOMAIN <<>> = {}
  OBVIOUS
<1> QED
  BY <1>1, <1>2 DEF Under, Matched

\* Every leaf has the keys above it, and is what no items are of.
LEMMA LeafIs ==
  ASSUME Nesting \in Nat
  PROVE  \A t \in Json : \A l \in Leaves[t] : l = [keys |-> l.keys, is |-> l.is] /\ l.keys \in Seq(JsonKeys)
<1> DEFINE Good(l) == l = [keys |-> l.keys, is |-> l.is] /\ l.keys \in Seq(JsonKeys)
           T == {t \in Json : \A l \in Leaves[t] : Good(l)}
<1>1. ASSUME NEW n \in 0..Nesting, NEW t \in JsonTo[n], Within(t) \subseteq T PROVE t \in T
  <2>0. t \in Json
    BY AllJson
  <2> SUFFICES ASSUME NEW l \in Leaves[t] PROVE Good(l)
    BY <2>0
  <2>1. CASE ~Full(t)
    BY <2>0, <2>1, LeavesBare, BareIs
  <2>2. CASE Full(t) /\ t.kind = "array"
    <3>1. PICK i \in DOMAIN t.items : l \in Leaves[t.items[i]]
      BY <2>0, <2>2, LeavesArray
    <3>2. t.items[i] \in T
      BY <1>1, <2>2, <3>1, ItemsAre DEF Full
    <3> QED
      BY <3>1, <3>2
  <2>3. CASE Full(t) /\ t.kind = "object"
    <3>0. PICK i \in DOMAIN t.items : \E m \in Leaves[t.items[i].value] : l = Below(t.items[i].key, m)
      BY <2>0, <2>3, LeavesObject
    <3>1. PICK m \in Leaves[t.items[i].value] : l = Below(t.items[i].key, m)
      BY <3>0
    <3>2. t.items[i].value \in T /\ t.items[i].key \in JsonKeys
      BY <1>1, <2>3, <3>1, ItemsAre DEF Full
    <3>3. m.keys \in Seq(JsonKeys)
      BY <3>1, <3>2
    <3> QED
      BY <3>1, <3>2, <3>3, BelowIs
  <2> QED
    BY <2>1, <2>2, <2>3 DEF Full, Container
<1>2. Json \subseteq T
  <2> HIDE DEF T
  <2> QED
    BY <1>1, TreeInduction
<1> QED
  BY <1>2

\* What is below a key of an object.
LEMMA EntryLeaves ==
  ASSUME Nesting \in Nat, NEW n \in 0..Nesting, NEW t \in JsonTo[n], t.kind = "object", NEW i \in DOMAIN t.items,
         NEW m \in Leaves[t.items[i].value]
  PROVE  LET b == Below(t.items[i].key, m) IN
         /\ b \in Leaves[t] /\ b.is = m.is
         /\ \A names : Under(b, names) <=> t.items[i].key \in names \/ Under(m, names)
         /\ \A secrets : Matched(b, secrets) <=> Lower(t.items[i].key) \in secrets \/ Matched(m, secrets)
<1>1. t \in Json /\ Container(t)
  BY AllJson DEF Container
<1>2. Full(t)
  <2>1. DOMAIN t.items # {} /\ DOMAIN <<>> = {}
    OBVIOUS
  <2> QED
    BY <1>1, <2>1 DEF Full
<1>3. t.items[i].key \in JsonKeys /\ t.items[i].value \in Json
  BY <1>1, ItemsAre, AllJson
<1>4. m.keys \in Seq(JsonKeys)
  BY <1>3, LeafIs
<1>5. Below(t.items[i].key, m) \in Leaves[t]
  BY <1>1, <1>2, LeavesObject
<1> QED
  BY <1>3, <1>4, <1>5, BelowIs

\* What is in an array.
LEMMA ItemLeaves ==
  ASSUME Nesting \in Nat, NEW n \in 0..Nesting, NEW t \in JsonTo[n], t.kind = "array", NEW i \in DOMAIN t.items
  PROVE  Leaves[t.items[i]] \subseteq Leaves[t]
<1>1. t \in Json /\ Container(t)
  BY AllJson DEF Container
<1>2. Full(t)
  <2>1. DOMAIN t.items # {} /\ DOMAIN <<>> = {}
    OBVIOUS
  <2> QED
    BY <1>1, <2>1 DEF Full
<1> QED
  BY <1>1, <1>2, LeavesArray

\* Where a leaf comes from.
LEMMA LeafFrom ==
  ASSUME Nesting \in Nat, NEW n \in 0..Nesting, NEW t \in JsonTo[n], NEW l \in Leaves[t]
  PROVE  \/ ~Full(t) /\ l = [keys |-> <<>>, is |-> t]
         \/ t.kind = "array" /\ \E i \in DOMAIN t.items : l \in Leaves[t.items[i]]
         \/ t.kind = "object" /\ \E i \in DOMAIN t.items : \E m \in Leaves[t.items[i].value] : l = Below(t.items[i].key, m)
<1>1. t \in Json
  BY AllJson
<1>2. CASE ~Full(t)
  BY <1>1, <1>2, LeavesBare
<1>3. CASE Full(t) /\ t.kind = "array"
  BY <1>1, <1>3, LeavesArray
<1>4. CASE Full(t) /\ t.kind = "object"
  BY <1>1, <1>4, LeavesObject
<1> QED
  BY <1>2, <1>3, <1>4 DEF Full, Container

\* A sequence that is not empty has something,
LEMMA SeqHas ==
  ASSUME NEW S, NEW s \in Seq(S), s # <<>>
  PROVE  DOMAIN s # {}
<1>1. Len(s) \in Nat /\ DOMAIN s = 1..Len(s)
  OBVIOUS
<1>2. Len(s) # 0
  OBVIOUS
<1>3. 1 \in DOMAIN s
  BY <1>1, <1>2
<1> QED
  BY <1>3

\* and so has a container that is not.
LEMMA FullHas ==
  ASSUME Nesting \in Nat, NEW n \in 0..Nesting, NEW t \in JsonTo[n], Full(t)
  PROVE  DOMAIN t.items # {}
<1>1. TreeOf(t, n) /\ t.items # <<>>
  BY TreeIs DEF Full
<1>2. \E S : t.items \in Seq(S)
  BY <1>1 DEF TreeOf, Members, Full, Container
<1> QED
  BY <1>1, <1>2, SeqHas

\* What is kept of a value has leaves below selected keys only, and all of them.
KeptLeaves(r, t, fields) ==
  /\ Full(r) => \A l \in Leaves[r] : l \in Leaves[t] /\ Under(l, fields)
  /\ \A l \in Leaves[t] : Under(l, fields) => Full(r) /\ l \in Leaves[r]

\* So it is for every value.
LEMMA ProjectLeaves ==
  ASSUME Nesting \in Nat, NEW fields
  PROVE  \A t \in Json : KeptLeaves(Project(t, fields), t, fields)
<1> DEFINE T == {t \in Json : KeptLeaves(Project(t, fields), t, fields)}
<1>1. ASSUME NEW n \in 0..Nesting, NEW t \in JsonTo[n], Within(t) \subseteq T PROVE t \in T
  <2> DEFINE r == Project(t, fields)
  <2>0. t \in Json /\ r \in JsonTo[n]
    BY AllJson, ProjectStays
  <2>1. CASE ~Container(t)
    <3>1. r = t /\ ~Full(t)
      BY <2>0, <2>1, ProjectScalar DEF Full
    <3>2. \A l \in Leaves[t] : ~Under(l, fields)
      BY <2>0, <3>1, LeavesBare, BareIs
    <3> QED
      BY <2>0, <3>1, <3>2 DEF KeptLeaves
  <2>2. CASE t.kind = "object"
    <3>0. Container(t)
      BY <2>2 DEF Container
    <3>1. PICK from : KeepsThose(r, t, fields, from)
      BY <3>0, ProjectAt
    <3> HIDE DEF r
    <3>2. r.kind = "object" /\ Container(r)
      BY <2>2, <3>1 DEF KeepsThose, Container
    <3>3. \A j \in DOMAIN r.items : from[j] \in Keeps(t, fields) /\ r.items[j] = KeptAt(t, fields, from[j])
      BY <3>1 DEF KeepsThose
    <3>4. \A i \in Keeps(t, fields) : \E j \in DOMAIN r.items : from[j] = i
      BY <3>1 DEF KeepsThose
    <3>5. ASSUME NEW i \in DOMAIN t.items PROVE t.items[i].value \in T
      BY <1>1, <2>2, <3>0, ItemsAre
    <3>6. \A i \in DOMAIN t.items :
            KeptAt(t, fields, i) = [key   |-> t.items[i].key,
                                    value |-> IF t.items[i].key \in fields THEN t.items[i].value
                                              ELSE Project(t.items[i].value, fields)]
      BY <2>2 DEF KeptAt
    <3>7. \A i \in DOMAIN t.items :
            KeptAt(t, fields, i).key = t.items[i].key /\
            KeptAt(t, fields, i).value = IF t.items[i].key \in fields THEN t.items[i].value
                                         ELSE Project(t.items[i].value, fields)
      BY <3>6
    <3>8. \A i \in DOMAIN t.items :
            i \in Keeps(t, fields) <=> t.items[i].key \in fields \/ Full(Project(t.items[i].value, fields))
      BY <2>2 DEF Keeps
    <3>9. ASSUME Full(r), NEW l \in Leaves[r] PROVE l \in Leaves[t] /\ Under(l, fields)
      <4>1. PICK j \in DOMAIN r.items : \E m \in Leaves[r.items[j].value] : l = Below(r.items[j].key, m)
        BY <2>0, <3>2, <3>9, LeafFrom
      <4>2. PICK m \in Leaves[r.items[j].value] : l = Below(r.items[j].key, m)
        BY <4>1
      <4> DEFINE i == from[j]
                 key == t.items[i].key
                 v == t.items[i].value
      <4>3. i \in DOMAIN t.items /\ i \in Keeps(t, fields)
        BY <3>3 DEF Keeps
      <4>4. r.items[j].key = key /\ r.items[j].value = IF key \in fields THEN v ELSE Project(v, fields)
        BY <3>3, <3>7, <4>3
      <4>5. m \in Leaves[v] /\ (key \in fields \/ Under(m, fields))
        <5>1. CASE key \in fields
          BY <4>2, <4>4, <5>1
        <5>2. CASE key \notin fields
          <6>1. Full(Project(v, fields)) /\ m \in Leaves[Project(v, fields)]
            BY <3>8, <4>2, <4>3, <4>4, <5>2
          <6>2. KeptLeaves(Project(v, fields), v, fields)
            BY <3>5, <4>3
          <6> QED
            BY <6>1, <6>2 DEF KeptLeaves
        <5> QED
          BY <5>1, <5>2
      <4>6. l = Below(key, m)
        BY <4>2, <4>4
      <4> QED
        BY <2>2, <4>3, <4>5, <4>6, EntryLeaves
    <3>10. ASSUME NEW l \in Leaves[t], Under(l, fields) PROVE Full(r) /\ l \in Leaves[r]
      <4>0. Full(t)
        BY <2>0, <3>10, LeavesBare, BareIs
      <4>1. PICK i \in DOMAIN t.items : \E m \in Leaves[t.items[i].value] : l = Below(t.items[i].key, m)
        BY <2>2, <4>0, LeafFrom
      <4>2. PICK m \in Leaves[t.items[i].value] : l = Below(t.items[i].key, m)
        BY <4>1
      <4> DEFINE key == t.items[i].key
                 v == t.items[i].value
      <4>3. key \in fields \/ Under(m, fields)
        BY <2>2, <3>10, <4>2, EntryLeaves
      <4>4. i \in Keeps(t, fields) /\ m \in Leaves[KeptAt(t, fields, i).value]
        <5>1. CASE key \in fields
          BY <3>7, <3>8, <4>2, <5>1
        <5>2. CASE key \notin fields
          <6>1. KeptLeaves(Project(v, fields), v, fields)
            BY <3>5
          <6>2. Full(Project(v, fields)) /\ m \in Leaves[Project(v, fields)]
            BY <4>2, <4>3, <5>2, <6>1 DEF KeptLeaves
          <6> QED
            BY <3>7, <3>8, <5>2, <6>2
        <5> QED
          BY <5>1, <5>2
      <4>5. PICK j \in DOMAIN r.items : from[j] = i
        BY <3>4, <4>4
      <4>6. r.items[j].key = key /\ m \in Leaves[r.items[j].value]
        BY <3>3, <3>7, <4>4, <4>5
      <4>7. Below(r.items[j].key, m) \in Leaves[r]
        BY <2>0, <3>2, <4>6, EntryLeaves
      <4>8. Full(r)
        <5>1. r.items # <<>>
          <6>1. DOMAIN <<>> = {} /\ DOMAIN r.items # {}
            OBVIOUS
          <6> QED
            BY <6>1
        <5> QED
          BY <3>2, <5>1 DEF Full
      <4> QED
        BY <4>2, <4>6, <4>7, <4>8
    <3> QED
      BY <2>0, <3>9, <3>10 DEF KeptLeaves, r
  <2>3. CASE t.kind = "array"
    <3>0. Container(t)
      BY <2>3 DEF Container
    <3>1. PICK from : KeepsThose(r, t, fields, from)
      BY <3>0, ProjectAt
    <3> HIDE DEF r
    <3>2. r.kind = "array" /\ Container(r) /\ t.kind # "object" /\ r.kind # "object"
      BY <2>3, <3>1 DEF KeepsThose, Container
    <3>3. \A j \in DOMAIN r.items : from[j] \in Keeps(t, fields) /\ r.items[j] = Project(t.items[from[j]], fields)
      BY <3>1, <3>2 DEF KeepsThose, KeptAt
    <3>4. \A i \in Keeps(t, fields) : \E j \in DOMAIN r.items : from[j] = i
      BY <3>1 DEF KeepsThose
    <3>5. ASSUME NEW i \in DOMAIN t.items PROVE KeptLeaves(Project(t.items[i], fields), t.items[i], fields)
      <4>1. t.items[i] \in T
        BY <1>1, <2>3, <3>0, ItemsAre
      <4> QED
        BY <4>1
    <3>8. \A i \in DOMAIN t.items : i \in Keeps(t, fields) <=> Full(Project(t.items[i], fields))
      BY <3>2 DEF Keeps
    <3>9. ASSUME Full(r), NEW l \in Leaves[r] PROVE l \in Leaves[t] /\ Under(l, fields)
      <4>1. PICK j \in DOMAIN r.items : l \in Leaves[r.items[j]]
        BY <2>0, <3>2, <3>9, LeafFrom
      <4> DEFINE i == from[j]
      <4>3. i \in DOMAIN t.items /\ i \in Keeps(t, fields)
        BY <3>3 DEF Keeps
      <4>4. Full(Project(t.items[i], fields)) /\ l \in Leaves[Project(t.items[i], fields)]
        BY <3>3, <3>8, <4>1, <4>3
      <4>5. KeptLeaves(Project(t.items[i], fields), t.items[i], fields)
        BY <3>5, <4>3
      <4>6. l \in Leaves[t.items[i]] /\ Under(l, fields)
        BY <4>4, <4>5 DEF KeptLeaves
      <4> QED
        BY <2>3, <4>3, <4>6, ItemLeaves
    <3>10. ASSUME NEW l \in Leaves[t], Under(l, fields) PROVE Full(r) /\ l \in Leaves[r]
      <4>0. Full(t)
        BY <2>0, <3>10, LeavesBare, BareIs
      <4>1. PICK i \in DOMAIN t.items : l \in Leaves[t.items[i]]
        BY <2>3, <4>0, LeafFrom
      <4>2. Full(Project(t.items[i], fields)) /\ l \in Leaves[Project(t.items[i], fields)]
        BY <3>5, <3>10, <4>1 DEF KeptLeaves
      <4>5. PICK j \in DOMAIN r.items : from[j] = i
        BY <3>4, <3>8, <4>2
      <4>6. l \in Leaves[r.items[j]]
        BY <3>3, <4>2, <4>5
      <4>7. l \in Leaves[r]
        BY <2>0, <3>2, <4>6, ItemLeaves
      <4>8. Full(r)
        <5>1. r.items # <<>>
          <6>1. DOMAIN <<>> = {} /\ DOMAIN r.items # {}
            OBVIOUS
          <6> QED
            BY <6>1
        <5> QED
          BY <3>2, <5>1 DEF Full
      <4> QED
        BY <4>7, <4>8
    <3> QED
      BY <2>0, <3>9, <3>10 DEF KeptLeaves, r
  <2> QED
    BY <2>1, <2>2, <2>3 DEF Container
<1>2. Json \subseteq T
  <2> HIDE DEF T
  <2> QED
    BY <1>1, TreeInduction
<1> QED
  BY <1>2

\* So --fields keeps exactly those, of what nothing is left out of.
LEMMA ProjectsThose ==
  ASSUME Nesting \in Nat, NEW fields, NEW t \in Json, t.left = <<>>
  PROVE  ProjectsExactly(t, fields)
<1> SUFFICES ASSUME Container(t)
             PROVE  Leaves[Project(t, fields)] \ {[keys |-> <<>>, is |-> Tree(t.kind, 0, <<>>)]}
                      = {l \in Leaves[t] : Under(l, fields)}
  BY DEF ProjectsExactly
<1> DEFINE r == Project(t, fields)
           e == [keys |-> <<>>, is |-> Tree(t.kind, 0, <<>>)]
<1>1. KeptLeaves(r, t, fields)
  BY ProjectLeaves
<1>2. ~Under(e, fields)
  BY BareIs
<1>0. Nesting \in 0..Nesting /\ t \in JsonTo[Nesting]
  BY DEF Json
<1>3. r \in JsonTo[Nesting] /\ r \in Json
  BY <1>0, ProjectStays, AllJson
<1>4. r.kind = t.kind /\ r.size = t.size /\ r.left = <<>>
  <2>1. PICK from : KeepsThose(r, t, fields, from)
    BY <1>0, ProjectAt
  <2> HIDE DEF r
  <2> QED
    BY <2>1 DEF KeepsThose
<1>5. t.size = 0
  BY <1>0, TreeIs DEF TreeOf, Container
<1>6. r = [kind |-> r.kind, size |-> r.size, items |-> r.items, left |-> r.left]
  BY <1>0, <1>3, TreeIs DEF TreeOf
<1> HIDE DEF r
<1>7. CASE Full(r)
  BY <1>1, <1>2, <1>7 DEF KeptLeaves, r
<1>8. CASE ~Full(r)
  <2>1. r.items = <<>>
    BY <1>4, <1>8 DEF Full, Container
  <2>2. r = Tree(t.kind, 0, <<>>)
    BY <1>4, <1>5, <1>6, <2>1 DEF Tree
  <2>3. Leaves[r] = {e}
    BY <1>3, <1>8, <2>2, LeavesBare
  <2>4. \A l \in Leaves[t] : ~Under(l, fields)
    BY <1>1, <1>8 DEF KeptLeaves
  <2> QED
    BY <2>3, <2>4 DEF r
<1> QED
  BY <1>7, <1>8

\* What is below a secret key is masked, or null.
\* A leaf below a key that redact_json finds is below one that the list writes without capitals.
LEMMA MatchedIs == ASSUME NEW l, NEW secrets PROVE Secret(l, Findable(secrets)) <=> Matched(l, secrets)
<1>1. \A key : Lower(Lower(key)) = Lower(key)
  BY Zenon DEF Lower
<1>2. \A key : (\E s \in Findable(secrets) : Lower(s) = Lower(key)) <=> Lower(key) \in secrets
  BY <1>1, Zenon DEF Findable
<1> QED
  BY <1>2, Zenon DEF Secret, Matched

SecretsGone(t, secrets) == \A l \in Leaves[t] : Matched(l, secrets) => l.is \in {Stars, Null}

\* Redaction leaves no other below one, and all the rest as it was.
LEMMA RedactMasks ==
  ASSUME Nesting \in Nat, NEW secrets
  PROVE  \A t \in Json : /\ SecretsGone(Redact(t, secrets), secrets)
                         /\ \A l : l \in Leaves[Redact(t, secrets)] /\ ~Matched(l, secrets)
                                     <=> l \in Leaves[t] /\ ~Matched(l, secrets)
<1> DEFINE Same(t) == \A l : l \in Leaves[Redact(t, secrets)] /\ ~Matched(l, secrets)
                               <=> l \in Leaves[t] /\ ~Matched(l, secrets)
           T == {t \in Json : SecretsGone(Redact(t, secrets), secrets) /\ Same(t)}
<1>1. ASSUME NEW n \in 0..Nesting, NEW t \in JsonTo[n], Within(t) \subseteq T PROVE t \in T
  <2> DEFINE r == Redact(t, secrets)
  <2>0. t \in Json /\ r \in JsonTo[n]
    BY AllJson, RedactStays
  <2>00. r.kind = t.kind /\ DOMAIN r.items = DOMAIN t.items
    BY RedactAt
  <2>1. CASE ~Full(t)
    <3>1. r = t
      BY <2>1, RedactAt
    <3>2. \A l \in Leaves[t] : ~Matched(l, secrets)
      BY <2>0, <2>1, LeavesBare, BareIs
    <3> QED
      BY <2>0, <3>1, <3>2 DEF SecretsGone
  <2>2. CASE Full(t) /\ t.kind = "object"
    <3>0. Container(t) /\ Container(r) /\ Full(r)
      <4>1. DOMAIN t.items # {}
        BY <2>2, FullHas
      <4>2. DOMAIN <<>> = {}
        OBVIOUS
      <4> HIDE DEF r
      <4> QED
        BY <2>00, <2>2, <4>1, <4>2 DEF Full, Container
    <3>1. ASSUME NEW i \in DOMAIN t.items
          PROVE  /\ r.items[i].key = t.items[i].key
                 /\ r.items[i].value = IF Hides(secrets, t.items[i]) THEN Stars ELSE Redact(t.items[i].value, secrets)
                 /\ t.items[i].value \in T
      <4> DEFINE v == IF Hides(secrets, t.items[i]) THEN Stars ELSE Redact(t.items[i].value, secrets)
      <4>1. r.items[i] = [key |-> t.items[i].key, value |-> v]
        BY <2>2, RedactObject
      <4>2. t.items[i].value \in T
        BY <1>1, <2>2, <3>0, ItemsAre
      <4> HIDE DEF r, v, T
      <4>3. r.items[i].key = t.items[i].key /\ r.items[i].value = v
        BY <4>1
      <4> QED
        BY <4>2, <4>3 DEF v
    <3> HIDE DEF r
    <3>2. ASSUME NEW l \in Leaves[r] PROVE (Matched(l, secrets) => l.is \in {Stars, Null})
                                           /\ (~Matched(l, secrets) => l \in Leaves[t])
      <4>1. PICK i \in DOMAIN r.items : \E m \in Leaves[r.items[i].value] : l = Below(r.items[i].key, m)
        BY <2>0, <2>00, <2>2, <3>0, LeafFrom
      <4>2. PICK m \in Leaves[r.items[i].value] : l = Below(r.items[i].key, m)
        BY <4>1
      <4> DEFINE key == t.items[i].key
                 v == t.items[i].value
      <4>3. i \in DOMAIN t.items /\ r.items[i].key = key /\ v \in T
        BY <2>00, <3>1
      <4>4. l.is = m.is /\ (Matched(l, secrets) <=> Lower(key) \in secrets \/ Matched(m, secrets)) /\ l = Below(key, m)
        BY <2>0, <2>00, <2>2, <4>2, <4>3, EntryLeaves
      <4>5. CASE Hides(secrets, t.items[i])
        <5>1. r.items[i].value = Stars
          BY <3>1, <4>3, <4>5
        <5>2. Stars \in Json /\ ~Full(Stars)
          BY StarsAre, AllJson
        <5>3. m.is = Stars
          BY <4>2, <5>1, <5>2, LeavesBare, BareIs
        <5>4. Matched(l, secrets)
          BY <4>4, <4>5 DEF Hides
        <5> QED
          BY <4>4, <5>3, <5>4
      <4>6. CASE ~Hides(secrets, t.items[i])
        <5>1. m \in Leaves[Redact(v, secrets)]
          BY <3>1, <4>2, <4>3, <4>6
        <5>2. SecretsGone(Redact(v, secrets), secrets) /\ Same(v)
          BY <4>3
        <5>3. Matched(m, secrets) => m.is \in {Stars, Null}
          BY <5>1, <5>2 DEF SecretsGone
        <5>4. ~Matched(m, secrets) => m \in Leaves[v]
          BY <5>1, <5>2
        <5>5. Lower(key) \in secrets => m.is = Null
          <6> SUFFICES ASSUME Lower(key) \in secrets PROVE m.is = Null
            OBVIOUS
          <6>1. v = Null
            BY <4>6 DEF Hides
          <6>2. Null \in JsonTo[n] /\ ~Full(Null) /\ Null \in Json
            BY StarsAre, AllJson
          <6>3. Redact(Null, secrets) = Null
            BY <6>2, RedactAt
          <6> QED
            BY <5>1, <6>1, <6>2, <6>3, LeavesBare, BareIs
        <5>6. m \in Leaves[v] => l \in Leaves[t]
          BY <2>2, <4>3, <4>4, EntryLeaves
        <5> QED
          BY <4>4, <5>3, <5>4, <5>5, <5>6
      <4> QED
        BY <4>5, <4>6
    <3>3. ASSUME NEW l \in Leaves[t], ~Matched(l, secrets) PROVE l \in Leaves[r]
      <4>1. PICK i \in DOMAIN t.items : \E m \in Leaves[t.items[i].value] : l = Below(t.items[i].key, m)
        BY <2>2, LeafFrom
      <4>2. PICK m \in Leaves[t.items[i].value] : l = Below(t.items[i].key, m)
        BY <4>1
      <4>3. ~Matched(m, secrets) /\ Lower(t.items[i].key) \notin secrets
        BY <2>2, <3>3, <4>2, EntryLeaves
      <4>4. t.items[i].value \in T /\ r.items[i].value = Redact(t.items[i].value, secrets) /\ r.items[i].key = t.items[i].key
        BY <3>1, <4>3 DEF Hides
      <4>5. m \in Leaves[r.items[i].value]
        BY <4>2, <4>3, <4>4
      <4>6. Below(r.items[i].key, m) \in Leaves[r]
        BY <2>0, <2>00, <2>2, <4>5, EntryLeaves
      <4> QED
        BY <4>2, <4>4, <4>6
    <3>4. SecretsGone(r, secrets) /\ Same(t)
      BY <3>2, <3>3 DEF SecretsGone, r
    <3> QED
      BY <2>0, <3>4 DEF r
  <2>3. CASE Full(t) /\ t.kind = "array"
    <3>0. Container(t) /\ Container(r) /\ Full(r)
      <4>1. DOMAIN t.items # {}
        BY <2>3, FullHas
      <4>2. DOMAIN <<>> = {}
        OBVIOUS
      <4> HIDE DEF r
      <4> QED
        BY <2>00, <2>3, <4>1, <4>2 DEF Full, Container
    <3>1. ASSUME NEW i \in DOMAIN t.items
          PROVE  r.items[i] = Redact(t.items[i], secrets) /\ t.items[i] \in T
      <4>1. r.items[i] = Redact(t.items[i], secrets)
        BY <2>3, RedactArray
      <4>2. t.items[i] \in T
        BY <1>1, <2>3, <3>0, ItemsAre
      <4> QED
        BY <4>1, <4>2
    <3> HIDE DEF r
    <3>2. ASSUME NEW l \in Leaves[r] PROVE (Matched(l, secrets) => l.is \in {Stars, Null})
                                           /\ (~Matched(l, secrets) => l \in Leaves[t])
      <4>1. PICK i \in DOMAIN r.items : l \in Leaves[r.items[i]]
        BY <2>0, <2>00, <2>3, <3>0, LeafFrom
      <4>2. i \in DOMAIN t.items /\ l \in Leaves[Redact(t.items[i], secrets)] /\ t.items[i] \in T
        BY <2>00, <3>1, <4>1
      <4>3. ~Matched(l, secrets) => l \in Leaves[t.items[i]]
        BY <4>2
      <4> QED
        BY <2>3, <4>2, <4>3, ItemLeaves DEF SecretsGone
    <3>3. ASSUME NEW l \in Leaves[t], ~Matched(l, secrets) PROVE l \in Leaves[r]
      <4>1. PICK i \in DOMAIN t.items : l \in Leaves[t.items[i]]
        BY <2>3, LeafFrom
      <4>2. l \in Leaves[r.items[i]]
        BY <3>1, <3>3, <4>1
      <4> QED
        BY <2>0, <2>00, <2>3, <4>2, ItemLeaves
    <3>4. SecretsGone(r, secrets) /\ Same(t)
      BY <3>2, <3>3 DEF SecretsGone, r
    <3> QED
      BY <2>0, <3>4 DEF r
  <2> QED
    BY <2>1, <2>2, <2>3 DEF Full, Container
<1>2. Json \subseteq T
  <2> HIDE DEF T
  <2> QED
    BY <1>1, TreeInduction
<1> QED
  BY <1>2

\* A beginning shows no leaf of what is cut.
LEMMA BeginsLeaves ==
  ASSUME Nesting \in Nat, NEW n \in 0..Nesting, NEW w \in JsonTo[n], NEW v, Begins(v, w)
  PROVE  Leaves[v] \subseteq Leaves[w]
<1> SUFFICES ASSUME v # w PROVE Leaves[v] \subseteq Leaves[w]
  OBVIOUS
<1>1. Container(w) /\ \E k \in 1..Len(w.items) : v = FirstOf(w, k)
  BY DEF Begins
<1>2. PICK k \in 1..Len(w.items) : v = FirstOf(w, k)
  BY <1>1
<1>3. Len(w.items) \in Nat /\ DOMAIN w.items = 1..Len(w.items)
  BY <1>1, ItemsAre
<1>4. k \in 0..Len(w.items)
  BY <1>3
<1>5. /\ v \in JsonTo[n] /\ v.kind = w.kind /\ DOMAIN v.items = 1..k
      /\ \A i \in 1..k : v.items[i] = w.items[i]
  BY <1>1, <1>2, <1>4, FirstOfIs
<1>6. Full(v)
  <2>1. DOMAIN <<>> = {} /\ 1 \in 1..k
    BY <1>3
  <2> QED
    BY <1>1, <1>5, <2>1 DEF Full, Container
<1>7. \A i \in 1..k : i \in DOMAIN w.items
  BY <1>3
<1> SUFFICES ASSUME NEW l \in Leaves[v] PROVE l \in Leaves[w]
  OBVIOUS
<1>8. CASE w.kind = "array"
  <2>1. PICK i \in DOMAIN v.items : l \in Leaves[v.items[i]]
    BY <1>5, <1>6, <1>8, LeafFrom
  <2>2. i \in DOMAIN w.items /\ l \in Leaves[w.items[i]]
    BY <1>5, <1>7, <2>1
  <2> QED
    BY <1>8, <2>2, ItemLeaves
<1>9. CASE w.kind = "object"
  <2>1. PICK i \in DOMAIN v.items : \E m \in Leaves[v.items[i].value] : l = Below(v.items[i].key, m)
    BY <1>5, <1>6, <1>9, LeafFrom
  <2>2. PICK m \in Leaves[v.items[i].value] : l = Below(v.items[i].key, m)
    BY <2>1
  <2>3. i \in DOMAIN w.items /\ m \in Leaves[w.items[i].value] /\ l = Below(w.items[i].key, m)
    BY <1>5, <1>7, <2>1, <2>2
  <2> QED
    BY <1>9, <2>3, EntryLeaves
<1> QED
  BY <1>1, <1>8, <1>9 DEF Container

\* A cut hides what was hidden.
LEMMA CutHides ==
  ASSUME Nesting \in Nat, NEW n \in 0..Nesting, NEW t \in JsonTo[n], NEW secrets, SecretsGone(t, secrets),
         Truncated(t) # NONE
  PROVE  SecretsGone(Truncated(t), secrets)
<1> DEFINE so     == TakeEntries(t.items)
           enough == {k \in 0..Len(t.items) : Length[WithoutLast(t, so, k)] <= Limit}
           least  == CHOOSE k \in enough : \A m \in enough : k <= m
<1>1. Truncated(t) = IF Length[t] <= Limit    THEN t
                     ELSE IF t.kind = "array" THEN FittedTo(t, 0, Limit)
                     ELSE IF t.kind # "object" \/ so.kept = <<>> \/ enough = {} THEN NONE
                     ELSE WithoutLast(t, so, least)
  BY Zenon DEF Truncated
<1> HIDE DEF so, enough, least
<1>2. CASE Truncated(t) = t
  BY <1>2
<1>3. CASE t.kind = "array" /\ Truncated(t) = FittedTo(t, 0, Limit)
  <2>0. Container(t)
    BY <1>3 DEF Container
  <2>1. PICK k \in 1..Len(t.items) : FittedTo(t, 0, Limit) = FirstOf(t, k)
    BY <1>3, <2>0, FittedIs
  <2>2. Begins(Truncated(t), t)
    BY <1>3, <2>0, <2>1 DEF Begins
  <2>3. Leaves[Truncated(t)] \subseteq Leaves[t]
    BY <2>2, BeginsLeaves
  <2> QED
    BY <2>3 DEF SecretsGone
<1>4. CASE t.kind = "object" /\ Truncated(t) = WithoutLast(t, so, least)
  <2> DEFINE S == [key : JsonKeys, value : JsonTo[n - 1]]
             c == WithoutLast(t, so, least)
  <2>0. Container(t) /\ t.items \in Seq(S) /\ n - 1 \in 0..Nesting
    <3>1. Container(t)
      BY <1>4 DEF Container
    <3>2. t.items \in Seq(S)
      BY <1>4, TreeIs DEF TreeOf, Members
    <3> QED
      BY <3>1, <3>2, ItemsAre
  <2>1. Taken(so, t.items, Len(t.items), n - 1)
    BY <2>0, TakenIs DEF so
  <2>2. so.kept \in Seq(S) /\ DOMAIN t.items = 1..Len(t.items)
    BY <2>0, <2>1, ItemsAre DEF Taken
  <2>3. /\ c.kind = t.kind
        /\ \A j \in DOMAIN c.items :
             c.items[j].key \notin GoneOf(t, so, least) /\ \E x \in DOMAIN so.kept : c.items[j] = so.kept[x]
    BY <1>4, <2>2, WithoutLastIs
  <2>4. c \in JsonTo[n]
    BY <1>4, <2>2, WithoutLastIs
  <2> HIDE DEF c
  <2>5. ASSUME NEW l \in Leaves[c], Matched(l, secrets) PROVE l.is \in {Stars, Null}
    <3>1. Full(c)
      BY <2>4, <2>5, LeafFrom, BareIs, AllJson, LeavesBare
    <3>2. PICK j \in DOMAIN c.items : \E m \in Leaves[c.items[j].value] : l = Below(c.items[j].key, m)
      BY <1>4, <2>3, <2>4, <3>1, LeafFrom
    <3>3. PICK m \in Leaves[c.items[j].value] : l = Below(c.items[j].key, m)
      BY <3>2
    <3>4. PICK x \in DOMAIN so.kept : c.items[j] = so.kept[x]
      BY <2>3
    <3>5. PICK y \in 1..Len(t.items) : so.kept[x].key = t.items[y].key /\ Begins(so.kept[x].value, t.items[y].value)
      BY <2>1 DEF Taken
    <3>6. t.items[y].value \in JsonTo[n - 1]
      BY <1>4, <2>0, <2>2, ItemsAre
    <3>7. m \in Leaves[t.items[y].value]
      BY <2>0, <3>3, <3>4, <3>5, <3>6, BeginsLeaves
    <3>8. l = Below(t.items[y].key, m)
      BY <3>3, <3>4, <3>5
    <3>9. l \in Leaves[t]
      BY <1>4, <2>2, <3>7, <3>8, EntryLeaves
    <3> QED
      BY <2>5, <3>9 DEF SecretsGone
  <2> QED
    BY <1>4, <2>5 DEF SecretsGone, c
<1> QED
  BY <1>1, <1>2, <1>3, <1>4

\* Sets that are each within a number are together within the sum.
LEMMA UnionSum ==
  ASSUME NEW s, Len(s) \in Nat, NEW p,
         \A i \in 1..Len(s) : s[i] \in Nat /\ IsFiniteSet(p[i]) /\ Cardinality(p[i]) <= s[i]
  PROVE  IsFiniteSet(UNION {p[i] : i \in 1..Len(s)}) /\ Cardinality(UNION {p[i] : i \in 1..Len(s)}) <= SumOf(s)
<1>1. PICK f : /\ f[0] = 0
               /\ \A n \in 1..Len(s) : f[n] = f[n - 1] + s[n]
               /\ SumOf(s) = f[Len(s)]
  BY SumSteps
<1> DEFINE Upto(n) == UNION {p[i] : i \in 1..n}
           T == {n \in Nat : n <= Len(s) => f[n] \in Nat /\ IsFiniteSet(Upto(n)) /\ Cardinality(Upto(n)) <= f[n]}
<1>2. 0 \in T
  <2>1. Upto(0) = {}
    OBVIOUS
  <2>2. IsFiniteSet({}) /\ Cardinality({}) = 0
    BY FS_EmptySet
  <2>3. f[0] \in Nat /\ IsFiniteSet(Upto(0)) /\ Cardinality(Upto(0)) <= f[0]
    <3>1. f[0] = 0
      BY <1>1
    <3>2. IsFiniteSet(Upto(0)) /\ Cardinality(Upto(0)) = 0
      BY <2>1, <2>2, Zenon
    <3> HIDE DEF Upto
    <3> QED
      BY <3>1, <3>2
  <2> QED
    BY <2>3
<1>3. ASSUME NEW n \in T PROVE n + 1 \in T
  <2>1. n \in Nat /\ n + 1 \in Nat /\ (n + 1) - 1 = n
    OBVIOUS
  <2> SUFFICES ASSUME n + 1 <= Len(s)
               PROVE  f[n + 1] \in Nat /\ IsFiniteSet(Upto(n + 1)) /\ Cardinality(Upto(n + 1)) <= f[n + 1]
    BY <2>1
  <2>2. f[n] \in Nat /\ IsFiniteSet(Upto(n)) /\ Cardinality(Upto(n)) <= f[n] /\ n + 1 \in 1..Len(s)
    BY <2>1
  <2>3. f[n + 1] = f[n] + s[n + 1] /\ s[n + 1] \in Nat
    BY <1>1, <2>1, <2>2
  <2>4. Upto(n + 1) = Upto(n) \cup p[n + 1]
    <3>1. \A i : i \in 1..(n + 1) <=> i \in 1..n \/ i = n + 1
      BY <2>1
    <3> QED
      BY <3>1
  <2>5. IsFiniteSet(p[n + 1]) /\ Cardinality(p[n + 1]) <= s[n + 1]
    BY <2>2
  <2> HIDE DEF Upto
  <2> DEFINE A == Upto(n)
             B == p[n + 1]
  <2>9. f[n + 1] \in Nat
    BY <2>2, <2>3
  <2>6. IsFiniteSet(A \cup B) /\ Cardinality(A \cup B) = Cardinality(A) + Cardinality(B) - Cardinality(A \cap B)
    BY <2>2, <2>5, FS_Union
  <2>7. IsFiniteSet(A \cap B)
    BY <2>2, FS_Subset
  <2>8. Cardinality(A) \in Nat /\ Cardinality(B) \in Nat /\ Cardinality(A \cap B) \in Nat
    BY <2>2, <2>5, <2>7, FS_CardinalityType
  <2>10. Cardinality(A) <= f[n] /\ Cardinality(B) <= s[n + 1] /\ Upto(n + 1) = A \cup B
    BY <2>2, <2>4, <2>5
  <2> HIDE DEF A, B
  <2>11. Cardinality(A \cup B) <= f[n + 1]
    BY <2>2, <2>3, <2>6, <2>8, <2>10
  <2> QED
    BY <2>6, <2>9, <2>10, <2>11
<1>4. Len(s) \in T
  <2>1. T \in SUBSET Nat
    OBVIOUS
  <2> HIDE DEF T
  <2> QED
    BY <1>2, <1>3, <2>1, AllNat
<1> QED
  BY <1>1, <1>4

\* What is counted for an item: itself, if it is masked, and what is inside.
Share(t, i, secrets) ==
  IF t.kind = "object" THEN (IF Hides(secrets, t.items[i]) THEN 1 ELSE 0) + CountTargets(t.items[i].value, secrets)
  ELSE CountTargets(t.items[i], secrets)

\* The count of a container is the sum of those.
LEMMA TargetsSum ==
  ASSUME Nesting \in Nat, NEW secrets, NEW n \in 0..Nesting, NEW t \in JsonTo[n], Container(t),
         \A c \in Within(t) : CountTargets(c, secrets) \in Nat
  PROVE  \E s : /\ Len(s) = Len(t.items) /\ CountTargets(t, secrets) = SumOf(s)
                /\ \A i \in 1..Len(t.items) : s[i] \in Nat /\ s[i] = Share(t, i, secrets)
<1> DEFINE s == [i \in DOMAIN t.items |-> Share(t, i, secrets)]
<1>1. Len(t.items) \in Nat /\ DOMAIN t.items = 1..Len(t.items) /\ t \in Json
  BY ItemsAre, AllJson
<1>2. CountTargets(t, secrets) = TargetsOf(Targets(secrets), t, secrets)
  BY <1>1, TargetsAre DEF CountTargets
<1>3. CountTargets(t, secrets) = SumOf(s)
  <2>1. CASE t.kind = "object"
    <3> DEFINE f == [i \in DOMAIN t.items |->
                      (IF Hides(secrets, t.items[i]) THEN 1 ELSE 0) + Targets(secrets)[t.items[i].value]]
    <3>1. CountTargets(t, secrets) = SumOf(f)
      BY <1>2, <2>1 DEF TargetsOf
    <3>2. f = s
      BY <2>1 DEF Share, CountTargets
    <3> QED
      BY <3>1, <3>2
  <2>2. CASE t.kind = "array"
    <3> DEFINE f == [i \in DOMAIN t.items |-> Targets(secrets)[t.items[i]]]
    <3>1. CountTargets(t, secrets) = SumOf(f)
      BY <1>2, <2>2 DEF TargetsOf
    <3>2. f = s
      BY <2>2 DEF Share, CountTargets
    <3> QED
      BY <3>1, <3>2
  <2> QED
    BY <2>1, <2>2 DEF Container
<1>4. ASSUME NEW i \in 1..Len(t.items) PROVE s[i] \in Nat /\ s[i] = Share(t, i, secrets)
  <2>1. s[i] = Share(t, i, secrets)
    BY <1>1
  <2>2. CASE t.kind = "object"
    <3>1. t.items[i].value \in Within(t)
      BY <1>1, <2>2, ItemsAre
    <3>2. CountTargets(t.items[i].value, secrets) \in Nat
      BY <3>1
    <3> HIDE DEF s
    <3> QED
      BY <2>1, <2>2, <3>2 DEF Share
  <2>3. CASE t.kind = "array"
    <3>1. t.items[i] \in Within(t)
      BY <1>1, <2>3, ItemsAre
    <3>2. CountTargets(t.items[i], secrets) \in Nat
      BY <3>1
    <3> HIDE DEF s
    <3> QED
      BY <2>1, <2>3, <3>2 DEF Share
  <2> QED
    BY <2>2, <2>3 DEF Container
<1>5. Len(s) = Len(t.items)
  <2>1. s \in [1..Len(t.items) -> Nat]
    BY <1>1, <1>4
  <2> HIDE DEF s
  <2> QED
    BY <1>1, <2>1, IsSeq
<1> HIDE DEF s
<1> QED
  BY <1>3, <1>4, <1>5

\* The metric counts natural numbers of values.
LEMMA TargetsNat ==
  ASSUME Nesting \in Nat, NEW secrets
  PROVE  \A t \in Json : CountTargets(t, secrets) \in Nat
<1> DEFINE T == {t \in Json : CountTargets(t, secrets) \in Nat}
<1>1. ASSUME NEW n \in 0..Nesting, NEW t \in JsonTo[n], Within(t) \subseteq T PROVE t \in T
  <2>0. t \in Json
    BY AllJson
  <2>1. CASE Container(t)
    <3>0. \A c \in Within(t) : CountTargets(c, secrets) \in Nat
      BY <1>1
    <3>1. PICK s : /\ Len(s) = Len(t.items) /\ CountTargets(t, secrets) = SumOf(s)
                   /\ \A i \in 1..Len(t.items) : s[i] \in Nat /\ s[i] = Share(t, i, secrets)
      BY <2>1, <3>0, TargetsSum
    <3>2. Len(s) \in Nat /\ \A i \in 1..Len(s) : s[i] \in Nat
      BY <2>1, <3>1, ItemsAre
    <3>3. SumOf(s) \in Nat
      BY <3>2, SumIs
    <3> QED
      BY <2>0, <3>1, <3>3
  <2>2. CASE ~Container(t)
    <3>1. CountTargets(t, secrets) = TargetsOf(Targets(secrets), t, secrets)
      BY <2>0, TargetsAre DEF CountTargets
    <3>2. CountTargets(t, secrets) = 0
      BY <2>2, <3>1 DEF TargetsOf, Container
    <3> QED
      BY <2>0, <3>2
  <2> QED
    BY <2>1, <2>2
<1>2. Json \subseteq T
  <2> HIDE DEF T
  <2> QED
    BY <1>1, TreeInduction
<1> QED
  BY <1>2

\* The leaves that are masked.
StarLeaves(t) == {l \in Leaves[t] : l.is = Stars}
Unstarred(t)  == \A l \in Leaves[t] : l.is # Stars

\* They are no more below a key than without it.
LEMMA StarsBelow ==
  ASSUME NEW key, NEW leaves, IsFiniteSet(leaves)
  PROVE  /\ IsFiniteSet({Below(key, m) : m \in leaves})
         /\ Cardinality({Below(key, m) : m \in leaves}) <= Cardinality(leaves)
<1> DEFINE f == [m \in leaves |-> Below(key, m)]
<1>1. DOMAIN f = leaves
  OBVIOUS
<1>2. ValuesOf(f) = {Below(key, m) : m \in leaves}
  BY DEF ValuesOf
<1>3. IsFiniteSet(DOMAIN f)
  BY <1>1, Zenon
<1>4. IsFiniteSet(ValuesOf(f)) /\ Cardinality(ValuesOf(f)) <= Cardinality(DOMAIN f)
  <2> HIDE DEF f
  <2> QED
    BY <1>3, ValuesFinite
<1> HIDE DEF f
<1> QED
  BY <1>1, <1>2, <1>4

\* The metric counts no fewer values than are masked.
LEMMA StarsCounted ==
  ASSUME Nesting \in Nat, NEW secrets
  PROVE  \A t \in Json : Unstarred(t) =>
           /\ IsFiniteSet(StarLeaves(Redact(t, secrets)))
           /\ Cardinality(StarLeaves(Redact(t, secrets))) <= CountTargets(t, secrets)
<1> DEFINE Counted(t) == /\ IsFiniteSet(StarLeaves(Redact(t, secrets)))
                         /\ Cardinality(StarLeaves(Redact(t, secrets))) <= CountTargets(t, secrets)
           T == {t \in Json : Unstarred(t) => Counted(t)}
<1>1. ASSUME NEW n \in 0..Nesting, NEW t \in JsonTo[n], Within(t) \subseteq T PROVE t \in T
  <2> DEFINE r == Redact(t, secrets)
  <2>0. t \in Json /\ r \in JsonTo[n] /\ r.kind = t.kind /\ DOMAIN r.items = DOMAIN t.items
    BY AllJson, RedactStays, RedactAt
  <2> SUFFICES ASSUME Unstarred(t) PROVE Counted(t)
    BY <2>0
  <2>1. CASE ~Full(t)
    <3>1. r = t
      BY <2>1, RedactAt
    <3>2. StarLeaves(r) = {}
      BY <3>1 DEF StarLeaves, Unstarred
    <3>3. CountTargets(t, secrets) \in Nat
      BY <2>0, TargetsNat
    <3>4. IsFiniteSet({}) /\ Cardinality({}) = 0
      BY FS_EmptySet
    <3>5. IsFiniteSet(StarLeaves(r)) /\ Cardinality(StarLeaves(r)) = 0
      BY <3>2, <3>4, Zenon
    <3> HIDE DEF r
    <3>6. 0 <= CountTargets(t, secrets)
      BY <3>3
    <3> QED
      BY <3>5, <3>6 DEF r
  <2>2. CASE Full(t)
    <3>0. Container(t)
      BY <2>2 DEF Full
    <3>1. \A c \in Within(t) : CountTargets(c, secrets) \in Nat
      BY <1>1, TargetsNat
    <3>2. PICK s : /\ Len(s) = Len(t.items) /\ CountTargets(t, secrets) = SumOf(s)
                   /\ \A i \in 1..Len(t.items) : s[i] \in Nat /\ s[i] = Share(t, i, secrets)
      BY <3>0, <3>1, TargetsSum
    <3>3. Len(s) \in Nat /\ DOMAIN t.items = 1..Len(s)
      BY <3>0, <3>2, ItemsAre
    <3> DEFINE p == [i \in 1..Len(s) |->
                       IF t.kind = "object"
                       THEN {Below(t.items[i].key, m) : m \in StarLeaves(r.items[i].value)}
                       ELSE StarLeaves(r.items[i])]
               U == UNION {p[i] : i \in 1..Len(s)}
    <3>4. ASSUME NEW i \in 1..Len(s) PROVE s[i] \in Nat /\ IsFiniteSet(p[i]) /\ Cardinality(p[i]) <= s[i]
      <4>0. s[i] \in Nat /\ s[i] = Share(t, i, secrets) /\ i \in DOMAIN t.items
        BY <3>2, <3>3
      <4>1. CASE t.kind = "object"
        <5> DEFINE v == t.items[i].value
                   leaves == StarLeaves(r.items[i].value)
        <5>1. v \in T /\ v \in JsonTo[n - 1] /\ v \in Json /\ CountTargets(v, secrets) \in Nat
          BY <1>1, <3>0, <3>1, <4>0, <4>1, ItemsAre
        <5>2. r.items[i] = [key   |-> t.items[i].key,
                            value |-> IF Hides(secrets, t.items[i]) THEN Stars ELSE Redact(v, secrets)]
          BY <4>0, <4>1, RedactObject
        <5>3. r.items[i].value = IF Hides(secrets, t.items[i]) THEN Stars ELSE Redact(v, secrets)
          <6> DEFINE w == IF Hides(secrets, t.items[i]) THEN Stars ELSE Redact(v, secrets)
          <6>1. r.items[i] = [key |-> t.items[i].key, value |-> w]
            BY <5>2
          <6> HIDE DEF w, r
          <6>2. r.items[i].value = w
            BY <6>1
          <6> QED
            BY <6>2 DEF w
        <5>4. IsFiniteSet(leaves) /\ Cardinality(leaves) <= s[i]
          <6>1. CASE Hides(secrets, t.items[i])
            <7>1. Stars \in Json /\ ~Full(Stars)
              BY StarsAre, AllJson
            <7>2. StarLeaves(Stars) = {[keys |-> <<>>, is |-> Stars]}
              BY <7>1, LeavesBare DEF StarLeaves
            <7>3. IsFiniteSet(StarLeaves(Stars)) /\ Cardinality(StarLeaves(Stars)) = 1
              BY <7>2, FS_Singleton, Zenon
            <7>4. s[i] = 1 + CountTargets(v, secrets)
              BY <4>0, <4>1, <6>1 DEF Share
            <7>5. r.items[i].value = Stars
              BY <5>3, <6>1
            <7>6. IsFiniteSet(leaves) /\ Cardinality(leaves) = 1
              BY <7>3, <7>5, Zenon
            <7> HIDE DEF leaves, v
            <7> QED
              BY <5>1, <7>4, <7>6
          <6>2. CASE ~Hides(secrets, t.items[i])
            <7>1. r.items[i].value = Redact(v, secrets)
              BY <5>3, <6>2
            <7>2. s[i] = CountTargets(v, secrets)
              BY <4>0, <4>1, <5>1, <6>2 DEF Share
            <7>3. Unstarred(v)
              <8> SUFFICES ASSUME NEW m \in Leaves[v] PROVE m.is # Stars
                BY DEF Unstarred
              <8>1. Below(t.items[i].key, m) \in Leaves[t] /\ Below(t.items[i].key, m).is = m.is
                BY <4>0, <4>1, EntryLeaves
              <8> QED
                BY <8>1 DEF Unstarred
            <7>4. Counted(v)
              BY <5>1, <7>3
            <7> QED
              BY <7>1, <7>2, <7>4
          <6> QED
            BY <6>1, <6>2
        <5>5. p[i] = {Below(t.items[i].key, m) : m \in leaves}
          BY <4>1
        <5> DEFINE image == {Below(t.items[i].key, m) : m \in leaves}
        <5> HIDE DEF leaves, p
        <5>6. IsFiniteSet(image) /\ Cardinality(image) <= Cardinality(leaves)
          BY <5>4, StarsBelow
        <5>7. Cardinality(image) \in Nat /\ Cardinality(leaves) \in Nat
          BY <5>4, <5>6, FS_CardinalityType
        <5>8. p[i] = image
          BY <5>5
        <5> HIDE DEF image
        <5> QED
          BY <4>0, <5>4, <5>6, <5>7, <5>8
      <4>2. CASE t.kind = "array"
        <5>1. t.items[i] \in T
          BY <1>1, <3>0, <4>0, <4>2, ItemsAre
        <5>2. r.items[i] = Redact(t.items[i], secrets)
          BY <4>0, <4>2, RedactArray
        <5>3. Unstarred(t.items[i])
          BY <4>0, <4>2, ItemLeaves DEF Unstarred
        <5>4. Counted(t.items[i])
          BY <5>1, <5>3
        <5>5. p[i] = StarLeaves(Redact(t.items[i], secrets)) /\ s[i] = CountTargets(t.items[i], secrets)
          BY <4>0, <4>2, <5>2 DEF Share
        <5> QED
          BY <4>0, <5>4, <5>5
      <4> QED
        BY <3>0, <4>1, <4>2 DEF Container
    <3>5. IsFiniteSet(U) /\ Cardinality(U) <= SumOf(s)
      <4> HIDE DEF p
      <4> QED
        BY <3>3, <3>4, UnionSum
    <3>6. ASSUME NEW l \in StarLeaves(r) PROVE l \in U
      <4>0. l \in Leaves[r] /\ l.is = Stars
        BY DEF StarLeaves
      <4>1. Full(r)
        <5>1. DOMAIN t.items # {} /\ DOMAIN <<>> = {}
          BY <2>2, FullHas
        <5> HIDE DEF r
        <5> QED
          BY <2>0, <3>0, <5>1 DEF Full, Container
      <4> HIDE DEF r
      <4>2. CASE t.kind = "object"
        <5>1. PICK i \in DOMAIN r.items : \E m \in Leaves[r.items[i].value] : l = Below(r.items[i].key, m)
          BY <2>0, <4>0, <4>1, <4>2, LeafFrom
        <5>2. PICK m \in Leaves[r.items[i].value] : l = Below(r.items[i].key, m)
          BY <5>1
        <5>3. m.is = Stars
          BY <2>0, <4>0, <4>2, <5>2, EntryLeaves
        <5>4. r.items[i].key = t.items[i].key
          <6>1. r.items[i] = [key   |-> t.items[i].key,
                              value |-> IF Hides(secrets, t.items[i]) THEN Stars ELSE Redact(t.items[i].value, secrets)]
            BY <2>0, <4>2, RedactObject DEF r
          <6> QED
            BY <6>1
        <5>5. m \in StarLeaves(r.items[i].value)
          BY <5>2, <5>3 DEF StarLeaves
        <5>6. i \in 1..Len(s)
          BY <2>0, <3>3
        <5>7. l \in p[i]
          BY <4>2, <5>2, <5>4, <5>5, <5>6
        <5> HIDE DEF p
        <5> QED
          BY <5>6, <5>7
      <4>3. CASE t.kind = "array"
        <5>1. PICK i \in DOMAIN r.items : l \in Leaves[r.items[i]]
          BY <2>0, <4>0, <4>1, <4>3, LeafFrom
        <5>2. i \in 1..Len(s)
          BY <2>0, <3>3
        <5>3. l \in p[i]
          BY <4>0, <4>3, <5>1, <5>2 DEF StarLeaves
        <5> HIDE DEF p
        <5> QED
          BY <5>2, <5>3
      <4> QED
        BY <3>0, <4>2, <4>3 DEF Container
    <3>7. StarLeaves(r) \subseteq U
      <4> HIDE DEF r, U
      <4> QED
        BY <3>6
    <3> HIDE DEF U, p, r
    <3>8. StarLeaves(r) \in SUBSET U
      BY <3>7
    <3>9. IsFiniteSet(StarLeaves(r)) /\ Cardinality(StarLeaves(r)) <= Cardinality(U)
      BY <3>5, <3>8, FS_Subset
    <3>10. Cardinality(StarLeaves(r)) \in Nat /\ Cardinality(U) \in Nat /\ CountTargets(t, secrets) \in Nat
      BY <2>0, <3>5, <3>9, FS_CardinalityType, TargetsNat
    <3>11. Cardinality(StarLeaves(r)) <= CountTargets(t, secrets)
      BY <3>2, <3>5, <3>9, <3>10
    <3> QED
      BY <3>9, <3>11 DEF r
  <2> QED
    BY <2>1, <2>2
<1>2. Json \subseteq T
  <2> HIDE DEF T
  <2> QED
    BY <1>1, TreeInduction
<1> QED
  BY <1>2

\* Nothing is masked yet of what an API sends,
LEMMA ReadUnstarred ==
  ASSUME Nesting \in Nat
  PROVE  \A n \in 0..Nesting : \A t \in ReadTo[n] : Unstarred(t)
<1> DEFINE T == {q \in (0..Nesting) \X Json : q[2] \in ReadTo[q[1]] => Unstarred(q[2])}
<1>1. ASSUME NEW n \in 0..Nesting, NEW t \in JsonTo[n], \A c \in Within(t) : <<n - 1, c>> \in T,
             t \in ReadTo[n], NEW l \in Leaves[t]
      PROVE  l.is # Stars
  <2>1. CASE ~Full(t) /\ l = [keys |-> <<>>, is |-> t]
    <3>1. t.kind \in {"leaf", "null", "object", "array"}
      BY <1>1, ReadIs
    <3>2. Stars.kind = "***"
      BY DEF Stars, Tree
    <3>3. l.is = t
      BY <2>1, BareIs
    <3> QED
      BY <3>1, <3>2, <3>3
  <2>2. CASE t.kind = "array" /\ \E i \in DOMAIN t.items : l \in Leaves[t.items[i]]
    <3>1. PICK i \in DOMAIN t.items : l \in Leaves[t.items[i]]
      BY <2>2
    <3>2. t.items[i] \in ReadTo[n - 1]
      BY <1>1, <2>2, ReadIs
    <3>3. t.items[i] \in Within(t)
      BY <2>2, ItemsAre DEF Container
    <3>4. Unstarred(t.items[i])
      BY <1>1, <3>2, <3>3
    <3> QED
      BY <3>1, <3>4 DEF Unstarred
  <2>3. CASE t.kind = "object" /\ \E i \in DOMAIN t.items : \E m \in Leaves[t.items[i].value] : l = Below(t.items[i].key, m)
    <3>0. PICK i \in DOMAIN t.items : \E m \in Leaves[t.items[i].value] : l = Below(t.items[i].key, m)
      BY <2>3
    <3>1. PICK m \in Leaves[t.items[i].value] : l = Below(t.items[i].key, m)
      BY <3>0
    <3>2. t.items[i].value \in ReadTo[n - 1]
      BY <1>1, <2>3, ReadIs
    <3>3. t.items[i].value \in Within(t)
      BY <2>3, ItemsAre DEF Container
    <3>4. Unstarred(t.items[i].value)
      BY <1>1, <3>2, <3>3
    <3>5. l.is = m.is
      BY <2>3, <3>1, EntryLeaves
    <3> QED
      BY <3>1, <3>4, <3>5 DEF Unstarred
  <2> QED
    BY <2>1, <2>2, <2>3, LeafFrom
<1>2. \A n \in 0..Nesting : \A t \in JsonTo[n] : (\A c \in Within(t) : <<n - 1, c>> \in T) => <<n, t>> \in T
  BY <1>1, AllJson DEF Unstarred
<1>3. \A n \in 0..Nesting : \A t \in JsonTo[n] : <<n, t>> \in T
  <2> HIDE DEF T
  <2> QED
    BY <1>2, LevelInduction
<1>4. \A n \in 0..Nesting : ReadTo[n] \subseteq JsonTo[n]
  BY ReadIsJson
<1> QED
  BY <1>3, <1>4

\* nor of what --fields keeps of it.
LEMMA ProjectUnstarred ==
  ASSUME Nesting \in Nat, NEW fields, NEW t \in Json, Unstarred(t)
  PROVE  Unstarred(Project(t, fields))
<1> DEFINE r == Project(t, fields)
<1>0. Nesting \in 0..Nesting /\ t \in JsonTo[Nesting]
  BY DEF Json
<1>1. r \in Json /\ KeptLeaves(r, t, fields)
  BY <1>0, ProjectStays, AllJson, ProjectLeaves
<1>2. CASE Full(r)
  BY <1>1, <1>2 DEF KeptLeaves, Unstarred
<1>3. CASE ~Full(r) /\ Container(t)
  <2>1. PICK from : KeepsThose(r, t, fields, from)
    BY <1>0, <1>3, ProjectAt
  <2>2. r.kind \in {"object", "array"}
    BY <1>3, <2>1 DEF KeepsThose, Container
  <2>3. Stars.kind = "***"
    BY DEF Stars, Tree
  <2>4. r # Stars
    BY <2>2, <2>3
  <2>5. Leaves[r] = {[keys |-> <<>>, is |-> r]}
    BY <1>1, <1>3, LeavesBare
  <2> HIDE DEF r
  <2> QED
    BY <2>4, <2>5 DEF Unstarred, r
<1>4. CASE ~Container(t)
  BY <1>4, ProjectScalar
<1> QED
  BY <1>2, <1>3, <1>4

\* Whatever is shown of an answer in JSON, in its text or as structured content, is masked.
LEMMA PayloadMasked ==
  ASSUME NEW promised \in BOOLEAN, NEW a \in Answers, NEW fields, NEW secrets, NEW format, a.json # NONE,
         NEW tree, tree # NONE,
         tree \in {PayloadFor(promised, Shaped(a, fields, secrets), format).text,
                   PayloadFor(promised, Shaped(a, fields, secrets), format).structured}
  PROVE  SecretsGone(tree, secrets)
<1> DEFINE sh   == Shaped(a, fields, secrets)
           body == Converted(sh, format)
           p    == PayloadFor(promised, sh, format)
<1>1. body = sh /\ sh.json # NONE /\ sh.status = a.status
  BY ConvertedIs, ShapedIs
<1>2. PayloadIs(p, promised, a, sh, body)
  BY PayloadsAre
<1>3. sh.json \in Json /\ SecretsGone(sh.json, secrets)
  BY NestingIs, ShapedIs, RedactMasks
<1>4. a.status \in Nat
  BY AnswersAssumption
<1> HIDE DEF sh, body, p
<1>5. Text(sh) = Truncated(sh.json) /\ Text(body) = Truncated(sh.json)
  BY <1>1 DEF Text
<1>6. Truncated(sh.json) # NONE => SecretsGone(Truncated(sh.json), secrets)
  BY <1>3, NestingIs, CutHides
<1>7. SecretsGone(Tree(Category(a.status), 1, <<>>), secrets)
  <2> DEFINE e == Tree(Category(a.status), 1, <<>>)
  <2>1. ~Container(e) /\ e \in Json
    BY <1>4, CategoryIs
  <2> HIDE DEF e
  <2>2. Leaves[e] = {[keys |-> <<>>, is |-> e]}
    BY <2>1, NestingIs, LeavesBare DEF Full
  <2>3. \A l \in Leaves[e] : ~Matched(l, secrets)
    BY <2>2, BareIs
  <2> QED
    BY <2>3 DEF SecretsGone, e
<1>8. tree \in {p.text, p.structured}
  BY DEF p, sh
<1>9. CASE p = ErrorPayload(sh)
  <2>1. p.text = Truncated(sh.json) /\ p.structured = Tree(Category(a.status), 1, <<>>)
    BY <1>1, <1>5, <1>9, ErrorIs
  <2> QED
    BY <1>6, <1>7, <1>8, <2>1
<1>10. CASE p \in {Payload("empty", FALSE, NONE, NONE), Payload("binary", FALSE, NONE, NONE),
                   Payload("not JSON", TRUE, NONE, NONE)}
  <2>0. ASSUME NEW reads, NEW isError, NEW q, q = Payload(reads, isError, NONE, NONE)
        PROVE  q.text = NONE /\ q.structured = NONE
    BY <2>0 DEF Payload
  <2>1. p.text = NONE /\ p.structured = NONE
    BY <1>10, <2>0
  <2> QED
    BY <1>8, <2>1
<1>11. CASE p = Payload("page", FALSE, Excerpted(sh), NONE)
  BY <1>3, <1>8, <1>11 DEF Payload, Excerpted
<1>12. CASE p = Payload("success", FALSE, Text(body), IF promised THEN body.json ELSE NONE)
  <2>1. p.text = Truncated(sh.json) /\ p.structured = IF promised THEN body.json ELSE NONE
    BY <1>5, <1>12 DEF Payload
  <2> QED
    BY <1>1, <1>3, <1>6, <1>8, <2>1
<1> QED
  BY <1>2, <1>9, <1>10, <1>11, <1>12 DEF PayloadIs

\* So the secrets of any answer are masked.
LEMMA AnswerMasked ==
  ASSUME NEW promised \in BOOLEAN, NEW a \in Answers, NEW fields, NEW secrets, NEW format
  PROVE  /\ SecretsMasked(a, fields, secrets, PayloadFor(promised, Shaped(a, fields, secrets), format))
         /\ a.json # NONE => ProjectsExactly(a.json, fields)
<1> SUFFICES ASSUME a.json # NONE
             PROVE  /\ SecretsMasked(a, fields, secrets, PayloadFor(promised, Shaped(a, fields, secrets), format))
                    /\ ProjectsExactly(a.json, fields)
  BY DEF SecretsMasked
<1> DEFINE shaped == Shaped(a, fields, secrets).json
           kept   == KeptOfAnswer(a, fields)
           p      == PayloadFor(promised, Shaped(a, fields, secrets), format)
<1>1. shaped = Redact(kept, secrets) /\ kept \in Json /\ a.json \in ReadTo[Nesting] /\ a.json \in Json
  BY ShapedIs
<1>2. ProjectsExactly(a.json, fields)
  <2>1. a.json.left = <<>>
    BY <1>1, NestingIs, ReadIs
  <2> QED
    BY <1>1, <2>1, NestingIs, ProjectsThose
<1>3. Unstarred(kept)
  <2>1. Unstarred(a.json)
    BY <1>1, NestingIs, ReadUnstarred
  <2>2. Unstarred(Project(a.json, fields))
    BY <1>1, <2>1, NestingIs, ProjectUnstarred
  <2> QED
    BY <2>1, <2>2 DEF KeptOfAnswer
<1>4. Cardinality(StarLeaves(shaped)) <= CountTargets(kept, secrets)
  <2>1. Cardinality(StarLeaves(Redact(kept, secrets))) <= CountTargets(kept, secrets)
    BY <1>1, <1>3, NestingIs, StarsCounted
  <2> QED
    BY <1>1, <2>1
<1>5. {l \in Leaves[shaped] : ~Matched(l, secrets)} = {l \in Leaves[kept] : ~Matched(l, secrets)}
  <2>1. \A l : l \in Leaves[Redact(kept, secrets)] /\ ~Matched(l, secrets)
                 <=> l \in Leaves[kept] /\ ~Matched(l, secrets)
    BY <1>1, NestingIs, RedactMasks
  <2> HIDE DEF shaped, kept
  <2> QED
    BY <1>1, <2>1
<1>6. \A tree \in {p.text, p.structured} \ {NONE} : SecretsGone(tree, secrets)
  BY PayloadMasked
<1> HIDE DEF shaped, kept, p
<1>7. \A tree \in {p.text, p.structured} \ {NONE} : \A l \in Leaves[tree] :
        Secret(l, Findable(secrets)) => l.is \in {Stars, Null}
  BY <1>6, MatchedIs, Zenon DEF SecretsGone
<1>8. {l \in Leaves[shaped] : ~Secret(l, Findable(secrets))} = {l \in Leaves[kept] : ~Secret(l, Findable(secrets))}
  <2>1. \A l : Secret(l, Findable(secrets)) <=> Matched(l, secrets)
    BY MatchedIs
  <2> QED
    BY <1>5, <2>1
<1>9. SecretsMasked(a, fields, secrets, p)
  BY <1>4, <1>7, <1>8, Zenon DEF SecretsMasked, StarLeaves, KeptOfAnswer, shaped, kept
<1> QED
  BY <1>2, <1>9 DEF p

\* For any answers in JSON, policies and limits: what is shown of the answer, cut or not, has no value
\* below a key that, written with capitals or not, is a name that the list writes without capitals;
\* every other value that is kept is what it was, --fields keeps exactly what is below its keys, and
\* the metric counts no fewer values than are masked (http_client.py 492-574, api_server.py 372-391).
\* Names that the list writes with capitals and answers in XML are not masked (AnyCaseMasked, AnyFormatMasked).
THEOREM AnswersAreMasked == Spec => []AnswersMasked
<1>1. AnswerInv => AnswersMasked
  <2> SUFFICES ASSUME AnswerInv, answer # NONE
               PROVE  LET p == policy[call.tool.api] IN
                      /\ SecretsMasked(answer, p.fields, p.secrets, payload)
                      /\ answer.json # NONE /\ p.fields # {} => ProjectsExactly(answer.json, p.fields)
    BY DEF AnswersMasked
  <2> DEFINE promised == call.tool.output # NONE
  <2>1. answer \in Answers /\ promised \in BOOLEAN
        /\ payload = PayloadFor(promised, Shaped(answer, PolicyOf.fields, PolicyOf.secrets), Global("format"))
    BY DEF AnswerInv
  <2> HIDE DEF promised
  <2>2. /\ SecretsMasked(answer, PolicyOf.fields, PolicyOf.secrets, payload)
        /\ answer.json # NONE => ProjectsExactly(answer.json, PolicyOf.fields)
    BY <2>1, AnswerMasked
  <2> QED
    BY <2>2 DEF PolicyOf
<1> QED
  BY <1>1, AnswerFirst, AnswerNext, PTL DEF Spec
=============================================================================
