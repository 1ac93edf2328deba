---------------------------- MODULE SurfaceProofs ----------------------------
(***************************************************************************)
(* What a launch serves and the requests that are made of it: names,       *)
(* settings, filters, schemas and headers, for any documents, configs and  *)
(* limits.                                                                 *)
(*                                                                         *)
(* Once it is booted the prompt keeps the entries and the tools that its   *)
(* launch gives (SurfaceInv), so that the theorems are about the functions *)
(* that make them.  These are recursive functions over sequences and       *)
(* numbers: of each a lemma says, by induction in the set of the numbers   *)
(* up to which it is defined (AllNat), that it is what its equation says,  *)
(* and the lemmas after it use the equation only.                          *)
(*                                                                         *)
(* One hypothesis is not checked by TLC, that two numbers are not written  *)
(* the same (NumeralsDiffer): without it no number would make a name free. *)
(***************************************************************************)
EXTENDS McpProcess, FiniteSetTheorems, WellFoundedInduction, TLAPS

(* Numbers, finite sets and sequences. *)

\* A set of natural numbers has a least one.
LEMMA LeastOf ==
  ASSUME NEW T \in SUBSET Nat, T # {}
  PROVE  \E x \in T : \A y \in T : x <= y
<1> DEFINE R == {ss \in Nat \X Nat : ss[1] < ss[2]}
<1>1. IsWellFoundedOn(R, Nat)
  BY NatLessThanWellFounded DEF OpToRel
<1>2. \E x \in T : \A y \in T : ~ (<<y, x>> \in R)
  <2> HIDE DEF R
  <2> QED
    BY <1>1, WFMin
<1>3. \A x, y \in T : <<y, x>> \notin R => x <= y
  OBVIOUS
<1> HIDE DEF R
<1> QED
  BY <1>2, <1>3, Zenon

\* Induction: a set that has 0 and each successor has every natural number.
LEMMA AllNat ==
  ASSUME NEW T \in SUBSET Nat, 0 \in T, \A n \in T : n + 1 \in T
  PROVE  \A n \in Nat : n \in T
<1> SUFFICES ASSUME Nat \ T # {} PROVE FALSE
  OBVIOUS
<1>1. PICK n \in Nat \ T : \A m \in Nat \ T : n <= m
  BY LeastOf
<1>2. n # 0 /\ n - 1 \in Nat /\ n - 1 \in T
  BY <1>1
<1> QED
  BY <1>1, <1>2

\* A function from 1..n is a sequence.
LEMMA IsSeq ==
  ASSUME NEW S, NEW n \in Nat, NEW f \in [1..n -> S]
  PROVE  f \in Seq(S) /\ Len(f) = n /\ DOMAIN f = 1..n
  OBVIOUS

\* The values of a function are no more than what it is defined for.
LEMMA ValuesFinite ==
  ASSUME NEW f, IsFiniteSet(DOMAIN f)
  PROVE  IsFiniteSet(ValuesOf(f)) /\ Cardinality(ValuesOf(f)) <= Cardinality(DOMAIN f)
<1> DEFINE T == {f[x] : x \in DOMAIN f}
           g == [x \in DOMAIN f |-> f[x]]
<1>1. g \in Surjection(DOMAIN f, T)
  BY DEF Surjection
<1>2. T = ValuesOf(f)
  BY DEF ValuesOf
<1> QED
  BY <1>1, <1>2, FS_Surjection

\* A finite set as a sequence: each of its elements once.
LEMMA SetToSeqIs ==
  ASSUME NEW S, IsFiniteSet(S)
  PROVE  /\ Cardinality(S) \in Nat /\ SetToSeq(S) \in [1..Cardinality(S) -> S]
         /\ \A i, j \in 1..Cardinality(S) : SetToSeq(S)[i] = SetToSeq(S)[j] => i = j
<1>1. Cardinality(S) \in Nat /\ ExistsBijection(1..Cardinality(S), S)
  BY FS_CardinalityType
<1>2. PICK f \in [1..Cardinality(S) -> S] : IsInjective(f)
  BY <1>1 DEF ExistsBijection, Bijection, Injection
<1>3. SetToSeq(S) \in [1..Cardinality(S) -> S] /\ IsInjective(SetToSeq(S))
  BY <1>2, Zenon DEF SetToSeq
<1>4. DOMAIN SetToSeq(S) = 1..Cardinality(S)
  BY <1>3
<1> QED
  BY <1>1, <1>3, <1>4, Zenon DEF IsInjective

\* What FlattenSeq has put together, one sequence after the other.
LEMMA FlattenSteps ==
  ASSUME NEW ss, Len(ss) \in Nat \ {0}
  PROVE  \E f : /\ f[1] = ss[1] /\ \A n \in 2..Len(ss) : f[n] = f[n - 1] \o ss[n]
                /\ FlattenSeq(ss) = f[Len(ss)]
<1> DEFINE N         == Len(ss)
           Body(g, n) == IF n = 1 THEN ss[n] ELSE g[n - 1] \o ss[n]
           Made(g, n) == g = [m \in 1..n |-> Body(g, m)]
           T          == {n \in Nat : \E g : Made(g, n)}
<1>1. 0 \in T
  <2>1. Made(<<>>, 0)
    OBVIOUS
  <2> QED
    BY <2>1
<1>2. ASSUME NEW n \in T PROVE n + 1 \in T
  <2>1. PICK g : Made(g, n)
    OBVIOUS
  <2>2. n \in Nat /\ n + 1 \in Nat
    OBVIOUS
  <2> DEFINE h == [m \in 1..(n + 1) |-> Body(g, m)]
  <2>3. \A m \in 1..n : h[m] = g[m]
    <3> SUFFICES ASSUME NEW m \in 1..n PROVE h[m] = g[m]
      OBVIOUS
    <3>1. m \in 1..(n + 1)
      BY <2>2
    <3> HIDE DEF Body
    <3> QED
      BY <2>1, <3>1
  <2>4. \A m \in 1..(n + 1) : m # 1 => m - 1 \in 1..n
    BY <2>2
  <2>5. \A m \in 1..(n + 1) : Body(g, m) = Body(h, m)
    <3> HIDE DEF h
    <3> QED
      BY <2>3, <2>4
  <2>6. Made(h, n + 1)
    BY <2>5
  <2> QED
    BY <2>2, <2>6
<1>3. PICK f : Made(f, N)
  <2> HIDE DEF Made
  <2>1. T \in SUBSET Nat
    OBVIOUS
  <2>2. N \in T
    <3> HIDE DEF T
    <3> QED
      BY <1>1, <1>2, <2>1, AllNat
  <2> QED
    BY <2>2
<1>4. PICK h : h = [m \in 1..N |-> IF m = 1 THEN ss[m] ELSE h[m - 1] \o ss[m]] /\ FlattenSeq(ss) = h[N]
  <2> DEFINE H == CHOOSE g : g = [m \in 1..N |-> IF m = 1 THEN ss[m] ELSE g[m - 1] \o ss[m]]
  <2>1. H = [m \in 1..N |-> IF m = 1 THEN ss[m] ELSE H[m - 1] \o ss[m]]
    BY <1>3, Zenon
  <2>2. FlattenSeq(ss) = H[N]
    BY Zenon DEF FlattenSeq
  <2> QED
    BY <2>1, <2>2, Zenon
<1>5. h[1] = ss[1] /\ \A n \in 2..N : h[n] = h[n - 1] \o ss[n]
  <2>1. \A n \in 1..N : h[n] = IF n = 1 THEN ss[n] ELSE h[n - 1] \o ss[n]
    BY <1>4
  <2>2. 1 \in 1..N /\ \A n \in 2..N : n \in 1..N /\ n # 1
    OBVIOUS
  <2> QED
    BY <2>1, <2>2, Zenon
<1> QED
  BY <1>4, <1>5

\* A sequence with one more.
LEMMA AppendIs ==
  ASSUME NEW S, NEW s \in Seq(S), NEW x \in S
  PROVE  /\ Append(s, x) \in Seq(S) /\ Len(Append(s, x)) = Len(s) + 1
         /\ \A i \in 1..(Len(s) + 1) : Append(s, x)[i] = IF i <= Len(s) THEN s[i] ELSE x
  OBVIOUS

\* Two sequences, one after the other.
LEMMA ConcatIs ==
  ASSUME NEW S, NEW F \in Seq(S), NEW G \in Seq(S)
  PROVE  /\ F \o G \in Seq(S) /\ DOMAIN (F \o G) = 1..(Len(F) + Len(G))
         /\ \A i \in 1..(Len(F) + Len(G)) : (F \o G)[i] = IF i <= Len(F) THEN F[i] ELSE G[i - Len(F)]
<1>1. F \o G \in Seq(S)
  OBVIOUS
<1>2. DOMAIN (F \o G) = 1..(Len(F) + Len(G))
  OBVIOUS
<1>3. ASSUME NEW i \in 1..(Len(F) + Len(G))
      PROVE  (F \o G)[i] = IF i <= Len(F) THEN F[i] ELSE G[i - Len(F)]
  OBVIOUS
<1> QED
  BY <1>1, <1>2, <1>3

\* A flattened sequence has each item of each part at a position of its own.
Numbered(ss, flat, part, place) ==
  /\ \A i \in DOMAIN flat :
       /\ part[i] \in DOMAIN ss /\ place[i] \in DOMAIN ss[part[i]]
       /\ flat[i] = ss[part[i]][place[i]]
  /\ \A i, j \in DOMAIN flat : part[i] = part[j] /\ place[i] = place[j] => i = j
  /\ \A a \in DOMAIN ss : \A k \in DOMAIN ss[a] :
       \E i \in DOMAIN flat : part[i] = a /\ place[i] = k

\* Every place of the flat sequence is one place of one of the sequences, and the other way
\* round.
LEMMA FlattenIs ==
  ASSUME NEW S, NEW ss \in Seq(Seq(S))
  PROVE  FlattenSeq(ss) \in Seq(S) /\ \E part, place : Numbered(ss, FlattenSeq(ss), part, place)
<1>1. CASE Len(ss) = 0
  <2>1. FlattenSeq(ss) = ss /\ ss = <<>>
    BY <1>1 DEF FlattenSeq
  <2>2. Numbered(ss, <<>>, <<>>, <<>>)
    BY <2>1 DEF Numbered
  <2> QED
    BY <2>1, <2>2
<1>2. CASE Len(ss) # 0
  <2>0. Len(ss) \in Nat \ {0} /\ DOMAIN ss = 1..Len(ss) /\ \A n \in 1..Len(ss) : ss[n] \in Seq(S)
    BY <1>2
  <2>1. PICK f : /\ f[1] = ss[1] /\ \A n \in 2..Len(ss) : f[n] = f[n - 1] \o ss[n]
                 /\ FlattenSeq(ss) = f[Len(ss)]
    BY <2>0, FlattenSteps
  <2> DEFINE Good(flat, n, part, place) ==
               /\ flat \in Seq(S)
               /\ \A i \in DOMAIN flat :
                    /\ part[i] \in 1..n /\ place[i] \in DOMAIN ss[part[i]]
                    /\ flat[i] = ss[part[i]][place[i]]
               /\ \A i, j \in DOMAIN flat : part[i] = part[j] /\ place[i] = place[j] => i = j
               /\ \A a \in 1..n : \A k \in DOMAIN ss[a] :
                    \E i \in DOMAIN flat : part[i] = a /\ place[i] = k
             P(n) == \E part, place : Good(f[n], n, part, place)
             T == {n \in Nat : n + 1 \in 1..Len(ss) => P(n + 1)}
  <2>2. 0 \in T
    <3> DEFINE part  == [i \in DOMAIN ss[1] |-> 1]
               place == [i \in DOMAIN ss[1] |-> i]
    <3>1. 1 \in 1..Len(ss) /\ 1..1 = {1} /\ 0 + 1 = 1
      BY <2>0
    <3>2. Good(ss[1], 1, part, place)
      BY <2>0, <3>1
    <3>3. P(1)
      <4> HIDE DEF Good, part, place
      <4> QED
        BY <2>1, <3>2
    <3> HIDE DEF P
    <3> QED
      BY <3>1, <3>3
  <2>3. ASSUME NEW n \in T PROVE n + 1 \in T
    <3>1. n \in Nat /\ n + 1 \in Nat
      OBVIOUS
    <3> SUFFICES ASSUME n + 2 \in 1..Len(ss) PROVE P(n + 2)
      BY <3>1
    <3>2. n + 1 \in 1..Len(ss) /\ n + 2 \in 2..Len(ss) /\ (n + 2) - 1 = n + 1
      BY <2>0, <3>1
    <3>3. PICK part, place : Good(f[n + 1], n + 1, part, place)
      BY <3>2
    <3>4. f[n + 2] = f[n + 1] \o ss[n + 2]
      BY <2>1, <3>2
    <3> DEFINE F  == f[n + 1]
               G  == ss[n + 2]
               l  == Len(F)
               pt == [i \in 1..(l + Len(G)) |-> IF i <= l THEN part[i] ELSE n + 2]
               pl == [i \in 1..(l + Len(G)) |-> IF i <= l THEN place[i] ELSE i - l]
    <3>5. F \in Seq(S) /\ G \in Seq(S) /\ l \in Nat /\ Len(G) \in Nat
      BY <2>0, <3>2, <3>3
    <3>6. /\ F \o G \in Seq(S) /\ DOMAIN (F \o G) = 1..(l + Len(G))
          /\ \A i \in 1..(l + Len(G)) : (F \o G)[i] = IF i <= l THEN F[i] ELSE G[i - l]
      <4> HIDE DEF F, G
      <4> QED
        BY <3>5, ConcatIs
    <3>7. DOMAIN F = 1..l /\ DOMAIN G = 1..Len(G)
      BY <3>5
    <3> HIDE DEF F, G, l, T
    <3>8. Good(F, n + 1, part, place)
      BY <3>3 DEF F
    <3>9. \A i \in DOMAIN (F \o G) :
            /\ pt[i] \in 1..(n + 2) /\ pl[i] \in DOMAIN ss[pt[i]]
            /\ (F \o G)[i] = ss[pt[i]][pl[i]]
      <4> SUFFICES ASSUME NEW i \in 1..(l + Len(G))
                   PROVE  /\ pt[i] \in 1..(n + 2) /\ pl[i] \in DOMAIN ss[pt[i]]
                          /\ (F \o G)[i] = ss[pt[i]][pl[i]]
        BY <3>6
      <4>1. CASE i <= l
        <5>1. i \in DOMAIN F /\ pt[i] = part[i] /\ pl[i] = place[i] /\ (F \o G)[i] = F[i]
          BY <3>5, <3>6, <3>7, <4>1
        <5>2. 1..(n + 1) \subseteq 1..(n + 2)
          BY <3>1
        <5> QED
          BY <3>8, <5>1, <5>2
      <4>2. CASE ~(i <= l)
        <5>1. i - l \in 1..Len(G) /\ pt[i] = n + 2 /\ pl[i] = i - l /\ (F \o G)[i] = G[i - l]
          BY <3>5, <3>6, <4>2
        <5> QED
          BY <3>1, <3>7, <5>1 DEF G
      <4> QED
        BY <4>1, <4>2
    <3>10. \A i, j \in DOMAIN (F \o G) : pt[i] = pt[j] /\ pl[i] = pl[j] => i = j
      <4> SUFFICES ASSUME NEW i \in 1..(l + Len(G)), NEW j \in 1..(l + Len(G)),
                          pt[i] = pt[j], pl[i] = pl[j]
                   PROVE  i = j
        BY <3>6
      <4>1. \A m \in 1..(l + Len(G)) : m <= l => m \in DOMAIN F /\ part[m] \in 1..(n + 1)
        <5>1. \A m \in 1..(l + Len(G)) : m <= l => m \in DOMAIN F
          BY <3>5, <3>7
        <5> QED
          BY <3>8, <5>1
      <4>2. n + 2 \notin 1..(n + 1)
        BY <3>1
      <4>3. CASE i <= l
        <5>1. j <= l
          BY <3>1, <4>1, <4>2, <4>3
        <5> QED
          BY <3>8, <4>1, <4>3, <5>1
      <4>4. CASE ~(i <= l)
        <5>1. ~(j <= l)
          BY <3>1, <4>1, <4>2, <4>4
        <5> QED
          BY <3>5, <4>4, <5>1
      <4> QED
        BY <4>3, <4>4
    <3>11. \A a \in 1..(n + 2) : \A k \in DOMAIN ss[a] :
             \E i \in DOMAIN (F \o G) : pt[i] = a /\ pl[i] = k
      <4> SUFFICES ASSUME NEW a \in 1..(n + 2), NEW k \in DOMAIN ss[a]
                   PROVE  \E i \in DOMAIN (F \o G) : pt[i] = a /\ pl[i] = k
        OBVIOUS
      <4>0. DOMAIN (F \o G) = 1..(l + Len(G))
        BY <3>6
      <4>1. CASE a = n + 2
        <5>1. k \in 1..Len(G)
          BY <3>7, <4>1 DEF G
        <5>2. l + k \in 1..(l + Len(G)) /\ ~(l + k <= l) /\ (l + k) - l = k
          BY <3>5, <5>1, SMTT(30)
        <5>3. pt[l + k] = a /\ pl[l + k] = k
          BY <4>1, <5>2
        <5> QED
          BY <4>0, <5>2, <5>3
      <4>2. CASE a # n + 2
        <5>1. a \in 1..(n + 1)
          BY <3>1, <4>2
        <5>2. PICK i \in DOMAIN F : part[i] = a /\ place[i] = k
          BY <3>8, <5>1
        <5>3. i \in 1..(l + Len(G)) /\ i <= l
          BY <3>5, <3>7
        <5>4. pt[i] = part[i] /\ pl[i] = place[i]
          BY <5>3
        <5> QED
          BY <4>0, <5>2, <5>3, <5>4
      <4> QED
        BY <4>1, <4>2
    <3> HIDE DEF pt, pl
    <3>12. Good(F \o G, n + 2, pt, pl)
      BY <3>6, <3>9, <3>10, <3>11
    <3>13. f[n + 2] = F \o G
      BY <3>4 DEF F, G
    <3> HIDE DEF Good
    <3> QED
      BY <3>12, <3>13
  <2>4. P(Len(ss))
    <3>1. Len(ss) - 1 \in T
      <4> HIDE DEF T
      <4>1. T \in SUBSET Nat
        BY DEF T
      <4>2. \A m \in Nat : m \in T
        BY <2>2, <2>3, <4>1, AllNat
      <4>3. Len(ss) - 1 \in Nat
        BY <2>0
      <4> QED
        BY <4>2, <4>3
    <3>2. (Len(ss) - 1) + 1 = Len(ss) /\ Len(ss) \in 1..Len(ss)
      BY <2>0
    <3> HIDE DEF P
    <3> QED
      BY <3>1, <3>2
  <2>5. PICK part, place : Good(f[Len(ss)], Len(ss), part, place)
    BY <2>4
  <2>6. f[Len(ss)] \in Seq(S) /\ Numbered(ss, f[Len(ss)], part, place)
    BY <2>0, <2>5 DEF Numbered
  <2> HIDE DEF Good, P
  <2> QED
    BY <2>1, <2>6
<1> QED
  BY <1>1, <1>2

\* A comprehension reads the positions it selects, each once.
Reads(s, D, picked, from) ==
  /\ \A i \in DOMAIN picked : from[i] \in D \cap DOMAIN s /\ picked[i] = s[from[i]]
  /\ \A i, j \in DOMAIN picked : from[i] = from[j] => i = j
  /\ \A k \in D \cap DOMAIN s : \E i \in DOMAIN picked : from[i] = k

\* What is selected is what the sequence has at those positions, each once.
LEMMA SelectedIs ==
  ASSUME NEW S, NEW s \in Seq(S), NEW D
  PROVE  Selected(s, D) \in Seq(S) /\ \E from : Reads(s, D, Selected(s, D), from)
<1> DEFINE ss == [i \in DOMAIN s |-> IF i \in D THEN <<s[i]>> ELSE <<>>]
           picked == Selected(s, D)
<1>1. ss \in Seq(Seq(S)) /\ DOMAIN ss = DOMAIN s
  <2>1. Len(s) \in Nat /\ DOMAIN s = 1..Len(s) /\ \A i \in 1..Len(s) : s[i] \in S
    OBVIOUS
  <2>2. \A x \in S : <<x>> \in Seq(S)
    OBVIOUS
  <2>3. <<>> \in Seq(S)
    OBVIOUS
  <2>4. ss \in [1..Len(s) -> Seq(S)]
    BY <2>1, <2>2, <2>3
  <2> HIDE DEF ss
  <2> QED
    BY <2>1, <2>4, IsSeq
<1>2. picked = FlattenSeq(ss)
  BY DEF Selected
<1>3. \A i \in DOMAIN s : /\ i \in D => DOMAIN ss[i] = {1} /\ ss[i][1] = s[i]
                          /\ i \notin D => DOMAIN ss[i] = {}
  OBVIOUS
<1> HIDE DEF ss, picked
<1>4. PICK part, place : Numbered(ss, picked, part, place)
  BY <1>1, <1>2, FlattenIs
<1>5. \A i \in DOMAIN picked : part[i] \in D \cap DOMAIN s /\ place[i] = 1 /\ picked[i] = s[part[i]]
  BY <1>1, <1>3, <1>4 DEF Numbered
<1>6. \A k \in D \cap DOMAIN s : \E i \in DOMAIN picked : part[i] = k
  BY <1>1, <1>3, <1>4 DEF Numbered
<1>7. Reads(s, D, picked, part)
  BY <1>4, <1>5, <1>6 DEF Reads, Numbered
<1>8. picked \in Seq(S)
  BY <1>1, <1>2, FlattenIs
<1> QED
  BY <1>7, <1>8 DEF picked
-----------------------------------------------------------------------------
(* Names. *)

\* Two numbers are written differently (ToString, which TLC has for it).
NumeralsDiffer == \A i, j \in Nat : Numeral(i) = Numeral(j) => i = j

\* Names are sequences of such words; those the program itself adds are listed, for that a
\* literal is a string is nothing the provers know.
Letters == STRING \cup {Numeral(k) : k \in Nat}
             \cup {"call", "get", "put", "post", "delete", "patch", "options", "head"}
Words == Seq(Letters)

\* A number makes another name of a name.
LEMMA LongerName ==
  ASSUME NEW name \in Words, NEW w \in Letters
  PROVE  Append(name, w) \in Words
  BY AppendIs DEF Words

\* A number is found for every name.
LEMMA FreeNameIs ==
  ASSUME NumeralsDiffer, NEW base \in Words, NEW taken, IsFiniteSet(taken)
  PROVE  /\ FreeName(base, taken) \notin taken
         /\ FreeName(base, taken) = base \/ \E w \in Letters : FreeName(base, taken) = Append(base, w)
<1>1. CASE base \notin taken
  BY <1>1 DEF FreeName
<1>2. CASE base \in taken
  <2> DEFINE Try(k) == Append(base, Numeral(k))
             last   == Cardinality(taken) + 2
             Is(k)  == Try(k) \notin taken /\ \A j \in 2..(k - 1) : Try(j) \in taken
             Tries  == {Try(k) : k \in 2..last}
             Free   == {k \in Nat : k \in 2..last /\ Try(k) \notin taken}
  <2>1. Cardinality(taken) \in Nat /\ last \in Nat /\ last >= 2
    BY FS_CardinalityType
  <2>2. \A i, j \in 2..last : Try(i) = Try(j) => i = j
    <3> SUFFICES ASSUME NEW i \in 2..last, NEW j \in 2..last, Try(i) = Try(j) PROVE i = j
      OBVIOUS
    <3>1. i \in Nat /\ j \in Nat
      BY <2>1
    <3>2. Numeral(i) \in Letters /\ Numeral(j) \in Letters
      BY <3>1 DEF Letters
    <3>3. Append(base, Numeral(i))[Len(base) + 1] = Numeral(i)
      BY <3>2 DEF Words
    <3>4. Append(base, Numeral(j))[Len(base) + 1] = Numeral(j)
      BY <3>2 DEF Words
    <3> QED
      BY <3>1, <3>3, <3>4 DEF NumeralsDiffer
  <2>3. IsFiniteSet(2..last) /\ Cardinality(2..last) = last - 1
    BY <2>1, FS_Interval
  <2>4. ~ (Tries \subseteq taken)
    <3> SUFFICES ASSUME Tries \subseteq taken PROVE FALSE
      OBVIOUS
    <3> DEFINE f == [k \in 2..last |-> Try(k)]
    <3>1. f \in Injection(2..last, taken)
      BY <2>2 DEF Injection, IsInjective
    <3>2. Cardinality(2..last) <= Cardinality(taken)
      BY <3>1, <2>3, FS_Injection
    <3> QED
      BY <2>1, <2>3, <3>2
  <2>5. Free # {} /\ Free \in SUBSET Nat
    <3>1. PICK k \in 2..last : Try(k) \notin taken
      BY <2>4
    <3>2. k \in Nat
      BY <2>1
    <3> QED
      BY <3>1, <3>2
  <2>6. PICK k \in Free : \A j \in Free : k <= j
    <3> HIDE DEF Free
    <3> QED
      BY <2>5, LeastOf
  <2>7. k \in 2..last /\ Is(k)
    <3>1. ASSUME NEW j \in 2..(k - 1) PROVE Try(j) \in taken
      <4>1. j \in Nat /\ j \in 2..last /\ ~(k <= j)
        BY <2>1, <3>1
      <4> QED
        BY <2>6, <4>1
    <3> QED
      BY <2>6, <3>1
  <2> DEFINE first == CHOOSE n \in 2..last : Is(n)
  <2>8. first \in 2..last /\ Is(first)
    <3> HIDE DEF Is, last
    <3> QED
      BY <2>7, Zenon
  <2>9. FreeName(base, taken) = Try(first)
    BY <1>2, Zenon DEF FreeName
  <2>10. Numeral(first) \in Letters
    BY <2>1, <2>8 DEF Letters
  <2> QED
    BY <2>8, <2>9, <2>10
<1> QED
  BY <1>1, <1>2

\* The names are given one after the other, each apart from those before it.
LEMMA FreshSteps ==
  ASSUME NEW bases, Len(bases) \in Nat
  PROVE  \E f : /\ f[0] = <<>>
                /\ \A n \in 1..Len(bases) :
                     f[n] = Append(f[n - 1], FreeName(bases[n], MetaTools \cup ValuesOf(f[n - 1])))
                /\ FreshNames(bases) = f[Len(bases)]
<1> DEFINE N          == Len(bases)
           Body(g, n) == IF n = 0 THEN <<>>
                         ELSE Append(g[n - 1], FreeName(bases[n], MetaTools \cup ValuesOf(g[n - 1])))
           Made(g, n) == g = [m \in 0..n |-> Body(g, m)]
           T          == {n \in Nat : \E g : Made(g, n)}
<1>1. 0 \in T
  <2> DEFINE g == [m \in 0..0 |-> <<>>]
  <2>1. Made(g, 0)
    OBVIOUS
  <2> QED
    BY <2>1
<1>2. ASSUME NEW n \in T PROVE n + 1 \in T
  <2>1. PICK g : Made(g, n)
    OBVIOUS
  <2>2. n \in Nat /\ n + 1 \in Nat
    OBVIOUS
  <2> DEFINE h == [m \in 0..(n + 1) |-> Body(g, m)]
  <2>3. \A m \in 0..n : h[m] = g[m]
    <3> SUFFICES ASSUME NEW m \in 0..n PROVE h[m] = g[m]
      OBVIOUS
    <3>1. m \in 0..(n + 1)
      BY <2>2
    <3> HIDE DEF Body
    <3> QED
      BY <2>1, <3>1
  <2>4. \A m \in 0..(n + 1) : m # 0 => m - 1 \in 0..n
    BY <2>2
  <2>5. \A m \in 0..(n + 1) : Body(g, m) = Body(h, m)
    <3> HIDE DEF h
    <3> QED
      BY <2>3, <2>4
  <2>6. Made(h, n + 1)
    BY <2>5
  <2> QED
    BY <2>2, <2>6
<1>3. PICK f : Made(f, N)
  <2>1. T \in SUBSET Nat
    OBVIOUS
  <2>2. N \in T
    <3> HIDE DEF T
    <3> QED
      BY <1>1, <1>2, <2>1, AllNat
  <2> QED
    BY <2>2
<1> DEFINE H == CHOOSE g : g = [n \in 0..N |-> IF n = 0 THEN <<>>
                   ELSE Append(g[n - 1], FreeName(bases[n], MetaTools \cup ValuesOf(g[n - 1])))]
<1>4. H = [n \in 0..N |-> IF n = 0 THEN <<>>
             ELSE Append(H[n - 1], FreeName(bases[n], MetaTools \cup ValuesOf(H[n - 1])))]
  BY <1>3, Zenon
<1>5. FreshNames(bases) = H[N]
  BY Zenon DEF FreshNames
<1>6. H[0] = <<>> /\ \A n \in 1..N : H[n] = Append(H[n - 1], FreeName(bases[n], MetaTools \cup ValuesOf(H[n - 1])))
  <2> HIDE DEF H
  <2>1. \A n \in 0..N : H[n] = IF n = 0 THEN <<>>
          ELSE Append(H[n - 1], FreeName(bases[n], MetaTools \cup ValuesOf(H[n - 1])))
    BY <1>4
  <2>2. 0 \in 0..N /\ \A n \in 1..N : n \in 0..N /\ n # 0
    OBVIOUS
  <2> QED
    BY <2>1, <2>2, Zenon
<1> HIDE DEF H
<1> QED
  BY <1>5, <1>6

\* The names of the tools differ, and each begins as it was wanted.
Fresh(names, bases) ==
  /\ names \in Seq(Words) /\ Len(names) = Len(bases)
  /\ \A i \in 1..Len(names) : names[i] \notin MetaTools
  /\ \A i, j \in 1..Len(names) : names[i] = names[j] => i = j
  /\ \A i \in 1..Len(names) : names[i] = bases[i] \/ \E w \in Letters : names[i] = Append(bases[i], w)

LEMMA MetaToolsFinite == IsFiniteSet(MetaTools)
<1> DEFINE a == <<"mcpify", "search", "tools">>
           b == <<"mcpify", "get", "tool", "schema">>
           c == <<"mcpify", "call", "tool">>
           d == <<"mcpify", "preview", "request">>
           e == <<"mcpify", "health">>
<1>1. MetaTools = {a, b, c, d, e}
  BY DEF MetaTools
<1> HIDE DEF a, b, c, d, e
<1>2. {a, b, c, d, e} = ((({a} \cup {b}) \cup {c}) \cup {d}) \cup {e}
  OBVIOUS
<1>3. IsFiniteSet({a}) /\ IsFiniteSet({b}) /\ IsFiniteSet({c}) /\ IsFiniteSet({d}) /\ IsFiniteSet({e})
  BY FS_Singleton
<1>4. IsFiniteSet(((({a} \cup {b}) \cup {c}) \cup {d}) \cup {e})
  BY <1>3, FS_Union
<1> QED
  BY <1>1, <1>2, <1>4

\* The names given are different, no meta tools', and each is what was wanted, or that with a
\* number.
LEMMA FreshNamesAre ==
  ASSUME NumeralsDiffer, NEW bases \in Seq(Words)
  PROVE  Fresh(FreshNames(bases), bases)
<1>1. PICK f : /\ f[0] = <<>>
               /\ \A n \in 1..Len(bases) :
                    f[n] = Append(f[n - 1], FreeName(bases[n], MetaTools \cup ValuesOf(f[n - 1])))
               /\ FreshNames(bases) = f[Len(bases)]
  <2>1. Len(bases) \in Nat
    OBVIOUS
  <2> QED
    BY <2>1, FreshSteps
<1> DEFINE Good(names, n) ==
             /\ names \in Seq(Words) /\ Len(names) = n
             /\ \A i \in 1..n : names[i] \notin MetaTools
             /\ \A i, j \in 1..n : names[i] = names[j] => i = j
             /\ \A i \in 1..n : names[i] = bases[i] \/ \E w \in Letters : names[i] = Append(bases[i], w)
           T == {n \in Nat : n <= Len(bases) => Good(f[n], n)}
<1>2. 0 \in T
  <2>1. <<>> \in Seq(Words) /\ Len(<<>>) = 0 /\ 1..0 = {}
    OBVIOUS
  <2> QED
    BY <1>1, <2>1
<1>3. ASSUME NEW n \in T PROVE n + 1 \in T
  <2>0. n \in Nat /\ n + 1 \in Nat
    OBVIOUS
  <2> SUFFICES ASSUME n + 1 <= Len(bases) PROVE Good(f[n + 1], n + 1)
    <3> HIDE DEF Good
    <3> QED
      BY <2>0
  <2>1. n \in Nat /\ n <= Len(bases) /\ n + 1 \in 1..Len(bases) /\ (n + 1) - 1 = n
    OBVIOUS
  <2> DEFINE names == f[n]
             base  == bases[n + 1]
             taken == MetaTools \cup ValuesOf(names)
             name  == FreeName(base, taken)
  <2>2. Good(names, n)
    BY <2>1
  <2>3. f[n + 1] = Append(names, name)
    BY <1>1, <2>1
  <2>4. base \in Words
    BY <2>1
  <2>5. ValuesOf(names) = {names[i] : i \in 1..n}
    BY <2>1, <2>2 DEF ValuesOf
  <2>6. IsFiniteSet(taken)
    <3>1. IsFiniteSet(1..n)
      BY <2>1, FS_Interval
    <3>2. IsFiniteSet(ValuesOf(names))
      <4>1. DOMAIN names = 1..n
        BY <2>1, <2>2
      <4> HIDE DEF names
      <4> QED
        BY <3>1, <4>1, ValuesFinite
    <3> QED
      BY <3>2, MetaToolsFinite, FS_Union
  <2> HIDE DEF names, base, taken, T
  <2>7. /\ name \notin taken
        /\ name = base \/ \E w \in Letters : name = Append(base, w)
    BY <2>4, <2>6, FreeNameIs
  <2> HIDE DEF name
  <2>8. name \in Words
    <3>1. \A w \in Letters : Append(base, w) \in Words
      BY <2>4, LongerName
    <3> QED
      BY <2>4, <2>7, <3>1
  <2>9. Append(names, name) \in Seq(Words) /\ Len(Append(names, name)) = n + 1
    BY <2>1, <2>2, <2>8
  <2>10. \A i \in 1..(n + 1) : Append(names, name)[i] = IF i = n + 1 THEN name ELSE names[i]
    BY <2>1, <2>2, <2>8
  <2>11. \A i \in 1..(n + 1) : i # n + 1 => i \in 1..n
    BY <2>1
  <2>12. \A i \in 1..n : names[i] \in taken
    BY <2>5 DEF taken
  <2>13. \A i \in 1..(n + 1) : Append(names, name)[i] \notin MetaTools
    BY <2>2, <2>7, <2>10, <2>11 DEF taken
  <2>14. \A i, j \in 1..(n + 1) : Append(names, name)[i] = Append(names, name)[j] => i = j
    BY <2>2, <2>7, <2>10, <2>11, <2>12
  <2>15. \A i \in 1..(n + 1) : \/ Append(names, name)[i] = bases[i]
                              \/ \E w \in Letters : Append(names, name)[i] = Append(bases[i], w)
    BY <2>2, <2>7, <2>10, <2>11, ZenonT(60) DEF base
  <2> QED
    BY <2>3, <2>9, <2>13, <2>14, <2>15
<1>4. Good(f[Len(bases)], Len(bases))
  <2>1. T \in SUBSET Nat
    OBVIOUS
  <2>2. \A n \in Nat : n \in T
    <3> HIDE DEF T
    <3> QED
      BY <1>2, <1>3, <2>1, AllNat
  <2>3. Len(bases) \in Nat /\ Len(bases) <= Len(bases)
    OBVIOUS
  <2> HIDE DEF Good
  <2> QED
    BY <2>2, <2>3
<1> QED
  BY <1>1, <1>4 DEF Fresh
-----------------------------------------------------------------------------
(* Settings. *)

\* A table says something about a key.
Says(table, key) == key \in DOMAIN table /\ table[key] # NONE

\* The first layer that says something is the one First takes.
LEMMA FirstIs ==
  ASSUME NEW key, NEW layers, NEW default, DOMAIN layers \subseteq Nat
  PROVE  /\ (\A i \in DOMAIN layers : ~Says(layers[i], key)) => First(key, layers, default) = default
         /\ \A i \in DOMAIN layers :
              Says(layers[i], key) /\ (\A j \in DOMAIN layers : j < i => ~Says(layers[j], key))
              => First(key, layers, default) = layers[i][key]
<1> DEFINE saying == {i \in DOMAIN layers : key \in DOMAIN layers[i] /\ layers[i][key] # NONE}
           least  == CHOOSE i \in saying : \A j \in saying : i <= j
<1>1. First(key, layers, default) = IF saying = {} THEN default ELSE layers[least][key]
  BY Zenon DEF First
<1>2. ASSUME NEW i \in DOMAIN layers, Says(layers[i], key),
             \A j \in DOMAIN layers : j < i => ~Says(layers[j], key)
      PROVE  i \in saying /\ least = i
  <2>1. i \in saying /\ saying \subseteq Nat
    BY <1>2 DEF Says
  <2>2. \A j \in saying : ~(j < i)
    BY <1>2 DEF Says
  <2>3. \A j \in saying : i <= j
    <3> HIDE DEF saying
    <3> QED
      BY <2>1, <2>2
  <2>4. least \in saying /\ \A j \in saying : least <= j
    <3> HIDE DEF saying
    <3> QED
      BY <2>1, <2>3, Zenon
  <2>5. least <= i /\ i <= least
    BY <2>1, <2>3, <2>4
  <2> HIDE DEF saying, least
  <2> QED
    BY <2>1, <2>4, <2>5
<1> HIDE DEF least
<1> QED
  BY <1>1, <1>2 DEF Says

\* First of three layers.
LEMMA FirstOfThree ==
  ASSUME NEW key, NEW a, NEW b, NEW c, NEW default
  PROVE  First(key, <<a, b, c>>, default) =
           IF Says(a, key) THEN a[key] ELSE IF Says(b, key) THEN b[key]
           ELSE IF Says(c, key) THEN c[key] ELSE default
<1> DEFINE s == <<a, b, c>>
<1>1. DOMAIN s = {1, 2, 3} /\ s[1] = a /\ s[2] = b /\ s[3] = c
  OBVIOUS
<1>2. {1, 2, 3} \subseteq Nat
  OBVIOUS
<1> HIDE DEF s
<1>3. First(key, s, default) =
        IF Says(a, key) THEN a[key] ELSE IF Says(b, key) THEN b[key]
        ELSE IF Says(c, key) THEN c[key] ELSE default
  BY <1>1, <1>2, FirstIs
<1> QED
  BY <1>3 DEF s

\* What a config's file says is what its two tables say, the environment's first.
LEMMA FileSays ==
  ASSUME NEW l, LaunchRead(l), EnvKnown(l.data, l.env), NEW key
  PROVE  LET R     == Resolve(l.data, l.env)
             env   == EnvTable(l)
             serve == l.data.serve
         IN /\ Filled(R) /\ Filled(env) /\ Filled(serve)
            /\ key \in DOMAIN R <=> key \in DOMAIN env \cup DOMAIN serve
            /\ key \in DOMAIN R => R[key] = IF key \in DOMAIN env THEN env[key] ELSE serve[key]
<1> DEFINE R == Resolve(l.data, l.env)
           e == ChosenEnv(l.data, l.env)
           envs == l.data.envs
           serve == l.data.serve
<1>0. Filled(serve) /\ \A x \in DOMAIN envs : Filled(envs[x])
  BY DEF LaunchRead, ValuesOf
<1>2. CASE e = NONE
  <2>1. R = serve /\ EnvTable(l) = <<>>
    BY <1>2 DEF Resolve, EnvTable
  <2> HIDE DEF R, serve
  <2> QED
    BY <1>0, <2>1 DEF R, serve, Filled
<1>3. CASE e # NONE
  <2>1. EnvTable(l) = envs[e] /\ R = Updated(serve, envs[e]) /\ e \in DOMAIN envs
    BY <1>3 DEF Resolve, EnvTable, EnvKnown
  <2>2. Filled(envs[e])
    BY <1>0, <2>1
  <2>3. /\ DOMAIN R = DOMAIN serve \cup DOMAIN envs[e]
        /\ \A x \in DOMAIN R : R[x] = IF x \in DOMAIN envs[e] THEN envs[e][x] ELSE serve[x]
    BY <2>1 DEF Updated
  <2>4. Filled(R)
    <3> HIDE DEF R, serve, envs, e
    <3> QED
      BY <1>0, <2>2, <2>3 DEF Filled
  <2> HIDE DEF R, serve, envs, e
  <2> QED
    BY <1>0, <2>1, <2>2, <2>3, <2>4 DEF R, serve, envs, e
<1> QED
  BY <1>2, <1>3

\* A layer laid under arguments, key by key.
LEMMA AppliedIs ==
  ASSUME NEW args, NEW table, Filled(table), NEW key \in Keys
  PROVE  /\ key \notin Switches =>
              Applied(args, table)[key]
                = IF key \in DOMAIN table /\ Unset(key, args[key]) THEN table[key] ELSE args[key]
         /\ key \in Switches =>
              Applied(args, table)[key]
                = IF key \in DOMAIN table /\ args[key] = "off" /\ table[key] = "on" THEN "on" ELSE args[key]
<1>1. Applied(args, table)[key] =
        IF /\ key \in DOMAIN table
           /\ IF key \in Switches THEN args[key] = "off" /\ table[key] = "on"
              ELSE Unset(key, args[key]) /\ table[key] # NONE
        THEN table[key] ELSE args[key]
  BY DEF Applied
<1>2. key \in DOMAIN table => table[key] # NONE
  BY DEF Filled
<1> QED
  BY <1>1, <1>2

\* The settings of an API, key by key: [serve] with the environment on top laid under the
\* flags, and under that the same with the API's own table on top.
LEMMA NamespaceIs ==
  ASSUME NEW l, LaunchRead(l), Starts(l), NEW i \in DOMAIN Namespaces(l),
         NEW key \in Keys, key # "spec"
  PROVE  LET R     == Resolve(l.data, l.env)
             own   == OwnTable(l, i)
             a     == Flags(l.cli)[key]
             main  == MainArgs(l)[key]
             ns    == Namespaces(l)[i][key]
             under == IF key \in DOMAIN own THEN own[key] ELSE R[key]
             there == key \in DOMAIN own \cup DOMAIN R
         IN /\ Filled(R) /\ Filled(own)
            /\ a = IF key \in DOMAIN l.cli THEN l.cli[key] ELSE Defaults[key]
            /\ key \notin Switches =>
                 /\ main = IF key \in DOMAIN R /\ Unset(key, a) THEN R[key] ELSE a
                 /\ ns = IF there /\ Unset(key, main) THEN under ELSE main
            /\ key \in Switches =>
                 /\ main = IF key \in DOMAIN R /\ a = "off" /\ R[key] = "on" THEN "on" ELSE a
                 /\ ns = IF there /\ main = "off" /\ under = "on" THEN "on" ELSE main
<1> DEFINE R     == Resolve(l.data, l.env)
           own   == OwnTable(l, i)
           a     == Flags(l.cli)[key]
           main  == MainArgs(l)[key]
           ns    == Namespaces(l)[i][key]
           under == IF key \in DOMAIN own THEN own[key] ELSE R[key]
           there == key \in DOMAIN own \cup DOMAIN R
           apis  == l.data.apis
<1>1. Filled(R)
  <2>1. EnvKnown(l.data, l.env)
    BY DEF Starts, Misconfigured
  <2> QED
    BY <2>1, FileSays
<1>2. a = IF key \in DOMAIN l.cli THEN l.cli[key] ELSE Defaults[key]
  BY DEF Flags, Updated, Keys
<1>3. MainArgs(l) = Applied(Flags(l.cli), R)
  BY DEF MainArgs
<1>4. /\ key \notin Switches => main = IF key \in DOMAIN R /\ Unset(key, a) THEN R[key] ELSE a
      /\ key \in Switches =>
           main = IF key \in DOMAIN R /\ a = "off" /\ R[key] = "on" THEN "on" ELSE a
  <2> HIDE DEF R
  <2> QED
    BY <1>1, <1>3, AppliedIs
<1>5. CASE DOMAIN apis = {}
  <2>1. own = <<>> /\ Filled(own) /\ DOMAIN own = {}
    BY <1>5 DEF OwnTable, Filled
  <2>2. ns = main
    BY <1>5 DEF Namespaces
  <2> HIDE DEF own, R, a, main, ns
  <2>3. there <=> key \in DOMAIN R
    BY <2>1
  <2>4. under = R[key]
    BY <2>1
  <2> HIDE DEF there, under
  <2>5. key \notin Switches => ns = IF there /\ Unset(key, main) THEN under ELSE main
    BY <1>4, <2>2, <2>3, <2>4, Zenon
  <2>6. key \in Switches => ns = IF there /\ main = "off" /\ under = "on" THEN "on" ELSE main
    BY <1>4, <2>2, <2>3, <2>4
  <2> QED
    BY <1>1, <1>2, <1>4, <2>1, <2>5, <2>6 DEF R, own, a, main, ns, there, under
<1>6. CASE DOMAIN apis # {}
  <2> DEFINE name == SetToSeq(DOMAIN apis)[i]
             args == [MainArgs(l) EXCEPT !["spec"] = NONE]
             E    == Updated(R, apis[name])
  <2>1. own = apis[name]
    BY <1>6 DEF OwnTable
  <2>2. Namespaces(l)[i] = EntryArgs(l, name)
    BY <1>6 DEF Namespaces
  <2>3. Namespaces(l)[i] = Applied(args, E)
    BY <2>2 DEF EntryArgs
  <2>4. args[key] = main
    <3>1. DOMAIN MainArgs(l) = Keys
      BY DEF MainArgs, Applied
    <3> QED
      BY <3>1
  <2>5. Filled(own)
    <3>1. name \in DOMAIN apis
      <4>1. i \in DOMAIN SetToSeq(DOMAIN apis)
        BY <1>6 DEF Namespaces
      <4>2. IsFiniteSet(DOMAIN apis)
        BY DEF LaunchRead
      <4> QED
        BY <4>1, <4>2, SetToSeqIs
    <3> QED
      BY <2>1, <3>1 DEF LaunchRead, ValuesOf
  <2>6. /\ key \in DOMAIN E <=> there
        /\ key \in DOMAIN E => E[key] = under
    BY <2>1 DEF Updated
  <2>7. Filled(E)
    <3>1. /\ DOMAIN E = DOMAIN R \cup DOMAIN own
          /\ \A x \in DOMAIN E : E[x] = IF x \in DOMAIN own THEN own[x] ELSE R[x]
      BY <2>1 DEF Updated
    <3> HIDE DEF E, R, own
    <3> QED
      BY <1>1, <2>5, <3>1 DEF Filled
  <2> HIDE DEF args, E, main, under, there
  <2>8. /\ key \notin Switches => ns = IF there /\ Unset(key, main) THEN under ELSE main
        /\ key \in Switches => ns = IF there /\ main = "off" /\ under = "on" THEN "on" ELSE main
    BY <2>3, <2>4, <2>6, <2>7, AppliedIs
  <2> QED
    BY <1>1, <1>2, <1>4, <2>5, <2>8 DEF main, under, there
<1> QED
  BY <1>5, <1>6

\* The settings a launch starts with come from the layers of each API.
LEMMA SettingsAre ==
  ASSUME NEW l, LaunchRead(l), Starts(l)
  PROVE  SettingsKept(l)
<1> SUFFICES ASSUME NEW i \in DOMAIN Namespaces(l), NEW key \in Keys \ {"spec"}
    PROVE LET value  == Namespaces(l)[i][key]
              layers == <<OwnTable(l, i), EnvTable(l), l.data.serve>>
          IN /\ \/ value = Defaults[key]
                \/ \E table \in {l.cli} \cup ValuesOf(layers) :
                     key \in DOMAIN table /\ table[key] = value
             /\ key \in DOMAIN l.cli /\ l.cli[key] \notin {Defaults[key], "0", "off"}
                  => value = l.cli[key]
             /\ key \in Fillable \ DOMAIN l.cli /\ ~Contested(l, i, key)
                  => value = First(key, layers, Defaults[key])
  BY DEF SettingsKept
<1> DEFINE value   == Namespaces(l)[i][key]
           own     == OwnTable(l, i)
           env     == EnvTable(l)
           serve   == l.data.serve
           layers  == <<own, env, serve>>
           R       == Resolve(l.data, l.env)
           cli     == l.cli
           default == Defaults[key]
           a       == Flags(cli)[key]
           main    == MainArgs(l)[key]
           under   == IF key \in DOMAIN own THEN own[key] ELSE R[key]
           there   == key \in DOMAIN own \cup DOMAIN R
<1>1. /\ Filled(R) /\ Filled(env) /\ Filled(serve) /\ Filled(cli)
      /\ key \in DOMAIN R <=> key \in DOMAIN env \cup DOMAIN serve
      /\ key \in DOMAIN R => R[key] = IF key \in DOMAIN env THEN env[key] ELSE serve[key]
  <2>1. EnvKnown(l.data, l.env)
    BY DEF Starts, Misconfigured
  <2>2. Filled(cli)
    BY DEF LaunchRead
  <2> QED
    BY <2>1, <2>2, FileSays
<1>2. /\ Filled(own)
      /\ a = IF key \in DOMAIN cli THEN cli[key] ELSE default
      /\ key \notin Switches =>
           /\ main = IF key \in DOMAIN R /\ Unset(key, a) THEN R[key] ELSE a
           /\ value = IF there /\ Unset(key, main) THEN under ELSE main
      /\ key \in Switches =>
           /\ main = IF key \in DOMAIN R /\ a = "off" /\ R[key] = "on" THEN "on" ELSE a
           /\ value = IF there /\ main = "off" /\ under = "on" THEN "on" ELSE main
  BY NamespaceIs
<1>3. /\ key \in Switches => default = "off"
      /\ key = "timeout" => default = "30"
  BY SettingsAssumption
<1>4. ValuesOf(layers) = {own, env, serve}
  BY DEF ValuesOf
<1>5. First(key, layers, default) =
        IF Says(own, key) THEN own[key] ELSE IF Says(env, key) THEN env[key]
        ELSE IF Says(serve, key) THEN serve[key] ELSE default
  BY FirstOfThree
<1>6. Contested(l, i, key) <=> key \in DOMAIN own /\ key \in DOMAIN R
  BY <1>1 DEF Contested
<1>7. /\ Says(own, key) <=> key \in DOMAIN own
      /\ Says(env, key) <=> key \in DOMAIN env
      /\ Says(serve, key) <=> key \in DOMAIN serve
  BY <1>1, <1>2 DEF Says, Filled
<1>8. /\ key \in DOMAIN cli => cli[key] # NONE /\ (key \in Switches => cli[key] \in {"on", "off"})
      /\ key \in DOMAIN own => own[key] # NONE /\ (key \in Switches => own[key] \in {"on", "off"})
      /\ key \in DOMAIN R => R[key] # NONE /\ (key \in Switches => R[key] \in {"on", "off"})
  BY <1>1, <1>2 DEF Filled
<1>9. \/ value = default
      \/ \E table \in {cli} \cup ValuesOf(layers) : key \in DOMAIN table /\ table[key] = value
  <2> HIDE DEF value, own, env, serve, layers, R, cli, default, a, main
  <2>1. \/ value = default
        \/ key \in DOMAIN cli /\ value = cli[key]
        \/ key \in DOMAIN own /\ value = own[key]
        \/ key \in DOMAIN R /\ value = R[key]
    <3>1. CASE key \in Switches
      BY <1>2, <1>8, <3>1
    <3>2. CASE key \notin Switches
      BY <1>2, <3>2
    <3> QED
      BY <3>1, <3>2
  <2> QED
    BY <1>1, <1>4, <2>1
<1>10. key \in DOMAIN cli /\ cli[key] \notin {default, "0", "off"} => value = cli[key]
  <2> HIDE DEF value, own, env, serve, layers, R, cli, a, main, there, under
  <2>1. CASE key \in Switches
    BY <1>2, <1>8, <2>1
  <2>2. CASE key \notin Switches
    <3>1. key \in DOMAIN cli /\ cli[key] \notin {default, "0", "off"} => ~Unset(key, cli[key])
      BY <1>3, <1>8 DEF Unset
    <3> HIDE DEF default
    <3> QED
      BY <1>2, <2>2, <3>1
  <2> QED
    BY <2>1, <2>2
<1>11. key \in Fillable \ DOMAIN cli /\ ~Contested(l, i, key) => value = First(key, layers, default)
  <2> SUFFICES ASSUME key \in Fillable \ DOMAIN cli, ~Contested(l, i, key)
      PROVE value = First(key, layers, default)
    OBVIOUS
  <2>1. Unset(key, default)
    BY DEF Fillable
  <2>2. a = default
    BY <1>2
  <2>3. First(key, layers, default) =
          IF key \in DOMAIN own THEN own[key] ELSE IF key \in DOMAIN R THEN R[key] ELSE default
    <3> HIDE DEF own, env, serve, layers, R, default
    <3> QED
      BY <1>1, <1>5, <1>7
  <2> HIDE DEF value, own, env, serve, layers, R, cli, a, main, default
  <2>4. CASE key \in Switches
    BY <1>2, <1>3, <1>6, <1>8, <2>2, <2>3, <2>4
  <2>5. CASE key \notin Switches
    BY <1>2, <1>6, <2>1, <2>2, <2>3, <2>5
  <2> QED
    BY <2>4, <2>5
<1> QED
  BY <1>9, <1>10, <1>11
-----------------------------------------------------------------------------
(* Operations. *)

\* A document whose names are words.
ReadAs(spec) ==
  /\ Len(spec.paths) \in Nat /\ DOMAIN spec.paths = 1..Len(spec.paths)
  /\ \A i \in DOMAIN spec.paths :
       /\ spec.paths[i].path \in Words
       /\ \A m \in DOMAIN spec.paths[i].ops : spec.paths[i].ops[m].id \in Words

OperationsOf(spec) ==
  {o \in {[method |-> HttpMethods[k], at |-> i, item |-> spec.paths[i], op |-> spec.paths[i].ops[HttpMethods[k]]] :
            i \in DOMAIN spec.paths, k \in 1..7} : o.method \in DOMAIN o.item.ops}

\* The documents that are read have such names.
LEMMA DocumentsAreRead ==
  ASSUME NEW spec, DocumentRead(spec)
  PROVE  ReadAs(spec)
<1> DEFINE paths == spec.paths
<1>1. paths \in Seq(ValuesOf(paths)) /\ \A item \in ValuesOf(paths) :
        item.path \in Seq(STRING) /\ \A op \in ValuesOf(item.ops) : op.id \in Seq(STRING)
  BY DEF DocumentRead
<1>2. \A s \in Seq(STRING) : s \in Words
  <2>1. STRING \subseteq Letters
    BY DEF Letters
  <2>2. \A s \in Seq(STRING) : Len(s) \in Nat /\ s \in [1..Len(s) -> STRING]
    OBVIOUS
  <2>3. \A s \in Seq(STRING) : s \in Seq(Letters)
    <3> HIDE DEF Letters
    <3> SUFFICES ASSUME NEW s \in Seq(STRING) PROVE s \in Seq(Letters)
      OBVIOUS
    <3>1. s \in [1..Len(s) -> Letters]
      BY <2>1, <2>2
    <3> QED
      BY <2>2, <3>1, IsSeq
  <2> QED
    BY <2>3 DEF Words
<1>3. Len(paths) \in Nat /\ DOMAIN paths = 1..Len(paths)
  BY <1>1
<1>4. \A i \in DOMAIN paths : paths[i].path \in Words /\ \A m \in DOMAIN paths[i].ops : paths[i].ops[m].id \in Words
  BY <1>1, <1>2 DEF ValuesOf
<1> QED
  BY <1>3, <1>4 DEF ReadAs

\* The methods are different words.
LEMMA MethodsAre ==
  /\ DOMAIN HttpMethods = 1..7
  /\ \A k \in 1..7 : HttpMethods[k] \in Letters
  /\ \A k, m \in 1..7 : HttpMethods[k] = HttpMethods[m] => k = m
<1> DEFINE s == <<"get", "put", "post", "delete", "patch", "options", "head">>
<1>1. /\ DOMAIN s = 1..7 /\ s[1] = "get" /\ s[2] = "put" /\ s[3] = "post" /\ s[4] = "delete"
      /\ s[5] = "patch" /\ s[6] = "options" /\ s[7] = "head"
  OBVIOUS
<1>2. HttpMethods = s
  BY DEF HttpMethods
<1>3. \A k \in 1..7 : k \in {1, 2, 3, 4, 5, 6, 7}
  OBVIOUS
<1> HIDE DEF s
<1>4. \A k \in 1..7 : s[k] \in Letters
  BY <1>1, <1>3 DEF Letters
<1>5. ASSUME NEW k \in 1..7, NEW m \in 1..7, s[k] = s[m] PROVE k = m
  BY <1>1, <1>3, <1>5
<1> QED
  BY <1>1, <1>2, <1>4, <1>5

\* Each method of each path is one operation.
LEMMA OperationsAre ==
  ASSUME NEW spec, ReadAs(spec)
  PROVE  /\ Operations(spec) \in Seq(OperationsOf(spec))
         /\ \A i, j \in DOMAIN Operations(spec) :
              /\ Operations(spec)[i].method = Operations(spec)[j].method
              /\ Operations(spec)[i].at = Operations(spec)[j].at
              => i = j
<1> DEFINE paths    == spec.paths
           O        == OperationsOf(spec)
           one(i, k) == [method |-> HttpMethods[k], at |-> i, item |-> paths[i], op |-> paths[i].ops[HttpMethods[k]]]
           found(i, k) == IF HttpMethods[k] \in DOMAIN paths[i].ops THEN <<one(i, k)>> ELSE <<>>
           rows(i)  == [k \in DOMAIN HttpMethods |-> found(i, k)]
           ss       == [i \in DOMAIN paths |-> FlattenSeq(rows(i))]
<1>1. Operations(spec) = FlattenSeq(ss)
  BY DEF Operations
<1>2. ASSUME NEW i \in DOMAIN paths
      PROVE  rows(i) \in Seq(Seq(O))
  <2>1. \A x \in O : <<x>> \in Seq(O)
    OBVIOUS
  <2>2. <<>> \in Seq(O)
    OBVIOUS
  <2>3. ASSUME NEW k \in 1..7, HttpMethods[k] \in DOMAIN paths[i].ops PROVE one(i, k) \in O
    BY <2>3 DEF OperationsOf
  <2> HIDE DEF O, one
  <2>4. \A k \in 1..7 : found(i, k) \in Seq(O)
    BY <2>1, <2>2, <2>3
  <2>5. rows(i) \in [1..7 -> Seq(O)] /\ 7 \in Nat
    <3> HIDE DEF found
    <3> QED
      BY <2>4, MethodsAre
  <2> HIDE DEF rows
  <2> QED
    BY <2>5, IsSeq
<1>3. ASSUME NEW i \in DOMAIN paths
      PROVE  /\ ss[i] \in Seq(O)
             /\ \A n \in DOMAIN ss[i] : ss[i][n].at = i
             /\ \A n, m \in DOMAIN ss[i] : ss[i][n].method = ss[i][m].method => n = m
  <2>1. ss[i] = FlattenSeq(rows(i))
    BY <1>3
  <2>2. PICK part, place : Numbered(rows(i), ss[i], part, place)
    <3> HIDE DEF rows, ss, O
    <3> QED
      BY <1>2, <1>3, <2>1, FlattenIs
  <2>3. DOMAIN rows(i) = 1..7 /\ \A k \in 1..7 : rows(i)[k] = found(i, k)
    BY MethodsAre
  <2>4. \A k \in 1..7 : \A x \in DOMAIN found(i, k) : x = 1 /\ found(i, k)[x] = one(i, k)
    OBVIOUS
  <2>5. \A k \in 1..7 : one(i, k).at = i /\ one(i, k).method = HttpMethods[k]
    OBVIOUS
  <2> HIDE DEF found, rows, ss, one, O
  <2>6. \A n \in DOMAIN ss[i] : part[n] \in 1..7 /\ place[n] = 1 /\ ss[i][n] = one(i, part[n])
    BY <2>2, <2>3, <2>4 DEF Numbered
  <2>7. \A n, m \in DOMAIN ss[i] : ss[i][n].method = ss[i][m].method => n = m
    BY <2>2, <2>5, <2>6, MethodsAre DEF Numbered
  <2>8. ss[i] \in Seq(O)
    BY <1>2, <1>3, <2>1, FlattenIs
  <2>9. ASSUME NEW n \in DOMAIN ss[i] PROVE ss[i][n].at = i
    <3>1. part[n] \in 1..7 /\ ss[i][n] = one(i, part[n])
      BY <2>6
    <3>2. one(i, part[n]).at = i
      BY <2>5, <3>1
    <3> QED
      BY <3>1, <3>2
  <2> QED
    BY <2>7, <2>8, <2>9
<1>4. ss \in Seq(Seq(O)) /\ DOMAIN ss = DOMAIN paths
  <2>1. ss \in [1..Len(paths) -> Seq(O)] /\ Len(paths) \in Nat
    <3> HIDE DEF rows, O
    <3> QED
      BY <1>3 DEF ReadAs
  <2> HIDE DEF ss
  <2> QED
    BY <2>1, IsSeq DEF ReadAs
<1> HIDE DEF ss, O
<1>5. PICK part, place : Numbered(ss, Operations(spec), part, place)
  BY <1>1, <1>4, FlattenIs
<1>6. \A i, j \in DOMAIN Operations(spec) :
        /\ Operations(spec)[i].method = Operations(spec)[j].method
        /\ Operations(spec)[i].at = Operations(spec)[j].at
        => i = j
  <2> SUFFICES ASSUME NEW i \in DOMAIN Operations(spec), NEW j \in DOMAIN Operations(spec),
                      Operations(spec)[i].method = Operations(spec)[j].method,
                      Operations(spec)[i].at = Operations(spec)[j].at
               PROVE  i = j
    OBVIOUS
  <2>1. \A n \in DOMAIN Operations(spec) :
          /\ part[n] \in DOMAIN paths /\ place[n] \in DOMAIN ss[part[n]]
          /\ Operations(spec)[n] = ss[part[n]][place[n]]
    BY <1>4, <1>5 DEF Numbered
  <2>2. part[i] = part[j]
    BY <1>3, <2>1
  <2>3. place[i] = place[j]
    BY <1>3, <2>1, <2>2
  <2> QED
    BY <1>5, <2>2, <2>3 DEF Numbered
<1>7. Operations(spec) \in Seq(O)
  BY <1>1, <1>4, FlattenIs
<1> QED
  BY <1>6, <1>7 DEF O
-----------------------------------------------------------------------------
(* Tools. *)

\* The fields of a tool.
ToolFields ==
  {"name", "api", "was", "operation", "method", "path", "vars", "parameters", "hasBody", "raw", "body",
   "input", "output", "annotations", "tags", "description"}

\* A tool has them, and these of its operation.
LEMMA ToolIs ==
  ASSUME NEW o, NEW spec, NEW name, NEW strict
  PROVE  LET t == Tool(o, spec, name, strict) IN
         /\ DOMAIN t = ToolFields
         /\ t.name = name /\ t.api = 1 /\ t.was = name /\ t.operation = <<o.method, o.at>>
         /\ t.method = o.method /\ t.path = o.item.path
  BY DEF Tool, ToolFields

\* The served of one API: of its operations, under names of their own.
ToolsOf(served, spec, strict) ==
  /\ served \in Seq(ValuesOf(served)) /\ Len(served) \in Nat /\ DOMAIN served = 1..Len(served)
  /\ \A i \in DOMAIN served :
       /\ \E o \in ValuesOf(Operations(spec)) : served[i] = Tool(o, spec, served[i].name, strict)
       /\ served[i].name \in Words \ MetaTools
  /\ \A i, j \in DOMAIN served : served[i].name = served[j].name => i = j
  /\ \A i, j \in DOMAIN served : served[i].operation = served[j].operation => i = j

\* A document gives one tool for each of its operations.
LEMMA SpecToToolsAre ==
  ASSUME NumeralsDiffer, NEW spec, ReadAs(spec), NEW strict
  PROVE  ToolsOf(SpecToTools(spec, strict), spec, strict)
<1> DEFINE all   == Operations(spec)
           D     == {i \in DOMAIN all : all[i].method \notin {"head", "options"}}
           ops   == Selected(all, D)
           bases == [i \in DOMAIN ops |-> OperationName(ops[i])]
           names == FreshNames(bases)
           served == SpecToTools(spec, strict)
<1>1. all \in Seq(OperationsOf(spec))
  BY OperationsAre
<1>2. ops \in Seq(OperationsOf(spec))
  <2> HIDE DEF all, D
  <2> QED
    BY <1>1, SelectedIs
<1>3. PICK from : Reads(all, D, ops, from)
  <2> HIDE DEF all, D
  <2> QED
    BY <1>1, SelectedIs
<1>4. served = [i \in DOMAIN ops |-> Tool(ops[i], spec, names[i], strict)]
  BY Zenon DEF SpecToTools
<1> HIDE DEF all, D, ops, served
<1>5. \A o \in OperationsOf(spec) : OperationName(o) \in Words
  <2> SUFFICES ASSUME NEW o \in OperationsOf(spec) PROVE OperationName(o) \in Words
    OBVIOUS
  <2>1. PICK i \in DOMAIN spec.paths, k \in 1..7 :
          /\ o = [method |-> HttpMethods[k], at |-> i, item |-> spec.paths[i],
                  op |-> spec.paths[i].ops[HttpMethods[k]]]
          /\ o.method \in DOMAIN o.item.ops
    BY DEF OperationsOf
  <2>2. o.op.id \in Words /\ o.item.path \in Words /\ o.method \in Letters
    BY <2>1, MethodsAre DEF ReadAs
  <2>3. <<o.method>> \in Seq(Letters) /\ <<"call">> \in Seq(Letters)
    BY <2>2 DEF Letters
  <2>4. <<o.method>> \o o.item.path \in Words
    BY <2>2, <2>3, ConcatIs DEF Words
  <2> QED
    BY <2>2, <2>3, <2>4 DEF OperationName, Slug, Words
<1>6. bases \in Seq(Words) /\ Len(bases) = Len(ops) /\ DOMAIN ops = 1..Len(ops) /\ Len(ops) \in Nat
  <2>1. Len(ops) \in Nat /\ DOMAIN ops = 1..Len(ops) /\ \A i \in 1..Len(ops) : ops[i] \in OperationsOf(spec)
    BY <1>2
  <2>2. bases \in [1..Len(ops) -> Words]
    BY <1>5, <2>1
  <2> HIDE DEF bases
  <2> QED
    BY <2>1, <2>2, IsSeq
<1>7. Fresh(names, bases)
  <2> HIDE DEF bases
  <2> QED
    BY <1>6, FreshNamesAre
<1> HIDE DEF bases, names
<1>8. /\ Len(served) \in Nat /\ DOMAIN served = 1..Len(served) /\ Len(served) = Len(ops)
      /\ served \in Seq(ValuesOf(served))
  <2>1. served \in [1..Len(ops) -> ValuesOf(served)]
    BY <1>4, <1>6 DEF ValuesOf
  <2> QED
    BY <1>6, <2>1, IsSeq
<1>9. \A i \in 1..Len(ops) :
        /\ served[i] = Tool(ops[i], spec, names[i], strict)
        /\ served[i].name = names[i] /\ served[i].operation = <<ops[i].method, ops[i].at>>
  BY <1>4, <1>6, ToolIs
<1>10. names \in Seq(Words) /\ Len(names) = Len(ops)
  BY <1>6, <1>7 DEF Fresh
<1>11. \A i \in 1..Len(ops) : names[i] \in Words \ MetaTools
  BY <1>7, <1>10 DEF Fresh
<1>12. \A i, j \in 1..Len(ops) : names[i] = names[j] => i = j
  BY <1>7, <1>10 DEF Fresh
<1>13. \A i \in 1..Len(ops) : ops[i] \in ValuesOf(all)
  BY <1>3, <1>6 DEF Reads, ValuesOf
<1>14. \A i, j \in 1..Len(ops) : ops[i].method = ops[j].method /\ ops[i].at = ops[j].at => i = j
  <2>1. \A i \in 1..Len(ops) : from[i] \in DOMAIN all /\ ops[i] = all[from[i]]
    BY <1>3, <1>6 DEF Reads
  <2>2. \A i, j \in DOMAIN all : all[i].method = all[j].method /\ all[i].at = all[j].at => i = j
    BY OperationsAre DEF all
  <2> QED
    BY <1>3, <1>6, <2>1, <2>2 DEF Reads
<1>15. \A i, j \in 1..Len(ops) : served[i].operation = served[j].operation => i = j
  BY <1>9, <1>14
<1> QED
  BY <1>8, <1>9, <1>11, <1>12, <1>13, <1>15 DEF ToolsOf, served, all

\* A filter only drops served.
LEMMA FilteredAre ==
  ASSUME NEW served, NEW spec, NEW strict, ToolsOf(served, spec, strict), NEW flags
  PROVE  /\ ToolsOf(FilterTools(served, flags), spec, strict)
         /\ \A i \in DOMAIN FilterTools(served, flags) : Kept(FilterTools(served, flags)[i], flags)
<1> DEFINE D == {i \in DOMAIN served : Kept(served[i], flags)}
           S == ValuesOf(served)
           kept == FilterTools(served, flags)
<1>1. served \in Seq(S)
  BY DEF ToolsOf
<1>2. kept = Selected(served, D)
  BY DEF FilterTools
<1> HIDE DEF D, S, kept
<1>3. PICK from : Reads(served, D, kept, from)
  BY <1>1, <1>2, SelectedIs
<1>4. kept \in Seq(S)
  BY <1>1, <1>2, SelectedIs
<1>5. Len(kept) \in Nat /\ DOMAIN kept = 1..Len(kept)
  BY <1>4
<1>6. \A i \in DOMAIN kept : from[i] \in D /\ from[i] \in DOMAIN served /\ kept[i] = served[from[i]]
  BY <1>3 DEF Reads
<1>7. \A i, j \in DOMAIN kept : from[i] = from[j] => i = j
  BY <1>3 DEF Reads
<1>8. \A i \in DOMAIN kept : Kept(kept[i], flags)
  BY <1>6 DEF D
<1>10. kept \in Seq(ValuesOf(kept))
  <2>1. kept = [i \in 1..Len(kept) |-> kept[i]]
    BY <1>4
  <2>2. kept \in [1..Len(kept) -> ValuesOf(kept)]
    BY <1>5, <2>1 DEF ValuesOf
  <2> QED
    BY <1>5, <2>2, IsSeq
<1>9. ToolsOf(kept, spec, strict)
  BY <1>5, <1>6, <1>7, <1>10 DEF ToolsOf
<1> QED
  BY <1>8, <1>9 DEF kept
-----------------------------------------------------------------------------
(* Surfaces. *)

\* What a tool keeps when it is merged.
Carried == ToolFields \ {"name", "api", "description"}

\* A surface serves each tool of each API once, under a name of its own.
Surface(served, apis, part, place) ==
  /\ DOMAIN served = 1..Len(served) /\ Len(served) \in Nat
  /\ \A i \in DOMAIN served :
       LET t == apis[part[i]].tools[place[i]] IN
       /\ part[i] \in DOMAIN apis /\ place[i] \in DOMAIN apis[part[i]].tools
       /\ served[i].api = part[i]
       /\ \A f \in Carried : served[i][f] = t[f]
       /\ served[i].name \in Words \ MetaTools
       /\ LET base == BaseName(apis, part[i], t)
          IN served[i].name = base \/ \E w \in Letters : served[i].name = Append(base, w)
  /\ \A i, j \in DOMAIN served : served[i].name = served[j].name => i = j
  /\ \A i, j \in DOMAIN served : part[i] = part[j] /\ place[i] = place[j] => i = j
  /\ \A a \in DOMAIN apis : \A k \in DOMAIN apis[a].tools :
       \E i \in DOMAIN served : part[i] = a /\ place[i] = k

\* Entries that are made of documents.
Made(apis) ==
  /\ DOMAIN apis = 1..Len(apis) /\ Len(apis) \in Nat
  /\ \A a \in DOMAIN apis : \E spec, strict : ToolsOf(apis[a].tools, spec, strict)
  /\ DOMAIN apis = {1} \/ \A a \in DOMAIN apis : apis[a].label \in Words

\* A tool of an API before it is merged.
LEMMA ToolOf ==
  ASSUME NEW served, NEW spec, NEW strict, ToolsOf(served, spec, strict), NEW i \in DOMAIN served
  PROVE  /\ DOMAIN served[i] = ToolFields /\ served[i].was = served[i].name /\ served[i].api = 1
         /\ served[i].name \in Words \ MetaTools
  BY ToolIs DEF ToolsOf

\* A label is never empty.
LEMMA SlugIs ==
  ASSUME NEW label \in Words
  PROVE  Slug(label) \in Words /\ Len(Slug(label)) > 0
<1>1. "call" \in Letters
  BY DEF Letters
<1> QED
  BY <1>1 DEF Slug, Words

\* Several APIs are merged to a surface of them.
LEMMA MergeIs ==
  ASSUME NumeralsDiffer, NEW apis, Made(apis),
         \A a \in DOMAIN apis : apis[a].label \in Words
  PROVE  \E part, place : Surface(Merge(apis), apis, part, place)
<1> DEFINE Of(a) == [i \in DOMAIN apis[a].tools |-> [apis[a].tools[i] EXCEPT !.api = a]]
           ss    == [a \in DOMAIN apis |-> Of(a)]
           all   == FlattenSeq(ss)
           bases == [i \in DOMAIN all |-> BaseName(apis, all[i].api, all[i])]
           names == FreshNames(bases)
           S     == UNION {ValuesOf(Of(a)) : a \in DOMAIN apis}
           served == Merge(apis)
<1>1. served = [i \in DOMAIN all |-> [all[i] EXCEPT !.name = names[i]]]
  BY Zenon DEF Merge
<1>2. ASSUME NEW a \in DOMAIN apis PROVE Of(a) \in Seq(S)
  <2>1. PICK spec, strict : ToolsOf(apis[a].tools, spec, strict)
    BY DEF Made
  <2>2. Len(apis[a].tools) \in Nat /\ DOMAIN Of(a) = 1..Len(apis[a].tools)
    BY <2>1 DEF ToolsOf
  <2>3. \A i \in DOMAIN Of(a) : Of(a)[i] \in S
    <3>1. \A i \in DOMAIN Of(a) : Of(a)[i] \in ValuesOf(Of(a))
      BY DEF ValuesOf
    <3> HIDE DEF Of
    <3> QED
      BY <1>2, <3>1
  <2>4. Of(a) = [i \in DOMAIN Of(a) |-> Of(a)[i]]
    OBVIOUS
  <2> HIDE DEF Of, S
  <2>5. Of(a) \in [1..Len(apis[a].tools) -> S]
    BY <2>2, <2>3, <2>4
  <2> QED
    BY <2>2, <2>5, IsSeq
<1>3. ss \in Seq(Seq(S)) /\ DOMAIN ss = DOMAIN apis /\ \A a \in DOMAIN apis : ss[a] = Of(a)
  <2>1. ss \in [1..Len(apis) -> Seq(S)] /\ Len(apis) \in Nat
    <3> HIDE DEF Of, S
    <3> QED
      BY <1>2 DEF Made
  <2> HIDE DEF S
  <2>2. ss \in Seq(Seq(S))
    <3> HIDE DEF ss
    <3> QED
      BY <2>1, IsSeq
  <2> QED
    BY <2>2
<1> HIDE DEF S
<1>4. PICK part, place : Numbered(ss, all, part, place)
  <2> HIDE DEF ss
  <2> QED
    BY <1>3, FlattenIs
<1>5. all \in Seq(S)
  <2> HIDE DEF ss
  <2> QED
    BY <1>3, FlattenIs
<1>6. \A a \in DOMAIN apis : DOMAIN ss[a] = DOMAIN apis[a].tools
  BY <1>3
<1>7. \A a \in DOMAIN apis : \A k \in DOMAIN apis[a].tools :
        LET t == apis[a].tools[k] IN
        /\ DOMAIN t = ToolFields /\ t.name \in Words \ MetaTools
        /\ ss[a][k] = [t EXCEPT !.api = a]
  BY <1>3, ToolOf DEF Made
<1>8. DOMAIN all = 1..Len(all) /\ Len(all) \in Nat
  BY <1>5
<1> HIDE DEF Of, ss, all, bases, names, served
<1>9. ASSUME NEW i \in DOMAIN all
      PROVE  LET t == apis[part[i]].tools[place[i]] IN
             /\ part[i] \in DOMAIN apis /\ place[i] \in DOMAIN apis[part[i]].tools
             /\ DOMAIN all[i] = ToolFields /\ DOMAIN t = ToolFields /\ t.name \in Words
             /\ all[i].api = part[i] /\ all[i].name = t.name
             /\ \A f \in Carried : all[i][f] = t[f]
  <2>1. part[i] \in DOMAIN apis /\ place[i] \in DOMAIN apis[part[i]].tools /\ all[i] = ss[part[i]][place[i]]
    BY <1>3, <1>4, <1>6 DEF Numbered
  <2> DEFINE t == apis[part[i]].tools[place[i]]
  <2>2. DOMAIN t = ToolFields /\ t.name \in Words /\ all[i] = [t EXCEPT !.api = part[i]]
    BY <1>7, <2>1
  <2> HIDE DEF t
  <2>3. DOMAIN all[i] = ToolFields /\ all[i].api = part[i] /\ all[i].name = t.name
    BY <2>2 DEF ToolFields
  <2>4. \A f \in Carried : all[i][f] = t[f]
    BY <2>2 DEF ToolFields, Carried
  <2> QED
    BY <2>1, <2>2, <2>3, <2>4 DEF t
<1>10. ASSUME NEW i \in DOMAIN all
       PROVE  /\ bases[i] = BaseName(apis, part[i], apis[part[i]].tools[place[i]])
              /\ bases[i] \in Words
  <2> DEFINE a == part[i]
             t == apis[part[i]].tools[place[i]]
  <2>1. bases[i] = BaseName(apis, all[i].api, all[i])
    BY DEF bases
  <2>2. bases[i] = BaseName(apis, a, t)
    BY <1>9, <2>1 DEF BaseName, Claimed
  <2>3. t.name \in Words /\ Slug(apis[a].label) \in Words
    BY <1>9, SlugIs
  <2>4. Slug(apis[a].label) \o t.name \in Words
    BY <2>3, ConcatIs DEF Words
  <2> QED
    BY <2>2, <2>3, <2>4 DEF BaseName
<1>11. bases \in Seq(Words) /\ Len(bases) = Len(all)
  <2>1. bases \in [1..Len(all) -> Words]
    BY <1>8, <1>10 DEF bases
  <2> QED
    BY <1>8, <2>1, IsSeq
<1>12. Fresh(names, bases)
  BY <1>11, FreshNamesAre DEF names
<1>13. /\ Len(names) = Len(all) /\ names \in Seq(Words)
       /\ \A i \in 1..Len(all) : names[i] \in Words \ MetaTools
       /\ \A i, j \in 1..Len(all) : names[i] = names[j] => i = j
       /\ \A i \in 1..Len(all) : names[i] = bases[i] \/ \E w \in Letters : names[i] = Append(bases[i], w)
  BY <1>11, <1>12 DEF Fresh
<1>14. DOMAIN served = 1..Len(all) /\ Len(served) = Len(all)
  BY <1>1, <1>8
<1>15. ASSUME NEW i \in 1..Len(all)
       PROVE  /\ served[i].name = names[i] /\ served[i].api = part[i]
              /\ \A f \in Carried : served[i][f] = apis[part[i]].tools[place[i]][f]
  <2>1. served[i] = [all[i] EXCEPT !.name = names[i]]
    BY <1>1, <1>8
  <2> QED
    BY <1>8, <1>9, <2>1 DEF ToolFields, Carried
<1>16. \A i \in 1..Len(all) :
         /\ part[i] \in DOMAIN apis /\ place[i] \in DOMAIN apis[part[i]].tools
         /\ bases[i] = BaseName(apis, part[i], apis[part[i]].tools[place[i]])
  BY <1>8, <1>9, <1>10
<1>17. /\ \A i, j \in 1..Len(all) : part[i] = part[j] /\ place[i] = place[j] => i = j
       /\ \A a \in DOMAIN apis : \A k \in DOMAIN apis[a].tools :
            \E i \in 1..Len(all) : part[i] = a /\ place[i] = k
  <2>1. \A i, j \in DOMAIN all : part[i] = part[j] /\ place[i] = place[j] => i = j
    BY <1>4 DEF Numbered
  <2>2. \A a \in DOMAIN ss : \A k \in DOMAIN ss[a] :
            \E i \in DOMAIN all : part[i] = a /\ place[i] = k
    BY <1>4, Zenon DEF Numbered
  <2>3. \A a \in DOMAIN apis : \A k \in DOMAIN apis[a].tools :
            \E i \in DOMAIN all : part[i] = a /\ place[i] = k
    BY <1>3, <1>6, <2>2
  <2> QED
    BY <1>8, <2>1, <2>3
<1>18. Surface(served, apis, part, place)
  <2>1. DOMAIN served = 1..Len(served) /\ Len(served) \in Nat
    BY <1>8, <1>14, SMTT(30)
  <2>2. ASSUME NEW i \in DOMAIN served
        PROVE  LET t == apis[part[i]].tools[place[i]] IN
               /\ part[i] \in DOMAIN apis /\ place[i] \in DOMAIN apis[part[i]].tools
               /\ served[i].api = part[i]
               /\ \A f \in Carried : served[i][f] = t[f]
               /\ served[i].name \in Words \ MetaTools
               /\ LET base == BaseName(apis, part[i], t)
                  IN served[i].name = base \/ \E w \in Letters : served[i].name = Append(base, w)
    <3>0. i \in 1..Len(all)
      BY <1>14
    <3>1. /\ part[i] \in DOMAIN apis /\ place[i] \in DOMAIN apis[part[i]].tools
          /\ served[i].api = part[i] /\ served[i].name = names[i]
          /\ bases[i] = BaseName(apis, part[i], apis[part[i]].tools[place[i]])
      BY <1>15, <1>16, <3>0
    <3>2. \A f \in Carried : served[i][f] = apis[part[i]].tools[place[i]][f]
      BY <1>15, <3>0
    <3>3. names[i] \in Words \ MetaTools
      BY <1>13, <3>0
    <3>4. names[i] = bases[i] \/ \E w \in Letters : names[i] = Append(bases[i], w)
      BY <1>13, <3>0
    <3> QED
      BY <3>1, <3>2, <3>3, <3>4
  <2>3. \A i, j \in DOMAIN served : served[i].name = served[j].name => i = j
    BY <1>13, <1>14, <1>15
  <2> QED
    BY <1>14, <1>17, <2>1, <2>2, <2>3 DEF Surface
<1> QED
  BY <1>18 DEF served

\* A single API keeps its names; the operator's texts change nothing but the descriptions.
LEMMA SingleIs ==
  ASSUME NEW apis, Made(apis), DOMAIN apis = {1}, NEW texts
  PROVE  \E part, place : Surface(WithTexts(apis[1].tools, texts), apis, part, place)
<1> DEFINE all   == apis[1].tools
           served == WithTexts(all, texts)
           part  == [i \in DOMAIN all |-> 1]
           place == [i \in DOMAIN all |-> i]
<1>1. PICK spec, strict : ToolsOf(all, spec, strict)
  BY DEF Made
<1>2. DOMAIN served = DOMAIN all /\ DOMAIN all = 1..Len(all) /\ Len(all) \in Nat /\ Len(served) = Len(all)
  BY <1>1 DEF WithTexts, ToolsOf
<1>3. ASSUME NEW i \in DOMAIN all
      PROVE  /\ served[i].name = all[i].name /\ served[i].api = 1
             /\ \A f \in Carried : served[i][f] = all[i][f]
             /\ all[i].name \in Words \ MetaTools
             /\ BaseName(apis, 1, all[i]) = all[i].name
  <2>1. /\ DOMAIN all[i] = ToolFields /\ all[i].api = 1 /\ all[i].name \in Words \ MetaTools
    BY <1>1, ToolOf
  <2>2. served[i] = IF all[i].name \in texts THEN [all[i] EXCEPT !.description = "from the operator"] ELSE all[i]
    BY DEF WithTexts
  <2> HIDE DEF served, all
  <2>3. served[i].name = all[i].name /\ served[i].api = 1
    BY <2>1, <2>2 DEF ToolFields
  <2>4. \A f \in Carried : served[i][f] = all[i][f]
    BY <2>1, <2>2 DEF ToolFields, Carried
  <2>5. BaseName(apis, 1, all[i]) = all[i].name
    BY DEF BaseName, Claimed
  <2> QED
    BY <2>1, <2>3, <2>4, <2>5
<1>4. \A i, j \in DOMAIN all : all[i].name = all[j].name => i = j
  BY <1>1 DEF ToolsOf
<1>5. /\ \A i \in DOMAIN all : part[i] = 1 /\ place[i] = i
  OBVIOUS
<1> HIDE DEF served, part, place
<1>6. Surface(served, apis, part, place)
  BY <1>2, <1>3, <1>4, <1>5 DEF Surface
<1> QED
  BY <1>6 DEF served
-----------------------------------------------------------------------------
\* A word put in front makes another name, of which the word is a beginning,
LEMMA PrefixIs ==
  ASSUME NEW s \in Words, NEW t \in Words
  PROVE  IsPrefix(s, s \o t) /\ Len(s \o t) = Len(s) + Len(t)
<1>1. Len(s) \in Nat /\ Len(t) \in Nat /\ s \o t \in Words
  BY DEF Words
<1>2. Len(s \o t) = Len(s) + Len(t)
  BY DEF Words
<1>3. SubSeq(s, 1, Len(s)) = SubSeq(s \o t, 1, Len(s))
  BY DEF Words
<1> QED
  BY <1>1, <1>2, <1>3 DEF IsPrefix

\* and stays one when a number is added.
LEMMA LongerPrefix ==
  ASSUME NEW s \in Words, NEW t \in Words, NEW w \in Letters
  PROVE  IsPrefix(s, Append(s \o t, w)) /\ Len(Append(s \o t, w)) = Len(s) + Len(t) + 1
<1>1. <<w>> \in Words /\ t \o <<w>> \in Words /\ Len(t \o <<w>>) = Len(t) + 1
  BY DEF Words
<1>2. Append(s \o t, w) = s \o (t \o <<w>>)
  BY SMTT(30) DEF Words
<1> QED
  BY <1>1, <1>2, PrefixIs

\* On a surface every name resolves, and no API gets a name that two claim.
LEMMA SurfaceIs ==
  ASSUME NEW apis, Made(apis), NEW served, NEW part, NEW place, Surface(served, apis, part, place)
  PROVE  NamesResolve(served, apis) /\ NobodyWins(served, apis)
<1>1. \A a \in DOMAIN apis : \A k, m \in DOMAIN apis[a].tools :
        apis[a].tools[k].operation = apis[a].tools[m].operation => k = m
  BY DEF Made, ToolsOf
<1>2. \A a \in DOMAIN apis : \A k \in DOMAIN apis[a].tools :
        apis[a].tools[k].was = apis[a].tools[k].name /\ apis[a].tools[k].name \in Words
  BY ToolOf DEF Made
<1>3. {"operation", "was", "path", "method"} \subseteq Carried
  BY DEF Carried, ToolFields
<1>4. \A i \in DOMAIN served :
        LET t == apis[part[i]].tools[place[i]] IN
        /\ part[i] \in DOMAIN apis /\ place[i] \in DOMAIN apis[part[i]].tools /\ served[i].api = part[i]
        /\ served[i].operation = t.operation /\ served[i].was = t.name /\ t.name \in Words
  BY <1>2, <1>3 DEF Surface
<1>5. ASSUME NEW a \in DOMAIN apis, NEW t \in ValuesOf(apis[a].tools)
      PROVE  Cardinality({i \in DOMAIN served : served[i].api = a /\ served[i].operation = t.operation}) = 1
  <2>1. PICK k \in DOMAIN apis[a].tools : t = apis[a].tools[k]
    BY DEF ValuesOf
  <2>2. PICK i \in DOMAIN served : part[i] = a /\ place[i] = k
    BY DEF Surface
  <2>3. ASSUME NEW j \in DOMAIN served, served[j].api = a, served[j].operation = t.operation PROVE j = i
    <3>1. part[j] = a /\ place[j] \in DOMAIN apis[a].tools
          /\ apis[a].tools[place[j]].operation = apis[a].tools[k].operation
      BY <1>4, <2>1, <2>3
    <3>2. place[j] = k
      BY <1>1, <3>1
    <3> QED
      BY <2>2, <3>1, <3>2 DEF Surface
  <2>4. served[i].api = a /\ served[i].operation = t.operation
    BY <1>4, <2>1, <2>2
  <2>5. {j \in DOMAIN served : served[j].api = a /\ served[j].operation = t.operation} = {i}
    BY <2>3, <2>4
  <2> QED
    BY <2>5, FS_Singleton
<1>6. NamesResolve(served, apis)
  <2>1. \A i \in DOMAIN served : served[i].name \notin MetaTools
    BY DEF Surface
  <2>2. \A i, j \in DOMAIN served : served[i].name = served[j].name => i = j
    BY DEF Surface
  <2>3. \A i \in DOMAIN served :
          Reached(served, served[i].name) = i \/ served[i].name \in Dispatched \ MetaTools
    <3> SUFFICES ASSUME NEW i \in DOMAIN served, served[i].name \notin Dispatched
        PROVE Reached(served, served[i].name) = i
      BY <2>1
    <3> DEFINE named == {j \in DOMAIN served : served[j].name = served[i].name}
    <3>1. named = {i}
      BY <2>2
    <3>2. i <= i
      <4>1. i \in Nat
        BY DEF Surface
      <4> QED
        BY <4>1
    <3>3. Reached(served, served[i].name) = CHOOSE k \in named : \A j \in named : j <= k
      BY <3>1 DEF Reached
    <3> HIDE DEF named
    <3> QED
      BY <3>1, <3>2, <3>3
  <2> QED
    BY <1>5, <2>2, <2>3 DEF NamesResolve
<1>7. ASSUME NEW i \in DOMAIN served, Claimed(apis, served[i].api, [name |-> served[i].was])
      PROVE  served[i].name # served[i].was /\ IsPrefix(Slug(apis[served[i].api].label), served[i].name)
  <2> DEFINE a    == part[i]
             t    == apis[part[i]].tools[place[i]]
             slug == Slug(apis[part[i]].label)
             base == BaseName(apis, a, t)
  <2>1. a \in DOMAIN apis /\ served[i].api = a /\ served[i].was = t.name /\ t.name \in Words
    BY <1>4
  <2>2. Claimed(apis, a, t)
    BY <1>7, <2>1 DEF Claimed
  <2>3. DOMAIN apis # {1}
    BY <2>1, <2>2 DEF Claimed
  <2>4. slug \in Words /\ Len(slug) > 0
    BY <2>1, <2>3, SlugIs, SMTT(30) DEF Made
  <2>5. base = slug \o t.name
    BY <2>2 DEF BaseName
  <2>6. served[i].name = base \/ \E w \in Letters : served[i].name = Append(base, w)
    BY DEF Surface
  <2> HIDE DEF a, t, slug, base
  <2>7. Len(t.name) \in Nat /\ Len(slug) \in Nat
    BY <2>1, <2>4 DEF Words
  <2>8. CASE served[i].name = base
    <3>1. IsPrefix(slug, base) /\ Len(base) = Len(slug) + Len(t.name)
      BY <2>1, <2>4, <2>5, PrefixIs
    <3>2. base # t.name
      BY <2>4, <2>7, <3>1
    <3> QED
      BY <2>1, <2>8, <3>1, <3>2 DEF slug, a
  <2>9. ASSUME NEW w \in Letters, served[i].name = Append(base, w)
        PROVE  served[i].name # served[i].was /\ IsPrefix(Slug(apis[served[i].api].label), served[i].name)
    <3>1. IsPrefix(slug, Append(base, w)) /\ Len(Append(base, w)) = Len(slug) + Len(t.name) + 1
      BY <2>1, <2>4, <2>5, LongerPrefix
    <3>2. Append(base, w) # t.name
      BY <2>7, <3>1
    <3> QED
      BY <2>1, <2>9, <3>1, <3>2 DEF slug, a
  <2> QED
    BY <2>6, <2>8, <2>9
<1>8. NobodyWins(served, apis)
  BY <1>7 DEF NobodyWins
<1> QED
  BY <1>6, <1>8

\* A surface of tools that were kept by their filters keeps the policy.
LEMMA PolicyIs ==
  ASSUME NEW apis, NEW served, NEW part, NEW place, Surface(served, apis, part, place),
         NEW a, NEW flags, \A k \in DOMAIN apis[a].tools : Kept(apis[a].tools[k], flags)
  PROVE  PolicyKept(served, a, flags)
<1> SUFFICES ASSUME NEW i \in DOMAIN served, served[i].api = a
             PROVE  /\ served[i].path \notin flags.deny
                    /\ flags.readOnly /\ served[i].method # "get" => served[i].path \in flags.allow
  BY DEF PolicyKept
<1>1. {"path", "method"} \subseteq Carried
  BY DEF Carried, ToolFields
<1>2. PICK k \in DOMAIN apis[a].tools :
        served[i].path = apis[a].tools[k].path /\ served[i].method = apis[a].tools[k].method
  <2>1. /\ place[i] \in DOMAIN apis[a].tools
        /\ \A f \in Carried : served[i][f] = apis[a].tools[place[i]][f]
    BY DEF Surface
  <2>2. served[i]["path"] = apis[a].tools[place[i]]["path"] /\ served[i]["method"] = apis[a].tools[place[i]]["method"]
    BY <1>1, <2>1
  <2> QED
    BY <2>1, <2>2
<1>3. Kept(apis[a].tools[k], flags)
  OBVIOUS
<1> QED
  BY <1>2, <1>3 DEF Kept

\* The entries of a launch are made of its documents, with the tools its filters keep.
LEMMA EntriesAre ==
  ASSUME NumeralsDiffer, NEW l, LaunchRead(l), Starts(l)
  PROVE  /\ Made(Entries(l)) /\ DOMAIN Entries(l) = DOMAIN Namespaces(l)
         /\ DOMAIN l.data.apis = {} => DOMAIN Entries(l) = {1}
         /\ DOMAIN l.data.apis # {} => \A a \in DOMAIN Entries(l) : Entries(l)[a].label \in Words
         /\ \A a \in DOMAIN Entries(l) : \A k \in DOMAIN Entries(l)[a].tools :
              Kept(Entries(l)[a].tools[k], FilterFlags(Namespaces(l)[a]))
<1> DEFINE apis == l.data.apis
           order == SetToSeq(DOMAIN apis)
           nss == Namespaces(l)
           E == Entries(l)
           label(i) == IF DOMAIN apis = {} THEN NONE ELSE <<order[i]>>
<1>1. DOMAIN apis # {} => DOMAIN order = 1..Cardinality(DOMAIN apis) /\ Cardinality(DOMAIN apis) \in Nat
                          /\ \A i \in DOMAIN order : <<order[i]>> \in Words
  <2>1. IsFiniteSet(DOMAIN apis)
    BY DEF LaunchRead
  <2>2. order \in [1..Cardinality(DOMAIN apis) -> DOMAIN apis] /\ Cardinality(DOMAIN apis) \in Nat
    BY <2>1, SetToSeqIs
  <2>3. \A x \in STRING : <<x>> \in Words
    BY DEF Words, Letters
  <2>4. DOMAIN apis \subseteq STRING
    BY DEF LaunchRead
  <2> QED
    BY <2>2, <2>3, <2>4
<1>2. DOMAIN nss = IF DOMAIN apis = {} THEN {1} ELSE DOMAIN order
  BY DEF Namespaces
<1>3. E = [i \in DOMAIN nss |-> EntryOf(label(i), nss[i])]
  BY DEF Entries
<1>4. \E n \in Nat : DOMAIN nss = 1..n
  <2>1. {1} = 1..1
    OBVIOUS
  <2> QED
    BY <1>1, <1>2, <2>1
<1>5. ASSUME NEW i \in DOMAIN nss
      PROVE  /\ E[i].label = label(i)
             /\ \E spec, strict : ToolsOf(E[i].tools, spec, strict)
             /\ \A k \in DOMAIN E[i].tools : Kept(E[i].tools[k], FilterFlags(nss[i]))
  <2> DEFINE spec   == Documents[nss[i]["spec"]]
             strict == nss[i]["strict"] = "on"
  <2>1. E[i] = EntryOf(label(i), nss[i])
    BY <1>3
  <2>2. E[i].label = label(i) /\ E[i].tools = FilterTools(SpecToTools(spec, strict), FilterFlags(nss[i]))
    BY <2>1 DEF EntryOf
  <2>3. ReadAs(spec)
    BY SettingsAssumption, DocumentsAreRead DEF Starts, Servable
  <2> HIDE DEF spec, strict, E, label
  <2>4. ToolsOf(SpecToTools(spec, strict), spec, strict)
    BY <2>3, SpecToToolsAre
  <2>5. /\ ToolsOf(E[i].tools, spec, strict)
        /\ \A k \in DOMAIN E[i].tools : Kept(E[i].tools[k], FilterFlags(nss[i]))
    BY <2>2, <2>4, FilteredAre
  <2> QED
    BY <2>2, <2>5
<1>6. DOMAIN E = DOMAIN nss
  BY <1>3
<1>7. DOMAIN E = 1..Len(E) /\ Len(E) \in Nat
  <2>1. PICK n \in Nat : DOMAIN nss = 1..n
    BY <1>4
  <2>2. E = [i \in 1..n |-> E[i]]
    BY <1>3, <2>1
  <2> HIDE DEF E
  <2> QED
    BY <2>2
<1>8. DOMAIN apis # {} => \A a \in DOMAIN E : E[a].label \in Words
  BY <1>1, <1>2, <1>5, <1>6
<1>9. DOMAIN apis = {} => DOMAIN E = {1}
  BY <1>2, <1>6
<1> HIDE DEF E, nss, label
<1>10. Made(E)
  BY <1>5, <1>6, <1>7, <1>8, <1>9 DEF Made
<1> QED
  BY <1>5, <1>6, <1>8, <1>9, <1>10 DEF E, nss

\* What Boot makes of the entries.
SurfaceOf(l, apis) == IF DOMAIN l.data.apis # {} THEN Merge(apis) ELSE WithTexts(apis[1].tools, l.data.texts)

\* What a launch serves is a sound surface.
LEMMA SoundSurface ==
  ASSUME NumeralsDiffer, NEW l, LaunchRead(l), Starts(l)
  PROVE  LET served == SurfaceOf(l, Entries(l)) IN
         /\ NamesResolve(served, Entries(l)) /\ NobodyWins(served, Entries(l))
         /\ \A i \in DOMAIN Entries(l) : PolicyKept(served, i, FilterFlags(Namespaces(l)[i]))
<1> DEFINE apis == Entries(l)
           served == SurfaceOf(l, apis)
<1>1. /\ Made(apis)
      /\ DOMAIN l.data.apis = {} => DOMAIN apis = {1}
      /\ DOMAIN l.data.apis # {} => \A a \in DOMAIN apis : apis[a].label \in Words
      /\ \A a \in DOMAIN apis : \A k \in DOMAIN apis[a].tools :
           Kept(apis[a].tools[k], FilterFlags(Namespaces(l)[a]))
  BY EntriesAre
<1> HIDE DEF apis
<1>2. \E part, place : Surface(served, apis, part, place)
  <2>1. CASE DOMAIN l.data.apis = {}
    BY <1>1, <2>1, SingleIs DEF SurfaceOf
  <2>2. CASE DOMAIN l.data.apis # {}
    BY <1>1, <2>2, MergeIs DEF SurfaceOf
  <2> QED
    BY <2>1, <2>2
<1>3. PICK part, place : Surface(served, apis, part, place)
  BY <1>2
<1> HIDE DEF served
<1>4. NamesResolve(served, apis) /\ NobodyWins(served, apis)
  BY <1>1, <1>3, SurfaceIs
<1>5. \A i \in DOMAIN apis : PolicyKept(served, i, FilterFlags(Namespaces(l)[i]))
  BY <1>1, <1>3, PolicyIs
<1> QED
  BY <1>4, <1>5 DEF apis, served
-----------------------------------------------------------------------------
(* The process. *)

\* Once it is booted, the prompt has the entries and the surface of its launch.
SurfaceInv ==
  /\ launch \in Launches
  /\ stage \notin {"off", "failed"} =>
       Starts(launch) /\ entries = Entries(launch) /\ tools = SurfaceOf(launch, entries)

\* The invariant holds before the launch,
LEMMA SurfaceFirst == Init => SurfaceInv
  BY DEF Init, TryInit, SurfaceInv

\* and no step of the transports or of the prompt breaks it.
LEMMA SurfaceNext == SurfaceInv /\ [Next]_vars => SurfaceInv'
<1> SUFFICES ASSUME SurfaceInv, [Next]_vars PROVE SurfaceInv'
  OBVIOUS
<1>1. CASE Boot
  BY <1>1 DEF Boot, SurfaceInv, SurfaceOf
<1>2. CASE UNCHANGED <<stage, launch, entries, tools>>
  BY <1>2 DEF SurfaceInv
<1>3. CASE SetPolicy("fields") \/ SetPolicy("secrets")
  BY <1>2, <1>3 DEF SetPolicy
<1>4. CASE Show \/ Ask
  BY <1>4 DEF Show, Ask, SurfaceInv
<1>5. ASSUME NEW i \in DOMAIN tools, Call(i) PROVE SurfaceInv'
  <2>1. stage = "prompt" /\ UNCHANGED <<launch, entries, tools>>
    BY <1>5 DEF Call, Send
  <2> QED
    BY <2>1 DEF SurfaceInv
<1>6. ASSUME NEW i \in DOMAIN tools, Preview(i) PROVE SurfaceInv'
  <2>1. stage = "prompt" /\ UNCHANGED <<launch, entries, tools>>
    BY <1>6 DEF Preview
  <2> QED
    BY <2>1 DEF SurfaceInv
<1>7. ASSUME NEW i \in DOMAIN tools, CallMeta(i) PROVE SurfaceInv'
  <2>1. stage = "prompt" /\ UNCHANGED <<launch, entries, tools>>
    BY <1>7 DEF CallMeta
  <2> QED
    BY <2>1 DEF SurfaceInv
<1> QED
  BY <1>1, <1>2, <1>3, <1>4, <1>5, <1>6, <1>7 DEF Next, Prompt, TryNext, vars, tryVars

\* For every launch, any documents and any number of APIs: a name on the surface is one tool's,
\* and run_tool reaches that tool by it unless the name is mcpify_cache_invalidate, which the
\* server dispatches first and nothing reserves; every operation that was kept is served once, a
\* name two APIs claim is given to neither, and no filter is lost (tools.py 18-336, api_server.py
\* 289-303, aggregate.py 32-64, cli.py 45-80).
THEOREM SurfaceIsSound ==
  ASSUME NumeralsDiffer
  PROVE  Spec => []SurfaceSound
<1>1. SurfaceInv => SurfaceSound
  <2> SUFFICES ASSUME SurfaceInv, Started PROVE SurfaceSound
    BY DEF SurfaceSound
  <2>1. launch \in Launches /\ Starts(launch) /\ entries = Entries(launch) /\ tools = SurfaceOf(launch, entries)
    BY DEF SurfaceInv, Started
  <2>2. LaunchRead(launch)
    BY <2>1, ProcessAssumption
  <2>3. LET made == SurfaceOf(launch, Entries(launch)) IN
         /\ NamesResolve(made, Entries(launch)) /\ NobodyWins(made, Entries(launch))
         /\ \A i \in DOMAIN Entries(launch) : PolicyKept(made, i, FilterFlags(Namespaces(launch)[i]))
    BY <2>1, <2>2, SoundSurface
  <2> QED
    BY <2>1, <2>3 DEF SurfaceSound
<1> QED
  BY <1>1, SurfaceFirst, SurfaceNext, PTL DEF Spec

\* For any tables and flags: no setting of an API comes from another API's table, a flag with a
\* value of its own wins, and what [apis.NAME], the environment or [serve] says of a key that a
\* config can fill is applied unless they contradict each other (config.py 259-317, cli.py
\* 478-568 and 956).  Nothing is said of a flag that is given its default, zero or "off", nor,
\* but for the first, of keys that a config cannot fill: the code breaks the documents there.
THEOREM LayersAreKept == Spec => []LayersKept
<1>1. SurfaceInv => LayersKept
  BY SettingsAre, ProcessAssumption DEF SurfaceInv, LayersKept, Started
<1> QED
  BY <1>1, SurfaceFirst, SurfaceNext, PTL DEF Spec

\* The process implements the transports: no step of the prompt touches them (cli.py 1234-1283),
\* so that what McpTransportsProofs proves holds of the process.
THEOREM TransportsServed == Spec => TransportSpec
<1>1. Init => TransportInit
  BY DEF Init
<1>2. [Next]_vars => [TransportNext]_transportVars
  BY DEF Next, Prompt, vars
<1> QED
  BY <1>1, <1>2, PTL DEF Spec, TransportSpec
-----------------------------------------------------------------------------
(* The recursive functions of Specs. *)

\* Each level is what lies one step on from the level before.
LEMMA LevelsAre ==
  ASSUME NEW s, NEW schemas, MaxDepth + 1 \in Nat
  PROVE  LET L == Levels(s, schemas) IN
         /\ L[0] = {s}
         /\ \A d \in 1..(MaxDepth + 1) : L[d] = UNION {Onward(x, schemas) : x \in L[d - 1]}
<1> DEFINE N            == MaxDepth + 1
           Row(prev, n) == UNION {Onward(x, schemas) : x \in prev}
           Body(g, n)   == IF n = 0 THEN {s} ELSE Row(g[n - 1], n)
           Built(g, n)  == g = [m \in 0..n |-> Body(g, m)]
           T            == {n \in Nat : \E g : Built(g, n)}
<1>1. 0 \in T
  <2> DEFINE g == [m \in 0..0 |-> Body(<<>>, m)]
  <2>1. Built(g, 0)
    <3>1. \A m \in 0..0 : m = 0
      OBVIOUS
    <3> HIDE DEF Row
    <3>2. \A m \in 0..0 : Body(g, m) = Body(<<>>, m)
      BY <3>1
    <3> HIDE DEF Body
    <3> QED
      BY <3>2
  <2> QED
    BY <2>1
<1>2. ASSUME NEW n \in T PROVE n + 1 \in T
  <2>1. PICK g : Built(g, n)
    OBVIOUS
  <2>2. n \in Nat /\ n + 1 \in Nat
    OBVIOUS
  <2> DEFINE h == [m \in 0..(n + 1) |-> Body(g, m)]
  <2>3. \A m \in 0..n : h[m] = g[m]
    <3> SUFFICES ASSUME NEW m \in 0..n PROVE h[m] = g[m]
      OBVIOUS
    <3>1. m \in 0..(n + 1)
      BY <2>2
    <3> HIDE DEF Body
    <3> QED
      BY <2>1, <3>1
  <2>4. \A m \in 0..(n + 1) : m # 0 => m - 1 \in 0..n
    BY <2>2
  <2>5. \A m \in 0..(n + 1) : Body(g, m) = Body(h, m)
    <3> HIDE DEF h, Row
    <3> QED
      BY <2>3, <2>4
  <2>6. Built(h, n + 1)
    <3> HIDE DEF Body
    <3> QED
      BY <2>5
  <2> QED
    BY <2>2, <2>6
<1>3. PICK f : Built(f, N)
  <2>1. T \in SUBSET Nat
    OBVIOUS
  <2>2. N \in T
    <3> HIDE DEF T
    <3> QED
      BY <1>1, <1>2, <2>1, AllNat
  <2> QED
    BY <2>2
<1> DEFINE H == CHOOSE g : g = [n \in 0..N |-> IF n = 0 THEN {s} ELSE Row(g[n - 1], n)]
<1>4. H = [n \in 0..N |-> IF n = 0 THEN {s} ELSE Row(H[n - 1], n)]
  BY <1>3, Zenon
<1>5. Levels(s, schemas) = H
  BY Zenon DEF Levels
<1> HIDE DEF H, Row
<1>6. \A n \in 0..N : H[n] = IF n = 0 THEN {s} ELSE Row(H[n - 1], n)
  BY <1>4
<1>7. 0 \in 0..N /\ \A n \in 1..N : n \in 0..N /\ n # 0
  OBVIOUS
<1>8. H[0] = {s} /\ \A n \in 1..N : H[n] = Row(H[n - 1], n)
  BY <1>6, <1>7, Zenon
<1> QED
  BY <1>5, <1>8 DEF Row

\* A schema resolved, given how what it goes on to is resolved.
Refined(inner, x, schemas) ==
  LET Each(parts) == [i \in DOMAIN parts |-> inner[parts[i]]]
  IN IF x.ref # NONE THEN inner[schemas[x.ref]]
     ELSE Flattened(x, Each(x.props), Each(x.subs), Each(x.all))

\* A resolution with so many levels left goes on with one fewer.
LEMMA ResolutionIs ==
  ASSUME NEW s, NEW schemas, MaxDepth + 1 \in Nat, Levels(s, schemas)[MaxDepth + 1] = {}
  PROVE  \A n \in 1..(MaxDepth + 1) :
           Resolution(s, schemas)[n] = [x \in Levels(s, schemas)[MaxDepth + 1 - n] |->
                                          Refined(Resolution(s, schemas)[n - 1], x, schemas)]
<1> DEFINE N            == MaxDepth + 1
           Row(prev, n) == [x \in Levels(s, schemas)[MaxDepth + 1 - n] |-> Refined(prev, x, schemas)]
           Body(g, n)   == Row(g[n - 1], n)
           Built(g, n)  == g = [m \in 0..n |-> Body(g, m)]
           T            == {n \in Nat : \E g : Built(g, n)}
<1>0. \A p, q : Row(p, 0) = Row(q, 0)
  <2>1. MaxDepth + 1 - 0 = MaxDepth + 1
    OBVIOUS
  <2>2. Levels(s, schemas)[MaxDepth + 1 - 0] = {}
    BY <2>1
  <2> QED
    BY <2>2
<1>1. 0 \in T
  <2> DEFINE g == [m \in 0..0 |-> Body(<<>>, m)]
  <2>1. Built(g, 0)
    <3>1. \A m \in 0..0 : m = 0
      OBVIOUS
    <3> HIDE DEF Row
    <3>2. \A m \in 0..0 : Body(g, m) = Body(<<>>, m)
      BY <1>0, <3>1
    <3> HIDE DEF Body
    <3> QED
      BY <3>2
  <2> QED
    BY <2>1
<1>2. ASSUME NEW n \in T PROVE n + 1 \in T
  <2>1. PICK g : Built(g, n)
    OBVIOUS
  <2>2. n \in Nat /\ n + 1 \in Nat
    OBVIOUS
  <2> DEFINE h == [m \in 0..(n + 1) |-> Body(g, m)]
  <2>3. \A m \in 0..n : h[m] = g[m]
    <3> SUFFICES ASSUME NEW m \in 0..n PROVE h[m] = g[m]
      OBVIOUS
    <3>1. m \in 0..(n + 1)
      BY <2>2
    <3> HIDE DEF Body
    <3> QED
      BY <2>1, <3>1
  <2>4. \A m \in 0..(n + 1) : m # 0 => m - 1 \in 0..n
    BY <2>2
  <2>5. \A m \in 0..(n + 1) : Body(g, m) = Body(h, m)
    <3> HIDE DEF h, Row
    <3> QED
      BY <1>0, <2>3, <2>4
  <2>6. Built(h, n + 1)
    <3> HIDE DEF Body
    <3> QED
      BY <2>5
  <2> QED
    BY <2>2, <2>6
<1>3. PICK f : Built(f, N)
  <2>1. T \in SUBSET Nat
    OBVIOUS
  <2>2. N \in T
    <3> HIDE DEF T
    <3> QED
      BY <1>1, <1>2, <2>1, AllNat
  <2> QED
    BY <2>2
<1> DEFINE H == CHOOSE g : g = [n \in 0..N |-> Row(g[n - 1], n)]
<1>4. H = [n \in 0..N |-> Row(H[n - 1], n)]
  BY <1>3, Zenon
<1>5. Resolution(s, schemas) = H
  BY Zenon DEF Resolution, Refined
<1> HIDE DEF H, Row
<1>6. \A n \in 0..N : H[n] = Row(H[n - 1], n)
  BY <1>4
<1>7. 0 \in 0..N /\ \A n \in 1..N : n \in 0..N /\ n # 0
  OBVIOUS
<1>8. \A n \in 1..N : H[n] = Row(H[n - 1], n)
  BY <1>6, <1>7, Zenon
<1> QED
  BY <1>5, <1>8 DEF Row

\* Merging takes the members one by one.
MergeSteps(f, own, members) ==
  /\ f[0] = own
  /\ \A n \in 1..Len(members) : f[n] = Updated(f[n - 1], members[n])
  /\ Merged(own, members, FALSE) = f[Len(members)]

\* There is such a sequence of steps.
LEMMA MergedIs ==
  ASSUME NEW own, NEW members, Len(members) \in Nat
  PROVE  \E f : MergeSteps(f, own, members)
<1> DEFINE N            == Len(members)
           Row(prev, n) == Updated(prev, members[n])
           Body(g, n)   == IF n = 0 THEN own ELSE Row(g[n - 1], n)
           Built(g, n)  == g = [m \in 0..n |-> Body(g, m)]
           T            == {n \in Nat : \E g : Built(g, n)}
<1>1. 0 \in T
  <2> DEFINE g == [m \in 0..0 |-> Body(<<>>, m)]
  <2>1. Built(g, 0)
    <3>1. \A m \in 0..0 : m = 0
      OBVIOUS
    <3> HIDE DEF Row
    <3>2. \A m \in 0..0 : Body(g, m) = Body(<<>>, m)
      BY <3>1
    <3> HIDE DEF Body
    <3> QED
      BY <3>2
  <2> QED
    BY <2>1
<1>2. ASSUME NEW n \in T PROVE n + 1 \in T
  <2>1. PICK g : Built(g, n)
    OBVIOUS
  <2>2. n \in Nat /\ n + 1 \in Nat
    OBVIOUS
  <2> DEFINE h == [m \in 0..(n + 1) |-> Body(g, m)]
  <2>3. \A m \in 0..n : h[m] = g[m]
    <3> SUFFICES ASSUME NEW m \in 0..n PROVE h[m] = g[m]
      OBVIOUS
    <3>1. m \in 0..(n + 1)
      BY <2>2
    <3> HIDE DEF Body
    <3> QED
      BY <2>1, <3>1
  <2>4. \A m \in 0..(n + 1) : m # 0 => m - 1 \in 0..n
    BY <2>2
  <2>5. \A m \in 0..(n + 1) : Body(g, m) = Body(h, m)
    <3> HIDE DEF h, Row
    <3> QED
      BY <2>3, <2>4
  <2>6. Built(h, n + 1)
    <3> HIDE DEF Body
    <3> QED
      BY <2>5
  <2> QED
    BY <2>2, <2>6
<1>3. PICK f : Built(f, N)
  <2>1. T \in SUBSET Nat
    OBVIOUS
  <2>2. N \in T
    <3> HIDE DEF T
    <3> QED
      BY <1>1, <1>2, <2>1, AllNat
  <2> QED
    BY <2>2
<1> DEFINE H == CHOOSE g : g = [n \in 0..N |-> IF n = 0 THEN own ELSE Row(g[n - 1], n)]
<1>4. H = [n \in 0..N |-> IF n = 0 THEN own ELSE Row(H[n - 1], n)]
  BY <1>3, Zenon
<1>5. Merged(own, members, FALSE) = H[N]
  BY Zenon DEF Merged
<1> HIDE DEF H, Row
<1>6. \A n \in 0..N : H[n] = IF n = 0 THEN own ELSE Row(H[n - 1], n)
  BY <1>4
<1>7. 0 \in 0..N /\ \A n \in 1..N : n \in 0..N /\ n # 0
  OBVIOUS
<1>8. H[0] = own /\ \A n \in 1..N : H[n] = Row(H[n - 1], n)
  BY <1>6, <1>7, Zenon
<1> QED
  BY <1>5, <1>8 DEF Row, MergeSteps

\* The texts external $refs are written with.
TextsOf(files) == {r.key : r \in UNION ValuesOf(files)}

\* What a file leaves with n hops to go, given what the others leave with one fewer.
LeftOf(less, n, files, file, seen) ==
  UNION {IF r.key \in seen \/ n = 0 \/ r.at \notin DOMAIN files THEN {r}
         ELSE less[r.at][seen \cup {r.key}] : r \in files[file]}

\* What is left in goes down with the hops.
LEMMA LeftInIs ==
  ASSUME NEW files, NEW at, MaxHops \in Nat, at \in DOMAIN files
  PROVE  \E f : /\ \A n \in 1..MaxHops, file \in DOMAIN files, seen \in SUBSET TextsOf(files) :
                     f[n][file][seen] = LeftOf(f[n - 1], n, files, file, seen)
                /\ LeftIn(files, at) = f[MaxHops][at][{}]
<1> DEFINE N            == MaxHops
           Row(prev, n) == [file \in DOMAIN files |-> [seen \in SUBSET TextsOf(files) |->
                                LeftOf(prev, n, files, file, seen)]]
           Body(g, n)   == Row(g[n - 1], n)
           Built(g, n)  == g = [m \in 0..n |-> Body(g, m)]
           T            == {n \in Nat : \E g : Built(g, n)}
<1>0. \A p, q : Row(p, 0) = Row(q, 0)
  BY DEF LeftOf
<1>1. 0 \in T
  <2> DEFINE g == [m \in 0..0 |-> Body(<<>>, m)]
  <2>1. Built(g, 0)
    <3>1. \A m \in 0..0 : m = 0
      OBVIOUS
    <3> HIDE DEF Row
    <3>2. \A m \in 0..0 : Body(g, m) = Body(<<>>, m)
      BY <1>0, <3>1
    <3> HIDE DEF Body
    <3> QED
      BY <3>2
  <2> QED
    BY <2>1
<1>2. ASSUME NEW n \in T PROVE n + 1 \in T
  <2>1. PICK g : Built(g, n)
    OBVIOUS
  <2>2. n \in Nat /\ n + 1 \in Nat
    OBVIOUS
  <2> DEFINE h == [m \in 0..(n + 1) |-> Body(g, m)]
  <2>3. \A m \in 0..n : h[m] = g[m]
    <3> SUFFICES ASSUME NEW m \in 0..n PROVE h[m] = g[m]
      OBVIOUS
    <3>1. m \in 0..(n + 1)
      BY <2>2
    <3> HIDE DEF Body
    <3> QED
      BY <2>1, <3>1
  <2>4. \A m \in 0..(n + 1) : m # 0 => m - 1 \in 0..n
    BY <2>2
  <2>5. \A m \in 0..(n + 1) : Body(g, m) = Body(h, m)
    <3> HIDE DEF h, Row
    <3> QED
      BY <1>0, <2>3, <2>4
  <2>6. Built(h, n + 1)
    <3> HIDE DEF Body
    <3> QED
      BY <2>5
  <2> QED
    BY <2>2, <2>6
<1>3. PICK f : Built(f, N)
  <2>1. T \in SUBSET Nat
    OBVIOUS
  <2>2. N \in T
    <3> HIDE DEF T
    <3> QED
      BY <1>1, <1>2, <2>1, AllNat
  <2> QED
    BY <2>2
<1> DEFINE H == CHOOSE g : g = [n \in 0..N |-> Row(g[n - 1], n)]
<1>4. H = [n \in 0..N |-> Row(H[n - 1], n)]
  BY <1>3, Zenon
<1>5. LeftIn(files, at) = H[MaxHops][at][{}]
  BY Zenon DEF LeftIn, LeftOf, TextsOf
<1> HIDE DEF H, Row
<1>6. \A n \in 0..N : H[n] = Row(H[n - 1], n)
  BY <1>4
<1>7. 0 \in 0..N /\ \A n \in 1..N : n \in 0..N /\ n # 0
  OBVIOUS
<1>8. \A n \in 1..N : H[n] = Row(H[n - 1], n)
  BY <1>6, <1>7, Zenon
<1>9. \A n \in 1..MaxHops, file \in DOMAIN files, seen \in SUBSET TextsOf(files) :
        H[n][file][seen] = LeftOf(H[n - 1], n, files, file, seen)
  <2> SUFFICES ASSUME NEW n \in 1..MaxHops, NEW file \in DOMAIN files, NEW seen \in SUBSET TextsOf(files)
               PROVE  H[n][file][seen] = LeftOf(H[n - 1], n, files, file, seen)
    OBVIOUS
  <2>1. H[n] = Row(H[n - 1], n)
    BY <1>8
  <2>2. Row(H[n - 1], n)[file] = [x \in SUBSET TextsOf(files) |-> LeftOf(H[n - 1], n, files, file, x)]
    BY DEF Row
  <2> QED
    BY <2>1, <2>2
<1> QED
  BY <1>5, <1>9
-----------------------------------------------------------------------------
(* Cycles. *)

\* The limits are some.
LEMMA DepthIs == MaxDepth \in Nat \ {0} /\ MaxHops \in Nat \ {0}
  BY ProcessAssumption

\* What a schema has inside it, without the help of any component, lies as deep below it in
\* every document.
LEMMA Inside ==
  ASSUME NEW s, NEW schemas, Resolves(s, schemas),
         NEW d \in 0..MaxDepth, NEW x \in Levels(s, schemas)[d]
  PROVE  \A e \in 0..(MaxDepth + 1) : \A y \in Levels(x, <<>>)[e] :
           d + e <= MaxDepth /\ y \in Levels(s, schemas)[d + e]
<1> DEFINE L == Levels(s, schemas)
           X == Levels(x, <<>>)
           P(e) == \A y \in X[e] : d + e <= MaxDepth /\ y \in L[d + e]
           T == {e \in Nat : e <= MaxDepth + 1 => P(e)}
<1>0. MaxDepth \in Nat /\ MaxDepth + 1 \in Nat /\ d \in Nat
  BY DepthIs
<1>1. /\ L[MaxDepth + 1] = {}
      /\ \A n \in 1..(MaxDepth + 1) : L[n] = UNION {Onward(z, schemas) : z \in L[n - 1]}
  BY <1>0, LevelsAre DEF Resolves
<1>2. X[0] = {x} /\ \A n \in 1..(MaxDepth + 1) : X[n] = UNION {Onward(z, <<>>) : z \in X[n - 1]}
  BY <1>0, LevelsAre
<1>3. \A z : \A y \in Onward(z, <<>>) : y \in Onward(z, schemas)
  BY DEF Onward
<1>4. x \in L[d] /\ d <= MaxDepth
  OBVIOUS
<1> HIDE DEF L, X
<1>5. 0 \in T
  BY <1>0, <1>2, <1>4
<1>6. ASSUME NEW e \in T PROVE e + 1 \in T
  <2>1. e \in Nat /\ e + 1 \in Nat /\ (e + 1) - 1 = e
    OBVIOUS
  <2> SUFFICES ASSUME e + 1 <= MaxDepth + 1, NEW y \in X[e + 1]
               PROVE  d + (e + 1) <= MaxDepth /\ y \in L[d + (e + 1)]
    BY <2>1
  <2>2. e + 1 \in 1..(MaxDepth + 1) /\ P(e)
    BY <1>0, <2>1
  <2>3. PICK z \in X[e] : y \in Onward(z, <<>>)
    <3>1. X[e + 1] = UNION {Onward(z, <<>>) : z \in X[e]}
      BY <1>2, <2>1, <2>2
    <3> QED
      BY <3>1
  <2>4. d + e <= MaxDepth /\ z \in L[d + e]
    BY <2>2, <2>3
  <2>5. d + (e + 1) \in 1..(MaxDepth + 1) /\ (d + (e + 1)) - 1 = d + e
    BY <1>0, <2>1, <2>4
  <2>6. y \in L[d + (e + 1)]
    <3>1. L[d + (e + 1)] = UNION {Onward(w, schemas) : w \in L[d + e]}
      BY <1>1, <2>5
    <3> QED
      BY <1>3, <2>3, <2>4, <3>1
  <2>7. d + (e + 1) # MaxDepth + 1
    BY <1>1, <2>6
  <2> QED
    BY <2>5, <2>6, <2>7, <1>0
<1>7. \A e \in Nat : e \in T
  <2>1. T \in SUBSET Nat
    OBVIOUS
  <2> HIDE DEF T
  <2> QED
    BY <1>5, <1>6, <2>1, AllNat
<1> QED
  BY <1>0, <1>7 DEF L, X

\* All that a schema leads to has a target, which is met deeper down.
LEMMA Deeper ==
  ASSUME NEW s, NEW schemas, Resolves(s, schemas),
         NEW d \in 0..MaxDepth, NEW x \in Levels(s, schemas)[d],
         NEW n \in Reaches(Mentions(x), schemas)
  PROVE  n \in DOMAIN schemas /\ \E e \in (d + 1)..MaxDepth : schemas[n] \in Levels(s, schemas)[e]
<1> DEFINE L == Levels(s, schemas)
           all == Mentions(x) \cup UNION {Mentions(y) : y \in ValuesOf(schemas)}
           Met(b, m) == m \in DOMAIN schemas /\ \E e \in (b + 1)..MaxDepth : schemas[m] \in L[e]
           C == {m \in all : Met(d, m)}
<1>0. MaxDepth \in Nat /\ MaxDepth + 1 \in Nat /\ NONE = NONE
  BY DepthIs
<1>1. /\ L[MaxDepth + 1] = {}
      /\ \A k \in 1..(MaxDepth + 1) : L[k] = UNION {Onward(z, schemas) : z \in L[k - 1]}
      /\ \A k \in 0..MaxDepth : \A y \in L[k] : y.ref \in DOMAIN schemas \cup {NONE}
  BY <1>0, LevelsAre DEF Resolves
<1>2. ASSUME NEW b \in 0..MaxDepth, NEW y \in L[b], NEW m \in Mentions(y) PROVE Met(b, m)
  <2>0. PICK e \in 0..MaxDepth : \E z \in Levels(y, <<>>)[e] : m = z.ref /\ m # NONE
    BY <1>2 DEF Mentions
  <2>1. PICK z \in Levels(y, <<>>)[e] : m = z.ref /\ m # NONE
    BY <2>0
  <2>2. b + e <= MaxDepth /\ z \in L[b + e]
    BY <1>0, <1>2, <2>0, <2>1, Inside
  <2>3. b + e \in 0..MaxDepth /\ b + e + 1 \in 1..(MaxDepth + 1) /\ (b + e + 1) - 1 = b + e
    BY <1>0, <2>0, <2>2
  <2> HIDE DEF L
  <2>4. m \in DOMAIN schemas
    BY <1>1, <2>1, <2>2, <2>3
  <2>5. schemas[m] \in Onward(z, schemas)
    BY <2>1, <2>4 DEF Onward
  <2>6. schemas[m] \in L[b + e + 1]
    BY <1>1, <2>2, <2>3, <2>5
  <2>7. b + e + 1 # MaxDepth + 1
    BY <1>1, <2>6
  <2>8. b + e + 1 \in (b + 1)..MaxDepth
    BY <1>0, <2>0, <2>3, <2>7
  <2> QED
    BY <2>4, <2>6, <2>8
<1>3. Mentions(x) \subseteq C
  BY <1>2
<1>4. ASSUME NEW m \in C \cap DOMAIN schemas PROVE Mentions(schemas[m]) \subseteq C
  <2>1. PICK b \in (d + 1)..MaxDepth : schemas[m] \in L[b]
    OBVIOUS
  <2>2. b \in 0..MaxDepth /\ \A e \in (b + 1)..MaxDepth : e \in (d + 1)..MaxDepth
    BY <1>0, <2>1
  <2>3. \A k \in Mentions(schemas[m]) : Met(d, k)
    BY <1>2, <2>1, <2>2
  <2>4. Mentions(schemas[m]) \subseteq all
    BY DEF ValuesOf
  <2> QED
    BY <2>3, <2>4
<1>5. n \in C
  <2>1. C \in SUBSET all
    OBVIOUS
  <2> HIDE DEF C
  <2> QED
    BY <1>3, <1>4, <2>1 DEF Reaches
<1> QED
  BY <1>5

\* A cycle of components is too deep for every limit: were a component on its own chain, the last
\* level it is on would not be the last.
LEMMA CyclesCaught ==
  ASSUME NEW s, NEW schemas
  PROVE  CyclesAreCaught(s, schemas)
<1> SUFFICES ASSUME Resolves(s, schemas), NEW n \in Reaches(Mentions(s), schemas)
             PROVE  n \in DOMAIN schemas /\ n \notin Reaches(Mentions(schemas[n]), schemas)
  BY Zenon DEF CyclesAreCaught
<1> DEFINE L == Levels(s, schemas)
           D == {k \in Nat : \E e \in 0..MaxDepth : schemas[n] \in L[e] /\ k = MaxDepth - e}
<1>0. MaxDepth \in Nat /\ MaxDepth + 1 \in Nat /\ 0 \in 0..MaxDepth
  BY DepthIs
<1>1. s \in L[0]
  BY <1>0, LevelsAre
<1>2. n \in DOMAIN schemas /\ \E e \in 1..MaxDepth : schemas[n] \in L[e]
  BY <1>0, <1>1, Deeper
<1>3. SUFFICES ASSUME n \in Reaches(Mentions(schemas[n]), schemas) PROVE FALSE
  BY <1>2
<1>4. \A e \in 0..MaxDepth : schemas[n] \in L[e] => \E k \in (e + 1)..MaxDepth : schemas[n] \in L[k]
  BY <1>3, Deeper
<1> HIDE DEF L
<1>5. D # {} /\ D \in SUBSET Nat
  <2>1. PICK e \in 1..MaxDepth : schemas[n] \in L[e]
    BY <1>2
  <2>2. MaxDepth - e \in D
    BY <1>0, <2>1
  <2> QED
    BY <2>2
<1>6. PICK k \in D : \A m \in D : k <= m
  <2> HIDE DEF D
  <2> QED
    BY <1>5, LeastOf
<1>7. PICK e \in 0..MaxDepth : schemas[n] \in L[e] /\ k = MaxDepth - e
  OBVIOUS
<1>8. PICK f \in (e + 1)..MaxDepth : schemas[n] \in L[f]
  BY <1>4, <1>7
<1>9. MaxDepth - f \in D /\ MaxDepth - f < k
  BY <1>0, <1>7, <1>8
<1> QED
  BY <1>6, <1>9
-----------------------------------------------------------------------------
(* allOf. *)

\* What a part goes through, the schema it is a part of goes through one level deeper.
LEMMA PartIsDeeper ==
  ASSUME NEW s, NEW schemas, NEW r \in Onward(s, schemas)
  PROVE  \A e \in 0..MaxDepth : Levels(r, schemas)[e] \subseteq Levels(s, schemas)[e + 1]
<1> DEFINE L == Levels(s, schemas)
           R == Levels(r, schemas)
           T == {e \in Nat : e <= MaxDepth => R[e] \subseteq L[e + 1]}
<1>0. MaxDepth \in Nat /\ MaxDepth + 1 \in Nat /\ 1 \in 1..(MaxDepth + 1) /\ 1 - 1 = 0 /\ 0 + 1 = 1
  BY DepthIs
<1>1. /\ L[0] = {s} /\ R[0] = {r}
      /\ \A k \in 1..(MaxDepth + 1) : L[k] = UNION {Onward(z, schemas) : z \in L[k - 1]}
      /\ \A k \in 1..(MaxDepth + 1) : R[k] = UNION {Onward(z, schemas) : z \in R[k - 1]}
  BY <1>0, LevelsAre
<1> HIDE DEF L, R
<1>2. 0 \in T
  <2>1. L[1] = UNION {Onward(z, schemas) : z \in {s}}
    BY <1>0, <1>1
  <2> QED
    BY <1>0, <1>1, <2>1
<1>3. ASSUME NEW e \in T PROVE e + 1 \in T
  <2>1. e \in Nat /\ e + 1 \in Nat /\ (e + 1) - 1 = e /\ (e + 1) + 1 = e + 2 /\ (e + 2) - 1 = e + 1
    OBVIOUS
  <2> SUFFICES ASSUME e + 1 <= MaxDepth PROVE R[e + 1] \subseteq L[e + 2]
    BY <2>1
  <2>2. e + 1 \in 1..(MaxDepth + 1) /\ e + 2 \in 1..(MaxDepth + 1) /\ R[e] \subseteq L[e + 1]
    BY <1>0, <2>1
  <2>3. R[e + 1] = UNION {Onward(z, schemas) : z \in R[e]}
    BY <1>1, <2>1, <2>2
  <2>4. L[e + 2] = UNION {Onward(z, schemas) : z \in L[e + 1]}
    BY <1>1, <2>1, <2>2
  <2> QED
    BY <2>2, <2>3, <2>4
<1>4. \A e \in Nat : e \in T
  <2>1. T \in SUBSET Nat
    OBVIOUS
  <2> HIDE DEF T
  <2> QED
    BY <1>2, <1>3, <2>1, AllNat
<1> QED
  BY <1>0, <1>4 DEF L, R

\* So it is resolved to the same, by itself or inside.
LEMMA PartIsTheSame ==
  ASSUME NEW s, NEW schemas, Resolves(s, schemas), NEW r \in Onward(s, schemas)
  PROVE  /\ Levels(r, schemas)[MaxDepth + 1] = {}
         /\ Resolution(s, schemas)[MaxDepth][r] = Resolved(r, schemas)
<1> DEFINE L == Levels(s, schemas)
           R == Levels(r, schemas)
           U == Resolution(s, schemas)
           V == Resolution(r, schemas)
           P(n) == \A x \in R[MaxDepth - n] : U[n][x] = V[n + 1][x]
           T == {n \in Nat : n <= MaxDepth => P(n)}
<1>0. MaxDepth \in Nat /\ MaxDepth + 1 \in Nat /\ MaxDepth >= 1 /\ MaxDepth + 1 \in 1..(MaxDepth + 1)
      /\ (MaxDepth + 1) - 1 = MaxDepth /\ MaxDepth - 0 = MaxDepth /\ MaxDepth \in 0..MaxDepth
  BY DepthIs
<1>1. /\ L[MaxDepth + 1] = {} /\ R[0] = {r}
      /\ \A k \in 1..(MaxDepth + 1) : R[k] = UNION {Onward(z, schemas) : z \in R[k - 1]}
      /\ \A k \in 0..MaxDepth : R[k] \subseteq L[k + 1]
      /\ \A k \in 0..MaxDepth : \A x \in L[k] : x.ref \in DOMAIN schemas \cup {NONE}
  BY <1>0, LevelsAre, PartIsDeeper DEF Resolves
<1>2. R[MaxDepth] = {}
  BY <1>0, <1>1
<1>3. R[MaxDepth + 1] = {}
  <2>1. R[MaxDepth + 1] = UNION {Onward(z, schemas) : z \in R[MaxDepth]}
    BY <1>0, <1>1
  <2> QED
    BY <1>2, <2>1
<1>4. \A n \in 1..(MaxDepth + 1) : U[n] = [x \in L[MaxDepth + 1 - n] |-> Refined(U[n - 1], x, schemas)]
  BY <1>0, <1>1, ResolutionIs
<1>5. \A n \in 1..(MaxDepth + 1) : V[n] = [x \in R[MaxDepth + 1 - n] |-> Refined(V[n - 1], x, schemas)]
  BY <1>0, <1>3, ResolutionIs
<1> HIDE DEF L, R, U, V
<1>6. 0 \in T
  BY <1>0, <1>2
<1>7. ASSUME NEW n \in T PROVE n + 1 \in T
  <2>1. n \in Nat /\ n + 1 \in Nat
    OBVIOUS
  <2> SUFFICES ASSUME n + 1 <= MaxDepth, NEW x \in R[MaxDepth - (n + 1)]
               PROVE  U[n + 1][x] = V[n + 2][x]
    BY <2>1
  <2> DEFINE k == MaxDepth - (n + 1)
  <2>2. /\ k \in 0..MaxDepth /\ k + 1 = MaxDepth - n /\ k + 1 \in 1..(MaxDepth + 1) /\ (k + 1) - 1 = k
        /\ MaxDepth + 1 - (n + 1) = k + 1 /\ MaxDepth + 1 - (n + 2) = k
        /\ n + 1 \in 1..(MaxDepth + 1) /\ n + 2 \in 1..(MaxDepth + 1) /\ (n + 2) - 1 = n + 1
        /\ (n + 1) - 1 = n
    BY <1>0, <2>1
  <2>3. P(n)
    BY <1>0, <2>1, <2>2
  <2>4. \A y \in Onward(x, schemas) : U[n][y] = V[n + 1][y]
    <3>1. R[k + 1] = UNION {Onward(z, schemas) : z \in R[k]}
      BY <1>1, <2>2
    <3>2. \A y \in Onward(x, schemas) : y \in R[k + 1]
      BY <3>1
    <3> QED
      BY <2>2, <2>3, <3>2
  <2>5. x \in L[k + 1] /\ (x.ref \in DOMAIN schemas \cup {NONE})
    <3>1. x \in L[k + 1]
      BY <1>1, <2>2
    <3>2. k + 1 # MaxDepth + 1
      BY <1>1, <3>1
    <3>3. k + 1 \in 0..MaxDepth
      BY <1>0, <2>2, <3>2
    <3> QED
      BY <1>1, <3>1, <3>3
  <2>6. U[n + 1][x] = Refined(U[n], x, schemas)
    <3>1. U[n + 1] = [z \in L[k + 1] |-> Refined(U[n], z, schemas)]
      BY <1>4, <2>2
    <3> QED
      BY <2>5, <3>1
  <2>7. V[n + 2][x] = Refined(V[n + 1], x, schemas)
    <3>1. V[n + 2] = [z \in R[k] |-> Refined(V[n + 1], z, schemas)]
      BY <1>5, <2>2
    <3> QED
      BY <3>1
  <2>8. Refined(U[n], x, schemas) = Refined(V[n + 1], x, schemas)
    <3>1. CASE x.ref # NONE
      <4>1. schemas[x.ref] \in Onward(x, schemas)
        BY <2>5, <3>1 DEF Onward
      <4>2. U[n][schemas[x.ref]] = V[n + 1][schemas[x.ref]]
        BY <2>4, <4>1
      <4> QED
        BY <3>1, <4>2 DEF Refined
    <3>2. CASE x.ref = NONE
      <4> DEFINE Each(W, m, parts) == [i \in DOMAIN parts |-> W[m][parts[i]]]
      <4>1. \A parts \in {x.props, x.subs, x.all} : \A i \in DOMAIN parts : parts[i] \in Onward(x, schemas)
        BY <3>2 DEF Onward, Parts, ValuesOf
      <4>2. ASSUME NEW parts \in {x.props, x.subs, x.all} PROVE Each(U, n, parts) = Each(V, n + 1, parts)
        BY <2>4, <4>1
      <4>3. Each(U, n, x.props) = Each(V, n + 1, x.props)
        BY <4>2
      <4>4. Each(U, n, x.subs) = Each(V, n + 1, x.subs)
        BY <4>2
      <4>5. Each(U, n, x.all) = Each(V, n + 1, x.all)
        BY <4>2
      <4>6. Refined(U[n], x, schemas) = Flattened(x, Each(U, n, x.props), Each(U, n, x.subs), Each(U, n, x.all))
        BY <3>2 DEF Refined
      <4>7. Refined(V[n + 1], x, schemas) = Flattened(x, Each(V, n + 1, x.props), Each(V, n + 1, x.subs), Each(V, n + 1, x.all))
        BY <3>2 DEF Refined
      <4> HIDE DEF Each
      <4> QED
        BY <4>3, <4>4, <4>5, <4>6, <4>7
    <3> QED
      BY <3>1, <3>2
  <2> QED
    BY <2>6, <2>7, <2>8
<1>8. \A n \in Nat : n \in T
  <2>1. T \in SUBSET Nat
    OBVIOUS
  <2> HIDE DEF T
  <2> QED
    BY <1>6, <1>7, <2>1, AllNat
<1>9. U[MaxDepth][r] = V[MaxDepth + 1][r]
  <2>1. P(MaxDepth)
    BY <1>0, <1>8
  <2>2. r \in R[MaxDepth - MaxDepth]
    BY <1>0, <1>1
  <2> QED
    BY <2>1, <2>2
<1> QED
  BY <1>3, <1>9 DEF U, V, R, Resolved

\* A merge keeps the keys of every member.
LEMMA MergedKeeps ==
  ASSUME NEW own, NEW members, Len(members) \in Nat, NEW i \in 1..Len(members)
  PROVE  DOMAIN members[i] \subseteq DOMAIN Merged(own, members, FALSE)
<1>0. PICK f : MergeSteps(f, own, members)
  BY MergedIs
<1>1. /\ f[0] = own
      /\ \A n \in 1..Len(members) : f[n] = Updated(f[n - 1], members[n])
      /\ Merged(own, members, FALSE) = f[Len(members)]
  BY <1>0, Zenon DEF MergeSteps
<1>2. \A n \in 1..Len(members) : DOMAIN f[n] = DOMAIN f[n - 1] \cup DOMAIN members[n]
  <2> SUFFICES ASSUME NEW n \in 1..Len(members) PROVE DOMAIN f[n] = DOMAIN f[n - 1] \cup DOMAIN members[n]
    OBVIOUS
  <2>1. f[n] = Updated(f[n - 1], members[n])
    BY <1>1
  <2> QED
    BY <2>1 DEF Updated
<1> DEFINE T == {k \in Nat : i + k <= Len(members) => DOMAIN members[i] \subseteq DOMAIN f[i + k]}
<1>3. 0 \in T
  BY <1>2
<1>4. ASSUME NEW k \in T PROVE k + 1 \in T
  <2>1. k \in Nat /\ k + 1 \in Nat /\ i + (k + 1) = i + k + 1
    OBVIOUS
  <2> SUFFICES ASSUME i + k + 1 <= Len(members) PROVE DOMAIN members[i] \subseteq DOMAIN f[i + k + 1]
    BY <2>1
  <2>2. i + k + 1 \in 1..Len(members) /\ (i + k + 1) - 1 = i + k /\ i + k <= Len(members)
    BY <2>1
  <2>3. DOMAIN members[i] \subseteq DOMAIN f[i + k]
    BY <2>2
  <2>4. DOMAIN f[i + k + 1] = DOMAIN f[i + k] \cup DOMAIN members[i + k + 1]
    BY <1>2, <2>2
  <2> QED
    BY <2>3, <2>4
<1>5. \A k \in Nat : k \in T
  <2>1. T \in SUBSET Nat
    OBVIOUS
  <2> HIDE DEF T
  <2> QED
    BY <1>3, <1>4, <2>1, AllNat
<1>6. Len(members) - i \in T /\ i + (Len(members) - i) = Len(members)
  <2> HIDE DEF T
  <2>1. Len(members) - i \in Nat
    OBVIOUS
  <2> QED
    BY <1>5, <2>1
<1>7. DOMAIN members[i] \subseteq DOMAIN f[i + (Len(members) - i)]
  BY <1>6
<1> QED
  BY <1>1, <1>6, <1>7

\* Whatever the members of allOf are: what they declare is merged upward, in their order.
LEMMA MembersDoSurvive ==
  ASSUME NEW s, NEW schemas, SchemaRead(s)
  PROVE  MembersSurvive(s, schemas)
<1> SUFFICES ASSUME s.ref = NONE, ~s.allFirst, Resolves(s, schemas), NEW i \in DOMAIN s.all
             PROVE  /\ DOMAIN Resolved(s.all[i], schemas).props \subseteq DOMAIN Resolved(s, schemas).props
                    /\ Resolved(s.all[i], schemas).required \subseteq Resolved(s, schemas).required
  BY Zenon DEF MembersSurvive, MembersMerged
<1> DEFINE U == Resolution(s, schemas)
           Each(parts) == [k \in DOMAIN parts |-> U[MaxDepth][parts[k]]]
           all == Each(s.all)
           props == [k \in DOMAIN all |-> all[k].props]
           whole == Resolved(s, schemas)
<1>0. MaxDepth \in Nat /\ MaxDepth + 1 \in Nat /\ MaxDepth + 1 \in 1..(MaxDepth + 1)
      /\ (MaxDepth + 1) - 1 = MaxDepth /\ MaxDepth + 1 - (MaxDepth + 1) = 0
  BY DepthIs
<1>1. Levels(s, schemas)[MaxDepth + 1] = {} /\ Levels(s, schemas)[0] = {s}
  BY <1>0, LevelsAre DEF Resolves
<1>2. whole = Flattened(s, Each(s.props), Each(s.subs), Each(s.all))
  <2>1. U[MaxDepth + 1] = [x \in {s} |-> Refined(U[MaxDepth], x, schemas)]
    <3>1. U[MaxDepth + 1] = [x \in Levels(s, schemas)[MaxDepth + 1 - (MaxDepth + 1)] |->
                               Refined(U[(MaxDepth + 1) - 1], x, schemas)]
      BY <1>0, <1>1, ResolutionIs
    <3>2. Levels(s, schemas)[MaxDepth + 1 - (MaxDepth + 1)] = {s} /\ U[(MaxDepth + 1) - 1] = U[MaxDepth]
      BY <1>0, <1>1
    <3> HIDE DEF U
    <3> QED
      BY <3>1, <3>2
  <2>2. U[MaxDepth + 1][s] = Refined(U[MaxDepth], s, schemas)
    <3> HIDE DEF U
    <3> QED
      BY <2>1
  <2> QED
    BY <2>2 DEF Resolved, Refined
<1>3. all[i] = Resolved(s.all[i], schemas)
  <2>1. s.all[i] \in Onward(s, schemas)
    BY DEF Onward, Parts, ValuesOf
  <2> QED
    BY <2>1, PartIsTheSame
<1>9. s.allFirst = FALSE
  BY DEF SchemaRead
<1>4. /\ whole.props = Merged(Each(s.props), props, s.allFirst)
      /\ whole.required = IF s.allFirst /\ s.required # {} THEN s.required
                          ELSE s.required \cup UNION {all[k].required : k \in DOMAIN all}
  <2>1. {"props", "required"} \subseteq DOMAIN s
    BY DEF SchemaRead, Plain
  <2> HIDE DEF Each
  <2> QED
    BY <1>2, <2>1 DEF Flattened
<1>5. Len(s.all) \in Nat /\ DOMAIN s.all = 1..Len(s.all)
  BY DEF SchemaRead
<1>6. DOMAIN all = 1..Len(s.all) /\ DOMAIN props = 1..Len(s.all) /\ props[i] = all[i].props
  BY <1>5
<1>7. Len(props) = Len(s.all)
  <2>1. props = [k \in 1..Len(s.all) |-> props[k]]
    BY <1>6
  <2> HIDE DEF props
  <2>2. \A k \in 1..Len(s.all) : props[k] \in ValuesOf(props)
    BY <1>6 DEF ValuesOf
  <2>3. props \in [1..Len(s.all) -> ValuesOf(props)]
    BY <2>1, <2>2
  <2> QED
    BY <1>5, <2>3, IsSeq
<1> HIDE DEF all, props, whole, Each
<1>8. DOMAIN props[i] \subseteq DOMAIN Merged(Each(s.props), props, FALSE)
  BY <1>5, <1>7, MergedKeeps
<1>10. DOMAIN Resolved(s.all[i], schemas).props \subseteq DOMAIN whole.props
  BY <1>3, <1>4, <1>6, <1>8, <1>9
<1>11. Resolved(s.all[i], schemas).required \subseteq whole.required
  BY <1>3, <1>4, <1>5, <1>6, <1>9
<1> QED
  BY <1>10, <1>11 DEF whole
-----------------------------------------------------------------------------
(* Files. *)

\* What a file refers to is on its chain, and so is what that refers to.
LEMMA ChainIs ==
  ASSUME NEW files, NEW a \in DOMAIN files
  PROVE  /\ Referred(files, a) \subseteq ChainOf(files, a)
         /\ \A b \in ChainOf(files, a) \cap DOMAIN files : Referred(files, b) \subseteq ChainOf(files, a)
<1> DEFINE all == UNION {Referred(files, x) : x \in DOMAIN files}
           closed == {C \in SUBSET all :
                        \A x \in {a} \cup (C \cap DOMAIN files) : Referred(files, x) \subseteq C}
<1>1. ChainOf(files, a) = {x \in all : \A C \in closed : x \in C}
  BY DEF ChainOf
<1>2. \A x \in DOMAIN files : Referred(files, x) \subseteq all
  OBVIOUS
<1>3. Referred(files, a) \subseteq ChainOf(files, a)
  BY <1>1, <1>2
<1>4. ASSUME NEW b \in ChainOf(files, a) \cap DOMAIN files
      PROVE  Referred(files, b) \subseteq ChainOf(files, a)
  <2>1. \A C \in closed : b \in C
    BY <1>1
  <2>2. \A C \in closed : Referred(files, b) \subseteq C
    BY <2>1
  <2> HIDE DEF closed, all
  <2> QED
    BY <1>1, <1>2, <2>2
<1> QED
  BY <1>3, <1>4

\* Files without a cycle are inlined by way of every chain: each hop leaves fewer files to come,
\* and a text that was seen would be that of a file on its own chain.
LEMMA AllAreInlined ==
  ASSUME NEW files, IsFiniteSet(DOMAIN files), NEW at \in DOMAIN files
  PROVE  AllInlined(files, at)
<1> DEFINE all   == {at} \cup ChainOf(files, at)
           refs  == UNION {files[a] : a \in all \cap DOMAIN files}
           texts == TextsOf(files)
<1> SUFFICES ASSUME all \subseteq DOMAIN files, Cardinality(all) <= MaxHops,
                    \A a \in all : a \notin ChainOf(files, a),
                    \A r, q \in refs : r.key = q.key => r.at = q.at
             PROVE  LeftIn(files, at) = {}
  BY Zenon DEF AllInlined
<1>0. MaxHops \in Nat
  BY DepthIs
<1>1. PICK f : /\ \A n \in 1..MaxHops, file \in DOMAIN files, seen \in SUBSET TextsOf(files) :
                    f[n][file][seen] = LeftOf(f[n - 1], n, files, file, seen)
               /\ LeftIn(files, at) = f[MaxHops][at][{}]
  BY <1>0, LeftInIs
<1> DEFINE On(file, seen, V) ==
             /\ \A a \in V : file \in ChainOf(files, a)
             /\ \A k \in seen : \E q \in refs : q.key = k /\ q.at \in V \cup {file}
           P(n) == \A file \in all : \A seen \in SUBSET texts : \A V \in SUBSET all :
                     Cardinality(V) = MaxHops - n /\ On(file, seen, V) => f[n][file][seen] = {}
           T == {n \in Nat : n <= MaxHops => P(n)}
<1>2. IsFiniteSet(all)
  BY FS_Subset
<1>3. \A a \in all : Referred(files, a) \subseteq all
  BY ChainIs
<1>4. \A a \in all : \A r \in files[a] : r.at \in Referred(files, a) /\ r \in refs /\ r.key \in texts
  <2>1. \A a \in all : a \in DOMAIN files /\ files[a] \in ValuesOf(files)
    BY DEF ValuesOf
  <2> QED
    BY <2>1 DEF Referred, TextsOf
<1> HIDE DEF all, refs, texts
<1>5. ASSUME NEW file \in all, NEW seen, NEW V \in SUBSET all, On(file, seen, V)
      PROVE  /\ file \notin V
             /\ IsFiniteSet(V) /\ Cardinality(V \cup {file}) = Cardinality(V) + 1 /\ Cardinality(V) \in Nat
             /\ Cardinality(V) + 1 <= MaxHops
             /\ \A r \in files[file] : r.key \notin seen /\ r.at \in all
                                       /\ On(r.at, seen \cup {r.key}, V \cup {file})
  <2>1. file \notin V
    BY <1>5
  <2>2. IsFiniteSet(V) /\ Cardinality(V \cup {file}) = Cardinality(V) + 1 /\ Cardinality(V) \in Nat
    <3>1. IsFiniteSet(V)
      BY <1>2, FS_Subset
    <3> QED
      BY <2>1, <3>1, FS_AddElement, FS_CardinalityType
  <2>3. Cardinality(V) + 1 <= MaxHops
    <3>1. V \cup {file} \in SUBSET all
      BY <1>5
    <3>2. Cardinality(V \cup {file}) <= Cardinality(all)
      BY <1>2, <3>1, FS_Subset
    <3>3. Cardinality(all) \in Nat
      BY <1>2, FS_CardinalityType
    <3> QED
      BY <1>0, <2>2, <3>2, <3>3
  <2>4. ASSUME NEW r \in files[file]
        PROVE  r.key \notin seen /\ r.at \in all /\ On(r.at, seen \cup {r.key}, V \cup {file})
    <3>1. r.at \in Referred(files, file) /\ r \in refs /\ r.at \in all
      BY <1>3, <1>4
    <3>2. \A a \in V \cup {file} : r.at \in ChainOf(files, a)
      <4>1. r.at \in ChainOf(files, file)
        BY <3>1, ChainIs
      <4>2. ASSUME NEW a \in V PROVE r.at \in ChainOf(files, a)
        <5>1. file \in ChainOf(files, a) /\ a \in DOMAIN files /\ file \in DOMAIN files
          BY <1>5
        <5> QED
          BY <3>1, <5>1, ChainIs
      <4> QED
        BY <4>1, <4>2
    <3>3. r.key \notin seen
      <4> SUFFICES ASSUME r.key \in seen PROVE FALSE
        OBVIOUS
      <4>1. PICK q \in refs : q.key = r.key /\ q.at \in V \cup {file}
        BY <1>5
      <4>2. r.at \in V \cup {file}
        BY <3>1, <4>1
      <4> QED
        BY <3>1, <3>2, <4>2
    <3>4. On(r.at, seen \cup {r.key}, V \cup {file})
      BY <1>5, <3>1, <3>2
    <3> QED
      BY <3>1, <3>3, <3>4
  <2> QED
    BY <2>1, <2>2, <2>3, <2>4
<1> HIDE DEF On
<1>6. 0 \in T
  <2> SUFFICES ASSUME NEW file \in all, NEW seen \in SUBSET texts, NEW V \in SUBSET all,
                      Cardinality(V) = MaxHops - 0, On(file, seen, V)
               PROVE  f[0][file][seen] = {}
    OBVIOUS
  <2>1. Cardinality(V) + 1 <= MaxHops
    BY <1>5
  <2> QED
    BY <1>0, <2>1
<1>7. ASSUME NEW n \in T PROVE n + 1 \in T
  <2>1. n \in Nat /\ n + 1 \in Nat /\ n + 1 # 0 /\ (n + 1) - 1 = n
    OBVIOUS
  <2> SUFFICES ASSUME n + 1 <= MaxHops,
                      NEW file \in all, NEW seen \in SUBSET texts, NEW V \in SUBSET all,
                      Cardinality(V) = MaxHops - (n + 1), On(file, seen, V)
               PROVE  f[n + 1][file][seen] = {}
    BY <2>1
  <2>2. n + 1 \in 1..MaxHops /\ P(n)
    BY <1>0, <2>1
  <2>3. f[n + 1][file][seen] = LeftOf(f[n], n + 1, files, file, seen)
    BY <1>1, <2>1, <2>2 DEF texts, all
  <2>9. Cardinality(V \cup {file}) = Cardinality(V) + 1 /\ Cardinality(V) \in Nat
    BY <1>5, ZenonT(60)
  <2>4. ASSUME NEW r \in files[file]
        PROVE  /\ r.key \notin seen /\ r.at \in DOMAIN files
               /\ f[n][r.at][seen \cup {r.key}] = {}
    <3>1. r.key \notin seen /\ r.at \in all /\ On(r.at, seen \cup {r.key}, V \cup {file})
      BY <1>5
    <3>2. Cardinality(V \cup {file}) = MaxHops - n
      BY <1>0, <2>1, <2>9
    <3>3. seen \cup {r.key} \in SUBSET texts /\ V \cup {file} \in SUBSET all
      BY <1>4
    <3>4. f[n][r.at][seen \cup {r.key}] = {}
      BY <2>2, <3>1, <3>2, <3>3
    <3> QED
      BY <3>1, <3>4
  <2> QED
    <3> SUFFICES ASSUME NEW z \in LeftOf(f[n], n + 1, files, file, seen) PROVE FALSE
      BY <2>3
    <3> DEFINE left(r) == IF r.key \in seen \/ n + 1 = 0 \/ r.at \notin DOMAIN files THEN {r}
                          ELSE f[n][r.at][seen \cup {r.key}]
    <3>2. z \in UNION {left(r) : r \in files[file]}
      BY Zenon DEF LeftOf
    <3>1. PICK r \in files[file] : z \in left(r)
      <4> HIDE DEF left
      <4> QED
        BY <3>2
    <3> QED
      BY <2>1, <2>4, <3>1
<1>8. P(MaxHops)
  <2>1. T \in SUBSET Nat
    OBVIOUS
  <2>2. MaxHops \in T
    <3> HIDE DEF T
    <3> QED
      BY <1>0, <1>6, <1>7, <2>1, AllNat
  <2> QED
    BY <1>0, <2>2
<1>9. On(at, {}, {})
  BY DEF On
<1>10. Cardinality({}) = MaxHops - MaxHops
  BY <1>0, FS_EmptySet
<1>11. at \in all /\ {} \in SUBSET texts /\ {} \in SUBSET all
  BY DEF all
<1> QED
  BY <1>1, <1>8, <1>9, <1>10, <1>11
-----------------------------------------------------------------------------
\* What is left of a document does not depend on the limit it is read with: cycles, members of
\* allOf and files (SchemasResolve), for any documents and any limits (spec.py 180-250, 264-420).
THEOREM SchemasDoResolve == Spec => []SchemasResolve
<1>1. SurfaceInv => SchemasResolve
  <2> SUFFICES ASSUME SurfaceInv, Started, NEW i \in DOMAIN entries
               PROVE  LET spec == Documents[Namespaces(launch)[i]["spec"]] IN
                      /\ \A s \in SchemasOf(spec) :
                           CyclesAreCaught(s, spec.schemas) /\ MembersSurvive(s, spec.schemas)
                      /\ \A f \in DOMAIN spec.files : AllInlined(spec.files, f)
    BY DEF SchemasResolve
  <2> DEFINE spec == Documents[Namespaces(launch)[i]["spec"]]
  <2>1. Starts(launch) /\ i \in DOMAIN Namespaces(launch)
    BY DEF SurfaceInv, Started, Entries
  <2>2. DocumentRead(spec)
    BY <2>1, SettingsAssumption DEF Starts, Servable
  <2> HIDE DEF spec
  <2>3. ASSUME NEW s \in SchemasOf(spec)
        PROVE  CyclesAreCaught(s, spec.schemas) /\ MembersSurvive(s, spec.schemas)
    BY <2>2, CyclesCaught, MembersDoSurvive DEF DocumentRead
  <2>4. ASSUME NEW f \in DOMAIN spec.files PROVE AllInlined(spec.files, f)
    BY <2>2, AllAreInlined DEF DocumentRead
  <2> QED
    BY <2>3, <2>4 DEF spec
<1> QED
  BY <1>1, SurfaceFirst, SurfaceNext, PTL DEF Spec
-----------------------------------------------------------------------------
(* Requests. *)

\* The fields of a tool that its requests depend on, of an operation.
MadeOf(tool, o, spec, strict) ==
  /\ tool.method = o.method /\ tool.vars = o.item.vars /\ tool.parameters = Parameters(o, spec)
  /\ tool.hasBody = HasBody(o) /\ tool.raw = (HasBody(o) /\ o.op.body.type = "raw")
  /\ tool.input = InputSchema(o, spec, strict) /\ tool.annotations = Annotations(o.method)

\* Every tool a launch serves is made of an operation, and of an entry of the launch.
LEMMA ServedIs ==
  ASSUME NumeralsDiffer, NEW l, LaunchRead(l), Starts(l), NEW i \in DOMAIN SurfaceOf(l, Entries(l))
  PROVE  LET tool == SurfaceOf(l, Entries(l))[i] IN
         /\ tool.api \in DOMAIN Entries(l)
         /\ \E o, spec, strict : MadeOf(tool, o, spec, strict)
<1> DEFINE apis   == Entries(l)
           served == SurfaceOf(l, apis)
           tool   == served[i]
<1>1. /\ Made(apis) /\ (DOMAIN l.data.apis = {} => DOMAIN apis = {1})
      /\ (DOMAIN l.data.apis # {} => \A a \in DOMAIN apis : apis[a].label \in Words)
  BY EntriesAre
<1>2. \E part, place : Surface(served, apis, part, place)
  BY <1>1, MergeIs, SingleIs DEF SurfaceOf
<1>3. PICK part, place : Surface(served, apis, part, place)
  BY <1>2
<1> DEFINE t == apis[part[i]].tools[place[i]]
<1>4. /\ part[i] \in DOMAIN apis /\ place[i] \in DOMAIN apis[part[i]].tools
      /\ tool.api = part[i] /\ \A f \in Carried : tool[f] = t[f]
  BY <1>3 DEF Surface
<1>5. PICK spec, strict : ToolsOf(apis[part[i]].tools, spec, strict)
  BY <1>1, <1>4 DEF Made
<1>6. PICK o : t = Tool(o, spec, t.name, strict)
  BY <1>4, <1>5 DEF ToolsOf
<1>7. MadeOf(t, o, spec, strict)
  <2>1. \A name : MadeOf(Tool(o, spec, name, strict), o, spec, strict)
    BY DEF Tool, MadeOf
  <2> QED
    BY <1>6, <2>1
<1>8. {"method", "vars", "parameters", "hasBody", "raw", "input", "annotations"} \subseteq Carried
  BY DEF Carried, ToolFields
<1>9. MadeOf(tool, o, spec, strict)
  <2> HIDE DEF tool, t
  <2>1. /\ tool.method = t.method /\ tool.vars = t.vars /\ tool.parameters = t.parameters
        /\ tool.hasBody = t.hasBody /\ tool.raw = t.raw /\ tool.input = t.input
        /\ tool.annotations = t.annotations
    BY <1>4, <1>8
  <2> QED
    BY <1>7, <2>1 DEF MadeOf
<1> QED
  BY <1>4, <1>9

\* Arguments that conform are refused only where the schema is silent.
LEMMA ConformingIsTaken ==
  ASSUME NEW tool, NEW o, NEW spec, NEW strict, MadeOf(tool, o, spec, strict), NEW args, NEW auth,
         Conforms(tool, args), ~SchemaIsSilent(tool, args), ~Unusable(auth)
  PROVE  Refusal(tool, args, auth) = NONE
<1>1. ASSUME NEW k \in DOMAIN args, ~(k = BodyKey /\ tool.hasBody)
      PROVE  Given(args, k)
  <2>1. args[k] \in {"text", "empty"}
    BY <1>1 DEF Conforms
  <2>2. args[k] # "empty"
    BY <1>1 DEF SchemaIsSilent
  <2> QED
    BY <2>1, <2>2 DEF Given
<1>2. ASSUME NEW v \in tool.vars PROVE Given(args, <<v>>)
  <2>1. <<v>> \in DOMAIN args
    BY DEF SchemaIsSilent
  <2>2. CASE <<v>> = BodyKey /\ tool.hasBody
    <3>1. v = "body"
      BY <2>2 DEF BodyKey
    <3>2. args[<<v>>] # "none" /\ args[<<v>>] # "empty"
      BY <2>1, <2>2, <3>1 DEF Conforms, SchemaIsSilent
    <3> QED
      BY <2>1, <3>2 DEF Given
  <2> QED
    BY <1>1, <2>1, <2>2
<1>3. ~BodyMissing(tool, args)
  BY DEF BodyMissing, Conforms, SchemaIsSilent
<1>4. tool.hasBody => BodyFits(tool, args[BodyKey])
  BY DEF Conforms, SchemaIsSilent
<1>5. ASSUME NEW k \in DOMAIN args PROVE k \in Used(tool, args)
  <2>1. CASE k = BodyKey /\ tool.hasBody
    BY <2>1 DEF Used
  <2>2. CASE ~(k = BodyKey /\ tool.hasBody)
    <3>1. Given(args, k)
      BY <1>1, <2>2
    <3>2. k \in tool.input.keys
      BY DEF Conforms
    <3>3. PICK p \in tool.parameters : Advertised(p) /\ k = Key(p)
      BY <2>2, <3>2 DEF MadeOf, InputSchema, BodyShown, BodyKey
    <3>4. CASE p.in = "path"
      <4>1. p.name \in tool.vars /\ k = <<p.name>>
        BY <3>3, <3>4 DEF SchemaIsSilent, Key
      <4> QED
        BY <4>1 DEF Used
    <3>5. CASE p.in \in {"query", "header"}
      BY <3>1, <3>3, <3>5 DEF Used, KeysOf
    <3> QED
      BY <3>3, <3>4, <3>5 DEF Advertised
  <2> QED
    BY <2>1, <2>2
<1> QED
  BY <1>2, <1>3, <1>4, <1>5 DEF Refusal

\* What the request takes up it carries.
LEMMA TakenIsCarried ==
  ASSUME NEW tool, NEW args, NEW auth, Refusal(tool, args, auth) = NONE, NEW k \in DOMAIN args
  PROVE  LET r == BuildRequest(tool, args, auth) IN
         \/ k = BodyKey /\ r.body = <<"argument", args[k]>>
         \/ \E v \in tool.vars : k = <<v>> /\ r.path[v] = <<"argument", args[k]>>
         \/ \E p \in tool.parameters :
              /\ Key(p) = k
              /\ \/ p.in = "query" /\ <<p.name, <<"argument", args[k]>>>> \in r.query
                 \/ /\ p.in = "header"
                    /\ \/ r.headers[p.name] = <<"argument", args[k]>>
                       \/ p.name \in DOMAIN AuthHeaders(auth)
                       \/ p.name = "content-type" /\ tool.hasBody
<1> DEFINE r == BuildRequest(tool, args, auth)
           Arg(x)    == <<"argument", args[x]>>
           headers   == {p \in tool.parameters : p.in = "header" /\ Given(args, Key(p))}
           theirs    == [h \in {p.name : p \in headers} |-> Arg(<<"header", h>>)]
           always    == [h \in {"accept"} |-> <<"fixed", "json">>]
           ofTheBody == [h \in IF tool.hasBody THEN {"content-type"} ELSE {} |->
                           <<"fixed", IF tool.raw THEN "raw" ELSE "json">>]
<1>1. k \in Used(tool, args)
  BY RefusalsAssumption DEF Refusal
<1>2. CASE \E v \in tool.vars : k = <<v>>
  BY <1>2 DEF BuildRequest
<1>3. CASE tool.hasBody /\ k = BodyKey
  BY <1>3 DEF BuildRequest
<1>4. ASSUME NEW p \in tool.parameters, p.in = "query", Key(p) = k, Given(args, k)
      PROVE  <<p.name, <<"argument", args[k]>>>> \in r.query
  BY <1>4 DEF BuildRequest
<1>5. ASSUME NEW p \in tool.parameters, p.in = "header", Key(p) = k, Given(args, k),
             p.name \notin DOMAIN AuthHeaders(auth), ~(p.name = "content-type" /\ tool.hasBody)
      PROVE  r.headers[p.name] = <<"argument", args[k]>>
  <2>1. k = <<"header", p.name>>
    BY <1>5 DEF Key
  <2>2. p \in headers
    BY <1>5
  <2>3. p.name \in DOMAIN theirs /\ theirs[p.name] = <<"argument", args[k]>>
    BY <2>1, <2>2
  <2>4. p.name \notin DOMAIN ofTheBody
    BY <1>5
  <2>5. r.headers = Updated(Updated(Updated(always, theirs), ofTheBody), AuthHeaders(auth))
    BY DEF BuildRequest
  <2> HIDE DEF r, theirs, always, ofTheBody
  <2> QED
    BY <1>5, <2>3, <2>4, <2>5 DEF Updated
<1>6. CASE k \in {x \in KeysOf(tool, "query") \cup KeysOf(tool, "header") : Given(args, x)}
  <2>1. PICK p \in tool.parameters : p.in \in {"query", "header"} /\ Key(p) = k
    BY <1>6 DEF KeysOf
  <2> HIDE DEF r
  <2> QED
    BY <1>4, <1>5, <1>6, <2>1 DEF r
<1> QED
  BY <1>1, <1>2, <1>3, <1>6 DEF Used

\* Credentials, by where they are.
LEMMA CredentialIs ==
  ASSUME NEW tool, NEW args, NEW auth
  PROVE  LET r == BuildRequest(tool, args, auth) IN
         /\ DOMAIN AuthHeaders(auth) \subseteq DOMAIN r.headers
         /\ \A h \in DOMAIN r.headers :
              IF h \in DOMAIN AuthHeaders(auth) THEN r.headers[h] = Credential(auth.of)
              ELSE r.headers[h][1] # "credential"
         /\ AuthQuery(auth) \subseteq r.query
         /\ \A q \in r.query : q \in AuthQuery(auth) \/ q[2][1] # "credential"
<1> DEFINE r == BuildRequest(tool, args, auth)
           Arg(x)    == <<"argument", args[x]>>
           headers   == {p \in tool.parameters : p.in = "header" /\ Given(args, Key(p))}
           theirs    == [h \in {p.name : p \in headers} |-> Arg(<<"header", h>>)]
           always    == [h \in {"accept"} |-> <<"fixed", "json">>]
           ofTheBody == [h \in IF tool.hasBody THEN {"content-type"} ELSE {} |->
                           <<"fixed", IF tool.raw THEN "raw" ELSE "json">>]
<1>1. r.headers = Updated(Updated(Updated(always, theirs), ofTheBody), AuthHeaders(auth))
  BY DEF BuildRequest
<1>2. /\ \A h \in DOMAIN always : always[h][1] # "credential"
      /\ \A h \in DOMAIN theirs : theirs[h][1] # "credential"
      /\ \A h \in DOMAIN ofTheBody : ofTheBody[h][1] # "credential"
  OBVIOUS
<1>3. \A h \in DOMAIN AuthHeaders(auth) : AuthHeaders(auth)[h] = Credential(auth.of)
  BY DEF AuthHeaders
<1>4. /\ AuthQuery(auth) \subseteq r.query
      /\ \A q \in r.query : q \in AuthQuery(auth) \/ q[2][1] # "credential"
  BY DEF BuildRequest
<1> HIDE DEF r, always, theirs, ofTheBody
<1>5. /\ DOMAIN AuthHeaders(auth) \subseteq DOMAIN r.headers
      /\ \A h \in DOMAIN r.headers :
           IF h \in DOMAIN AuthHeaders(auth) THEN r.headers[h] = Credential(auth.of)
           ELSE r.headers[h][1] # "credential"
  BY <1>1, <1>2, <1>3 DEF Updated
<1> QED
  BY <1>4, <1>5 DEF r

\* A request has the credential it was built with, in one place, and no other.
LEMMA CredentialIsOne ==
  ASSUME NEW tool, NEW args, NEW auth
  PROVE  OneCredential(BuildRequest(tool, args, auth), auth)
<1> DEFINE r == BuildRequest(tool, args, auth)
           H == {<<"header", h>> : h \in {x \in DOMAIN r.headers : r.headers[x][1] = "credential"}}
           Q == {<<"query", q>> : q \in {x \in r.query : x[2][1] = "credential"}}
<1>1. CredentialsIn(r) = H \cup Q
  BY DEF CredentialsIn
<1>2. /\ DOMAIN AuthHeaders(auth) \subseteq DOMAIN r.headers
      /\ \A h \in DOMAIN r.headers :
           IF h \in DOMAIN AuthHeaders(auth) THEN r.headers[h] = Credential(auth.of)
           ELSE r.headers[h][1] # "credential"
      /\ AuthQuery(auth) \subseteq r.query
      /\ \A q \in r.query : q \in AuthQuery(auth) \/ q[2][1] # "credential"
  BY CredentialIs
<1>3. Credential(auth.of)[1] = "credential"
  BY DEF Credential
<1>4. CASE auth = NONE
  <2>1. DOMAIN AuthHeaders(auth) = {} /\ AuthQuery(auth) = {}
    BY <1>4 DEF AuthHeaders, AuthQuery
  <2>2. H \cup Q = {}
    BY <1>2, <2>1
  <2> QED
    BY <1>1, <1>4, <2>2, FS_EmptySet DEF OneCredential
<1>5. CASE auth # NONE /\ auth.style = "query"
  <2> DEFINE q == <<QueryName(auth), Credential(auth.of)>>
  <2>1. DOMAIN AuthHeaders(auth) = {} /\ AuthQuery(auth) = {q} /\ q[2] = Credential(auth.of)
    BY <1>5 DEF AuthHeaders, AuthQuery
  <2> HIDE DEF r, q
  <2>2. H \cup Q = {<<"query", q>>}
    BY <1>2, <1>3, <2>1
  <2> HIDE DEF H, Q
  <2>3. Cardinality({<<"query", q>>}) = 1
    BY FS_Singleton
  <2>4. \A c \in {<<"query", q>>} : c[1] = "query" /\ c[2] = q
    OBVIOUS
  <2> QED
    BY <1>1, <1>5, <2>1, <2>2, <2>3, <2>4 DEF OneCredential, r
<1>6. CASE auth # NONE /\ auth.style # "query"
  <2> DEFINE h == IF auth.style = "header" THEN HeaderName(auth) ELSE "authorization"
  <2>1. DOMAIN AuthHeaders(auth) = {h} /\ AuthQuery(auth) = {}
    BY <1>6 DEF AuthHeaders, AuthQuery
  <2> HIDE DEF r, h
  <2>2. H \cup Q = {<<"header", h>>} /\ r.headers[h] = Credential(auth.of)
    BY <1>2, <1>3, <2>1
  <2> HIDE DEF H, Q
  <2>3. Cardinality({<<"header", h>>}) = 1
    BY FS_Singleton
  <2>4. \A c \in {<<"header", h>>} : c[1] = "header" /\ c[2] = h
    OBVIOUS
  <2> QED
    BY <1>1, <1>6, <2>1, <2>2, <2>3, <2>4 DEF OneCredential, r
<1> QED
  BY <1>4, <1>5, <1>6

\* The credentials the settings give.
Provided(auth) ==
  auth = NONE \/ auth.kind = "static" \/ (auth.kind = "oauth2" /\ auth.style = "bearer")

\* The headers and parameters that carry a credential are those of the configured one.
LEMMA CredentialsAre ==
  ASSUME NEW l, NEW a \in DOMAIN Entries(l), NEW method
  PROVE  Provided(AuthFor(Entries(l)[a], method))
<1>1. \A ns, spec : Provided(ResolveAuth(ns, spec))
  BY DEF ResolveAuth, Provided, TokenFlow, Static
<1>2. \A ns, main : Provided(ResolveWriteAuth(ns, main))
  BY DEF ResolveWriteAuth, Provided, TokenFlow, Static
<1>3. PICK label, ns : Entries(l)[a] = EntryOf(label, ns)
  BY DEF Entries
<1>4. Provided(Entries(l)[a].auth) /\ Provided(Entries(l)[a].writeAuth)
  BY <1>1, <1>2, <1>3 DEF EntryOf
<1> QED
  BY <1>4 DEF AuthFor

\* A dry run shows no credential.
LEMMA CredentialIsHidden ==
  ASSUME NEW tool, NEW args, NEW auth, Provided(auth)
  PROVE  CredentialsIn(Masked(BuildRequest(tool, args, auth), auth)) = {}
<1> DEFINE r == BuildRequest(tool, args, auth)
           m == Masked(r, auth)
           static   == auth # NONE /\ auth.kind = "static"
           Covers(h) == h = "authorization" \/ (static /\ auth.style = "header" /\ h = HeaderName(auth))
           inQuery  == static /\ auth.style = "query"
           Showing(q) == IF inQuery /\ q[1] = QueryName(auth) THEN <<q[1], <<"masked">>>> ELSE q
<1>1. /\ DOMAIN AuthHeaders(auth) \subseteq DOMAIN r.headers
      /\ \A h \in DOMAIN r.headers :
           IF h \in DOMAIN AuthHeaders(auth) THEN r.headers[h] = Credential(auth.of)
           ELSE r.headers[h][1] # "credential"
      /\ AuthQuery(auth) \subseteq r.query
      /\ \A q \in r.query : q \in AuthQuery(auth) \/ q[2][1] # "credential"
  BY CredentialIs
<1>2. /\ m.headers = [h \in DOMAIN r.headers |-> IF Covers(h) THEN <<"masked">> ELSE r.headers[h]]
      /\ m.query = {Showing(q) : q \in r.query}
  BY DEF Masked, BuildRequest
<1>3. \A h \in DOMAIN AuthHeaders(auth) : Covers(h)
  BY DEF AuthHeaders, Provided
<1>4. \A q \in AuthQuery(auth) : Showing(q)[2][1] = "masked"
  BY DEF AuthQuery, Provided
<1>5. \A q \in r.query : Showing(q)[2][1] # "credential"
  <2> SUFFICES ASSUME NEW q \in r.query PROVE Showing(q)[2][1] # "credential"
    OBVIOUS
  <2>1. CASE q \in AuthQuery(auth)
    BY <1>4, <2>1
  <2>2. CASE q \notin AuthQuery(auth)
    <3>1. q[2][1] # "credential"
      BY <1>1, <2>2
    <3> QED
      BY <3>1
  <2> QED
    BY <2>1, <2>2
<1>6. \A h \in DOMAIN m.headers : m.headers[h][1] # "credential"
  <2> HIDE DEF r, m, Covers
  <2> QED
    BY <1>1, <1>2, <1>3
<1>7. \A q \in m.query : q[2][1] # "credential"
  <2> HIDE DEF r, m, Showing
  <2> QED
    BY <1>2, <1>5
<1> HIDE DEF m
<1> QED
  BY <1>6, <1>7 DEF CredentialsIn, m

\* What it takes up is shown, with the exceptions named.
LEMMA TakenIsShown ==
  ASSUME NEW tool, NEW o, NEW spec, NEW strict, MadeOf(tool, o, spec, strict), NEW args, NEW auth,
         Refusal(tool, args, auth) = NONE, NEW k \in DOMAIN args
  PROVE  k \in tool.input.keys \/ Unshown(tool, k)
<1> DEFINE shown == {p \in Parameters(o, spec) : Advertised(p)}
<1>1. k \in Used(tool, args)
  BY RefusalsAssumption DEF Refusal
<1>2. tool.input.keys = {Key(p) : p \in shown} \cup (IF BodyShown(o) THEN {<<"body">>} ELSE {})
  BY DEF MadeOf, InputSchema
<1>3. CASE \E v \in tool.vars : k = <<v>>
  BY <1>3 DEF Unshown
<1>4. CASE tool.hasBody /\ k = BodyKey
  BY <1>2, <1>4 DEF Unshown, MadeOf, BodyShown, BodyKey
<1>5. CASE k \in KeysOf(tool, "query") \cup KeysOf(tool, "header")
  <2>1. PICK p \in tool.parameters : p.in \in {"query", "header"} /\ Key(p) = k
    BY <1>5 DEF KeysOf
  <2>2. p \in Parameters(o, spec)
    BY DEF MadeOf
  <2>3. CASE Advertised(p)
    <3>1. k \in {Key(q) : q \in shown}
      BY <2>1, <2>2, <2>3
    <3> QED
      BY <1>2, <3>1
  <2>4. CASE ~Advertised(p)
    <3>1. p.name = "" \/ (p.in = "header" /\ p.name = "authorization")
      BY <2>1, <2>4 DEF Advertised
    <3> QED
      BY <2>1, <3>1 DEF Unshown
  <2> QED
    BY <2>3, <2>4
<1> QED
  BY <1>1, <1>3, <1>4, <1>5 DEF Used

\* Whatever the arguments are: what is advertised is what is needed, and what is given is carried.
LEMMA SchemaIsHonest ==
  ASSUME NEW tool, NEW o, NEW spec, NEW strict, MadeOf(tool, o, spec, strict), NEW args, NEW auth
  PROVE  SchemaHonest(tool, args, auth)
<1>1. Conforms(tool, args) /\ ~SchemaIsSilent(tool, args) /\ ~Unusable(auth) => Refusal(tool, args, auth) = NONE
  BY ConformingIsTaken
<1>2. ASSUME Refusal(tool, args, auth) = NONE
      PROVE  LET r == BuildRequest(tool, args, auth) IN
             \A k \in DOMAIN args :
               \/ k = BodyKey /\ r.body = <<"argument", args[k]>>
               \/ \E v \in tool.vars : k = <<v>> /\ r.path[v] = <<"argument", args[k]>>
               \/ \E p \in tool.parameters :
                    /\ Key(p) = k
                    /\ \/ p.in = "query" /\ <<p.name, <<"argument", args[k]>>>> \in r.query
                       \/ /\ p.in = "header"
                          /\ \/ r.headers[p.name] = <<"argument", args[k]>>
                             \/ p.name \in DOMAIN AuthHeaders(auth)
                             \/ p.name = "content-type" /\ tool.hasBody
  BY <1>2, TakenIsCarried
<1>3. Refusal(tool, args, auth) = NONE => \A k \in DOMAIN args : k \in tool.input.keys \/ Unshown(tool, k)
  BY TakenIsShown
<1> QED
  BY <1>1, <1>2, <1>3, Zenon DEF SchemaHonest

\* What is called or previewed is a tool of the surface, with the credential of its API and of
\* its method, and only what is not refused is sent.
CallOf(args) == \E i \in DOMAIN tools : call = [tool |-> tools[i], args |-> args, auth |-> AuthOf(tools[i])]
RequestInv ==
  /\ stage \in {"off", "failed", "prompt"} => call = NONE /\ answer = NONE /\ payload = NoPayload
  /\ stage = "waiting" => answer = NONE /\ payload = NoPayload /\ Refusal(call.tool, call.args, call.auth) = NONE
  /\ stage = "waiting" \/ (call # NONE /\ answer = NONE) => \E args : CallOf(args)
  /\ payload.reads = "preview" => \E i \in DOMAIN tools : \E args :
       payload.structured = Masked(BuildRequest(tools[i], args, AuthOf(tools[i])), AuthOf(tools[i]))

\* It holds before the launch,
LEMMA RequestFirst == Init => RequestInv
  BY DEF Init, TryInit, RequestInv, NoPayload, Payload

\* no answer reads as a dry run,
LEMMA NoPreview ==
  ASSUME NEW promised, NEW a, NEW format
  PROVE  PayloadFor(promised, a, format).reads # "preview"
<1>1. \A status : Category(status) # "preview"
  BY DEF Category
<1> QED
  BY <1>1 DEF PayloadFor, ErrorPayload, Payload

\* and no step breaks it.
LEMMA RequestNext == RequestInv /\ [Next]_vars => RequestInv'
<1> SUFFICES ASSUME RequestInv, [Next]_vars PROVE RequestInv'
  OBVIOUS
<1>0. NoPayload.reads # "preview"
  BY DEF NoPayload, Payload
<1>1. CASE Boot
  <2>1. call' = NONE /\ answer' = NONE /\ payload' = NoPayload /\ stage' \in {"prompt", "failed"}
    BY <1>1 DEF Boot, RequestInv
  <2> QED
    BY <1>0, <2>1 DEF RequestInv
<1>2. CASE UNCHANGED <<stage, entries, tools, call, answer, payload>>
  BY <1>2 DEF RequestInv, CallOf, AuthOf
<1>3. CASE SetPolicy("fields") \/ SetPolicy("secrets")
  BY <1>2, <1>3 DEF SetPolicy
<1>4. CASE Show
  <2>1. answer' \in Answers /\ stage' = "shown"
    BY <1>4 DEF Show
  <2>2. answer' # NONE
    BY <2>1, AnswersAssumption
  <2>3. payload'.reads # "preview"
    BY <1>4, NoPreview DEF Show
  <2> QED
    BY <2>1, <2>2, <2>3 DEF RequestInv
<1>5. CASE Ask
  BY <1>0, <1>5 DEF Ask, RequestInv
<1>6. ASSUME NEW i \in DOMAIN tools, Call(i) PROVE RequestInv'
  <2>1. PICK args : Send(tools[i], args)
    BY <1>6 DEF Call
  <2>2. stage = "prompt" /\ payload'.reads # "preview" /\ UNCHANGED <<entries, tools, answer>>
    BY <1>6, <2>1 DEF Call, Send, NoPayload, Payload
  <2>3. call' = [tool |-> tools[i], args |-> args, auth |-> AuthOf(tools[i])]
    BY <2>1 DEF Send
  <2>4. CallOf(args)'
    BY <2>2, <2>3 DEF CallOf, AuthOf
  <2>5. \/ stage' = "shown"
        \/ /\ stage' = "waiting" /\ payload' = NoPayload
           /\ Refusal(tools[i], args, AuthOf(tools[i])) = NONE
    BY <2>1 DEF Send
  <2>6. call'.tool = tools[i] /\ call'.args = args /\ call'.auth = AuthOf(tools[i])
    BY <2>3
  <2>8. answer' = NONE
    BY <2>2 DEF RequestInv
  <2> QED
    BY <2>2, <2>4, <2>5, <2>6, <2>8 DEF RequestInv
<1>7. ASSUME NEW i \in DOMAIN tools, Preview(i) PROVE RequestInv'
  <2>1. PICK args : LET refusal == Refusal(tools[i], args, AuthOf(tools[i])) IN
          payload' = Payload(IF refusal = NONE THEN "preview" ELSE "refused", refusal # NONE, NONE,
                       IF refusal # NONE THEN NONE
                       ELSE Masked(BuildRequest(tools[i], args, AuthOf(tools[i])), AuthOf(tools[i])))
    BY <1>7 DEF Preview
  <2>2. stage = "prompt" /\ stage' = "shown" /\ UNCHANGED <<entries, tools, call, answer>>
    BY <1>7 DEF Preview
  <2>3. payload'.reads = "preview" =>
          payload'.structured = Masked(BuildRequest(tools[i], args, AuthOf(tools[i])), AuthOf(tools[i]))
    BY <2>1 DEF Payload
  <2>4. AuthOf(tools[i])' = AuthOf(tools[i])
    BY <2>2 DEF AuthOf
  <2>5. payload'.reads = "preview" => \E j \in DOMAIN tools' : \E x :
          payload'.structured = Masked(BuildRequest(tools'[j], x, AuthOf(tools[j])'), AuthOf(tools[j])')
    BY <2>2, <2>3, <2>4
  <2> QED
    BY <2>2, <2>5 DEF RequestInv
<1>8. ASSUME NEW i \in DOMAIN tools, CallMeta(i) PROVE RequestInv'
  <2>1. stage = "prompt" /\ stage' = "shown" /\ payload'.reads = "meta"
        /\ UNCHANGED <<entries, tools, call, answer>>
    BY <1>8 DEF CallMeta, Payload
  <2> QED
    BY <2>1 DEF RequestInv
<1> QED
  BY <1>1, <1>2, <1>3, <1>4, <1>5, <1>6, <1>7, <1>8 DEF Next, Prompt, TryNext, vars, tryVars

\* Why it is enough: the tools of the surface are made of operations.
LEMMA RequestEnough ==
  ASSUME NumeralsDiffer, SurfaceInv, RequestInv
  PROVE  RequestsHonest
<1>1. ASSUME NEW i \in DOMAIN tools, stage \notin {"off", "failed"}
      PROVE  /\ Provided(AuthOf(tools[i])) /\ \E o, spec, strict : MadeOf(tools[i], o, spec, strict)
  <2>1. LaunchRead(launch) /\ Starts(launch) /\ entries = Entries(launch) /\ tools = SurfaceOf(launch, entries)
    BY <1>1, ProcessAssumption DEF SurfaceInv
  <2>2. tools[i].api \in DOMAIN entries /\ \E o, spec, strict : MadeOf(tools[i], o, spec, strict)
    BY <2>1, ServedIs
  <2> QED
    BY <2>1, <2>2, CredentialsAre DEF AuthOf
<1>2. ASSUME call # NONE, answer = NONE PROVE SchemaHonest(call.tool, call.args, call.auth)
  <2>1. PICK args : CallOf(args)
    BY <1>2 DEF RequestInv
  <2>2. PICK i \in DOMAIN tools : call = [tool |-> tools[i], args |-> args, auth |-> AuthOf(tools[i])]
    BY <2>1 DEF CallOf
  <2>3. PICK o, spec, strict : MadeOf(tools[i], o, spec, strict)
    BY <1>1, <1>2, <2>2 DEF RequestInv
  <2> QED
    BY <2>2, <2>3, SchemaIsHonest
<1>3. ASSUME stage = "waiting"
      PROVE  LET entry == entries[call.tool.api] IN
             /\ OneCredential(BuildRequest(call.tool, call.args, call.auth), call.auth)
             /\ call.auth = IF call.tool.annotations.readOnly \/ entry.writeAuth = NONE THEN entry.auth
                            ELSE entry.writeAuth
  <2>1. PICK args : CallOf(args)
    BY <1>3 DEF RequestInv
  <2>2. PICK i \in DOMAIN tools : call = [tool |-> tools[i], args |-> args, auth |-> AuthOf(tools[i])]
    BY <2>1 DEF CallOf
  <2>3. PICK o, spec, strict : MadeOf(tools[i], o, spec, strict)
    BY <1>1, <1>3, <2>2
  <2>4. call.tool = tools[i] /\ call.auth = AuthOf(tools[i])
    BY <2>2
  <2>5. call.tool.annotations.readOnly = (call.tool.method = "get")
    BY <2>3, <2>4 DEF MadeOf, Annotations
  <2> QED
    BY <2>4, <2>5, CredentialIsOne DEF AuthOf, AuthFor
<1>4. ASSUME payload.reads = "preview" PROVE CredentialsIn(payload.structured) = {}
  <2>1. PICK i \in DOMAIN tools : \E args :
          payload.structured = Masked(BuildRequest(tools[i], args, AuthOf(tools[i])), AuthOf(tools[i]))
    BY <1>4 DEF RequestInv
  <2>2. stage \notin {"off", "failed"}
    BY <1>4 DEF RequestInv, NoPayload, Payload
  <2>3. Provided(AuthOf(tools[i]))
    BY <1>1, <2>2
  <2> QED
    BY <2>1, <2>3, CredentialIsHidden
<1> QED
  BY <1>2, <1>3, <1>4 DEF RequestsHonest

\* For any documents, arguments and credentials: what a tool advertises is what a call needs and,
\* but for what Unshown names, all that a call takes; a request carries each of its arguments
\* and, of the operator's credentials, the one of its API and its method, which no argument
\* replaces and a dry run does not show (tools.py 368-490, api_server.py 252-311 and 620-656).
\* It is not said that no argument is a credential: an Authorization header that a document
\* declares is one of Unshown's, and is sent where the operator's credential is put elsewhere.
THEOREM RequestsAreHonest ==
  ASSUME NumeralsDiffer
  PROVE  Spec => []RequestsHonest
<1>1. Init => SurfaceInv /\ RequestInv
  BY SurfaceFirst, RequestFirst
<1>2. SurfaceInv /\ RequestInv /\ [Next]_vars => (SurfaceInv /\ RequestInv)'
  BY SurfaceNext, RequestNext
<1>3. SurfaceInv /\ RequestInv => RequestsHonest
  BY RequestEnough
<1> QED
  BY <1>1, <1>2, <1>3, PTL DEF Spec
=============================================================================
