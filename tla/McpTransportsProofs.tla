-------------------------- MODULE McpTransportsProofs --------------------------
(***************************************************************************)
(* The transports, each by itself and then in one process.                 *)
(*                                                                         *)
(* The stdio loop, for any lines, any number of them and any size of the   *)
(* pool: the answers come in the order of the requests, each exactly once, *)
(* whichever thread ends first; and the handshake is the same for all the  *)
(* requests of a line.                                                     *)
(*                                                                         *)
(* The HTTP server, for any number of connections, any requests and any    *)
(* tokens: a kept connection is in step with its client, scopes hide every *)
(* tool they deny, and a finished handshake is not taken back.  Each       *)
(* invariant speaks of every connection by itself, but the last rests on a *)
(* fact about two: whatever openAt remembers of the shared flag is still   *)
(* true of it.                                                             *)
(*                                                                         *)
(* The process: the transport that was started is served as its module     *)
(* says, fairness included, so that whatever is proved of it there holds   *)
(* here; and what is proved of both holds together, because the flag they  *)
(* share is only ever set, and the loop that was not started has no        *)
(* requests that could have seen it unset.                                 *)
(***************************************************************************)
EXTENDS McpTransports, FiniteSetTheorems, WellFoundedInduction, TLAPS

(* The stdio loop. *)

Ids     == {m.id : m \in Messages} \cup {NoAnswer}
Entries == [line : Nat, id : Ids]
Replies == [line : Nat, id : Ids, kind : AnswerKinds \cup {"-32700"}]
Tasks   == {"waiting", "running", "done", "raised", "cancelled"}

\* The requests of the line that are owed an answer.
Owing == {i \in Indices : ~IsNotification(requests[i])}
Due   == Picked(requests, Owing)

LoopInv ==
  /\ initialized \in BOOLEAN /\ settled \in BOOLEAN /\ pooled \in BOOLEAN
  /\ loop \in {"reading", "handling", "stopped"}
  /\ read \in 0..MaxLines
  /\ requests \in Seq(Messages)
  /\ task \in [Indices -> Tasks]
  /\ answers = [i \in Indices |-> answers[i]]

\* A request is answered when it is done, by an answer of its own, and a notification never.
AnswerInv == \A i \in Indices :
  /\ task[i] = "running" => requests[i].method = "tools/call"
  /\ answers[i] # NoAnswer => \E kind \in AnswerKinds : answers[i] = Answer(requests[i], kind)
  /\ task[i] # "done" => answers[i] = NoAnswer
  /\ task[i] = "done" => (answers[i] = NoAnswer <=> IsNotification(requests[i]))

\* What is owed is what has been written and then the line's requests, in their order.
OrderInv ==
  /\ owed \in Seq(Entries) /\ out \in Seq(Replies)
  /\ Len(owed) = Len(out) + (IF loop = "reading" THEN 0 ELSE Len(Due))
  /\ \A k \in 1..Len(out) : owed[k].line = out[k].line /\ owed[k].id = out[k].id
  /\ loop # "reading" =>
       \A k \in 1..Len(Due) : owed[Len(out) + k] = [line |-> read, id |-> Due[k].id]

AnsweringInv == LoopInv /\ AnswerInv /\ OrderInv

\* A line without a message that opens the session finds it open or closed for all.
SettledInv == (settled => initialized) /\ OpenMeansServed
ClosedForAll == \A i \in Indices : answers[i] # NoAnswer /\ answers[i].kind = "-32002" => ~initialized
OpenForServed == \A i \in Indices :
  /\ NeedsHandshake(requests[i])
  /\ task[i] = "running" \/ (answers[i] # NoAnswer /\ answers[i].kind # "-32002")
  => initialized
AlikeInv == (\A i \in Indices : ~Opens(requests[i])) => ClosedForAll /\ OpenForServed

HandshakeInv == AnsweringInv /\ SettledInv /\ AlikeInv
-------------------------------------------------------------------------------
\* A set of natural numbers has a least one, so an induction is a minimal counterexample.
LEMMA LeastOf ==
  ASSUME NEW T \in SUBSET Nat, T # {}
  PROVE  \E x \in T : \A y \in T : x <= y
<1> DEFINE R == {ss \in Nat \X Nat : ss[1] < ss[2]}
<1>1. IsWellFoundedOn(R, Nat)
  BY NatLessThanWellFounded DEF OpToRel
<1>2. \E x \in T : \A y \in T : ~ (<<y, x>> \in R)
  <2> HIDE DEF R
  <2> QED
    BY <1>1, WFMin
<1>3. \A x, y \in T : <<y, x>> \notin R => x <= y
  OBVIOUS
<1> HIDE DEF R
<1> QED
  BY <1>2, <1>3, Zenon

\* A set of positions has a k-th one.
LEMMA RankExists ==
  ASSUME NEW n \in Nat, NEW D \in SUBSET (1..n), NEW k \in 1..Cardinality(D)
  PROVE  \E i \in D : Cardinality({j \in D : j <= i}) = k
<1> DEFINE Below(i) == {j \in D : j <= i}
           T == {i \in Nat : k <= Cardinality(Below(i))}
<1>0. \A j \in D : j \in Nat /\ 1 <= j /\ j <= n
  OBVIOUS
<1>1. IsFiniteSet(D) /\ Cardinality(D) \in Nat
  <2>1. IsFiniteSet(1..n)
    BY FS_Interval
  <2>2. IsFiniteSet(D)
    BY <2>1, FS_Subset
  <2> QED
    BY <2>2, FS_CardinalityType
<1>2. ASSUME NEW i PROVE IsFiniteSet(Below(i)) /\ Cardinality(Below(i)) \in Nat
  BY <1>1, FS_Subset, FS_CardinalityType
<1>3. n \in T
  <2>1. Below(n) = D
    BY <1>0
  <2> QED
    BY <1>1, <2>1
<1>4. PICK i \in T : \A y \in T : i <= y
  <2> HIDE DEF T
  <2>1. T \in SUBSET Nat
    BY DEF T
  <2> QED
    BY <1>3, <2>1, LeastOf
<1>5. i \in Nat /\ k <= Cardinality(Below(i)) /\ i # 0
  <2>1. i \in Nat /\ k <= Cardinality(Below(i))
    BY <1>4
  <2>2. Below(0) = {}
    <3> SUFFICES ASSUME NEW j \in D, j <= 0 PROVE FALSE
      OBVIOUS
    <3> QED
      BY <1>0
  <2> QED
    BY <2>1, <2>2, FS_EmptySet
<1>6. i - 1 \in Nat /\ Cardinality(Below(i - 1)) < k
  <2>1. i - 1 \in Nat /\ i - 1 < i
    BY <1>5
  <2>2. i - 1 \notin T
    <3> SUFFICES ASSUME i - 1 \in T PROVE FALSE
      OBVIOUS
    <3>1. i <= i - 1
      BY <1>4
    <3> HIDE DEF T
    <3> QED
      BY <1>5, <3>1
  <2>3. ~ (k <= Cardinality(Below(i - 1)))
    BY <2>1, <2>2
  <2>4. Cardinality(Below(i - 1)) \in Nat
    BY <1>2
  <2> HIDE DEF T, Below
  <2> QED
    BY <2>1, <2>3, <2>4
<1>7. i \in D
  <2>1. i \notin D => Below(i) = Below(i - 1)
    <3> SUFFICES ASSUME i \notin D, NEW j \in D PROVE j <= i <=> j <= i - 1
      OBVIOUS
    <3> QED
      BY <1>0, <1>5
  <2>2. Cardinality(Below(i)) \in Nat /\ Cardinality(Below(i - 1)) \in Nat
    BY <1>2
  <2> HIDE DEF Below
  <2> QED
    BY <1>5, <1>6, <2>1, <2>2
<1>8. Cardinality(Below(i)) = Cardinality(Below(i - 1)) + 1
  <2>0. \A j \in D : j <= i <=> j <= i - 1 \/ j = i
    BY <1>0, <1>5
  <2>1. Below(i) = Below(i - 1) \cup {i}
    BY <1>7, <2>0
  <2>2. i \notin Below(i - 1)
    <3>1. ~ (i <= i - 1)
      BY <1>5
    <3> QED
      BY <3>1
  <2>3. IsFiniteSet(Below(i - 1))
    BY <1>2
  <2> HIDE DEF Below
  <2> QED
    BY <2>1, <2>2, <2>3, FS_AddElement
<1>9. Cardinality(Below(i)) = k
  <2>1. Cardinality(Below(i)) \in Nat /\ Cardinality(Below(i - 1)) \in Nat
    BY <1>2
  <2> HIDE DEF Below
  <2> QED
    BY <1>5, <1>6, <1>8, <2>1
<1> QED
  BY <1>7, <1>9

LEMMA IsSeq ==
  ASSUME NEW S, NEW n \in Nat, NEW f \in [1..n -> S]
  PROVE  f \in Seq(S) /\ Len(f) = n /\ DOMAIN f = 1..n
  OBVIOUS

\* Picking is reading at increasing positions: those of another sequence, where it is
\* picked at the same places.
LEMMA PickedAre ==
  ASSUME NEW n \in Nat, NEW D \in SUBSET (1..n)
  PROVE  /\ Cardinality(D) \in Nat
         /\ \E pos \in [1..Cardinality(D) -> D] :
              \A s : Picked(s, D) = [k \in 1..Cardinality(D) |-> s[pos[k]]]
<1> DEFINE Nth(k) == CHOOSE i \in D : Cardinality({j \in D : j <= i}) = k
           pos == [k \in 1..Cardinality(D) |-> Nth(k)]
<1>1. pos \in [1..Cardinality(D) -> D]
  <2> SUFFICES ASSUME NEW k \in 1..Cardinality(D) PROVE Nth(k) \in D
    OBVIOUS
  <2> QED
    BY RankExists
<1>2. \A s : Picked(s, D) = [k \in 1..Cardinality(D) |-> s[pos[k]]]
  BY DEF Picked
<1>3. Cardinality(D) \in Nat
  <2>1. IsFiniteSet(1..n)
    BY FS_Interval
  <2>2. IsFiniteSet(D)
    BY <2>1, FS_Subset
  <2> QED
    BY <2>2, FS_CardinalityType
<1> QED
  BY <1>1, <1>2, <1>3

LEMMA PickedFrom ==
  ASSUME NEW S, NEW s \in Seq(S), NEW D \in SUBSET DOMAIN s
  PROVE  /\ Picked(s, D) \in Seq(S) /\ Len(Picked(s, D)) = Cardinality(D)
         /\ Cardinality(D) \in Nat
<1>1. Len(s) \in Nat /\ D \in SUBSET (1..Len(s)) /\ \A i \in D : s[i] \in S
  OBVIOUS
<1>2. PICK pos \in [1..Cardinality(D) -> D] :
        \A t : Picked(t, D) = [k \in 1..Cardinality(D) |-> t[pos[k]]]
  BY <1>1, PickedAre, Zenon
<1>3. Cardinality(D) \in Nat
  BY <1>1, PickedAre
<1>4. Picked(s, D) \in [1..Cardinality(D) -> S]
  <2>1. Picked(s, D) = [k \in 1..Cardinality(D) |-> s[pos[k]]]
    BY <1>2
  <2> QED
    BY <1>1, <2>1
<1> QED
  BY <1>3, <1>4, IsSeq

LEMMA RequestsAre ==
  ASSUME NEW line \in Lines PROVE RequestsOf(line) \in Seq(Messages)
<1>1. line.items \in Seq(Messages)
  BY StdioAssumption
<1> QED
  BY <1>1, PickedFrom DEF RequestsOf

\* An answer is no None, and only a notification is answered by None.
LEMMA AnswersAre ==
  ASSUME NEW m \in Messages, NEW open
  PROVE  /\ \A kind \in AnswerKinds : Answer(m, kind) # NoAnswer
         /\ IsNotification(m) => DirectAnswer(m, open) = NoAnswer
         /\ ~IsNotification(m) => \E kind \in AnswerKinds : DirectAnswer(m, open) = Answer(m, kind)
         /\ CallAnswers(m) \subseteq {Answer(m, kind) : kind \in AnswerKinds \ {"-32002"}}
         /\ m.method = "tools/call" => ~IsNotification(m)
  BY StdioAssumption DEF DirectAnswer, CallAnswers, AnswerKinds, IsNotification
-------------------------------------------------------------------------------
LEMMA LoopInit == StdioInit => HandshakeInv
<1> SUFFICES ASSUME StdioInit PROVE HandshakeInv
  OBVIOUS
<1>1. /\ requests = <<>> /\ task = <<>> /\ answers = <<>> /\ out = <<>> /\ owed = <<>>
      /\ loop = "reading" /\ read = 0
      /\ initialized = FALSE /\ settled = FALSE /\ pooled = FALSE
  BY DEF StdioInit
<1>0. Indices = {}
  BY <1>1 DEF Indices
<1>2. LoopInv
  <2>1. requests \in Seq(Messages)
    BY <1>1
  <2>2. task \in [Indices -> Tasks] /\ answers = [i \in Indices |-> answers[i]]
    BY <1>0, <1>1
  <2>3. initialized \in BOOLEAN /\ settled \in BOOLEAN /\ pooled \in BOOLEAN
    BY <1>1
  <2>4. read \in 0..MaxLines
    BY <1>1, StdioAssumption
  <2> QED
    BY <1>1, <2>1, <2>2, <2>3, <2>4 DEF LoopInv
<1>3. AnswerInv /\ SettledInv /\ AlikeInv
  BY <1>0, <1>1 DEF AnswerInv, SettledInv, AlikeInv, OpenMeansServed, ClosedForAll, OpenForServed
<1>4. OrderInv
  BY <1>1 DEF OrderInv
<1> QED
  BY <1>2, <1>3, <1>4 DEF HandshakeInv, AnsweringInv

LEMMA LoopNext == LoopInv /\ [StdioNext]_stdioVars => LoopInv'
<1> SUFFICES ASSUME LoopInv, [StdioNext]_stdioVars PROVE LoopInv'
  OBVIOUS
<1> USE DEF LoopInv
<1>0. MaxLines \in Nat /\ read \in Nat
  BY StdioAssumption
<1>1. CASE UNCHANGED stdioVars
  BY <1>1 DEF stdioVars, loopVars, Indices
<1>2. CASE ReadGarbage
  BY <1>0, <1>2 DEF ReadGarbage, Indices
<1>3. ASSUME NEW line \in Lines, ReadLine(line) PROVE LoopInv'
  <2>1. requests' \in Seq(Messages)
    BY <1>3, RequestsAre DEF ReadLine, InOrder
  <2>2. /\ task' = [i \in Indices' |-> "waiting"] /\ answers' = [i \in Indices' |-> NoAnswer]
    BY <1>3 DEF ReadLine, Indices
  <2>3. /\ loop' \in {"reading", "handling", "stopped"} /\ read' \in 0..MaxLines
        /\ initialized' \in BOOLEAN /\ settled' \in BOOLEAN /\ pooled' \in BOOLEAN
    BY <1>0, <1>3 DEF ReadLine, AfterNotifications
  <2>4. task' \in [Indices' -> Tasks] /\ answers' = [i \in Indices' |-> answers'[i]]
    BY <2>2 DEF Tasks
  <2> QED
    BY <2>1, <2>3, <2>4
<1>4. CASE Write
  BY <1>4 DEF Write, Indices
<1>5. CASE Stop
  BY <1>5 DEF Stop, Indices
<1>6. ASSUME NEW i \in Indices, Start(i) PROVE LoopInv'
  <2>1. /\ UNCHANGED <<loop, read, requests, pooled, settled>> /\ Indices' = Indices
        /\ \E t \in Tasks : task' = [task EXCEPT ![i] = t]
        /\ answers' = answers \/ \E a : answers' = [answers EXCEPT ![i] = a]
        /\ initialized' \in BOOLEAN
    BY <1>6 DEF Start, Indices, Tasks, OpenAfter, Opens
  <2> QED
    BY <2>1
<1>7. ASSUME NEW i \in Indices, Complete(i) PROVE LoopInv'
  <2>1. /\ UNCHANGED <<initialized, loop, read, requests, pooled, settled>> /\ Indices' = Indices
        /\ task' = [task EXCEPT ![i] = "done"]
        /\ \E a : answers' = [answers EXCEPT ![i] = a]
    BY <1>7 DEF Complete, Indices
  <2> QED
    BY <2>1 DEF Tasks
<1>8. ASSUME NEW i \in Indices, Cancel(i) PROVE LoopInv'
  <2>1. /\ UNCHANGED <<initialized, loop, read, requests, pooled, settled, answers>> /\ Indices' = Indices
        /\ task' = [j \in Indices |-> IF task[j] = "waiting" THEN "cancelled" ELSE task[j]]
    BY <1>8 DEF Cancel, Indices
  <2> QED
    BY <2>1 DEF Tasks
<1> QED
  BY <1>1, <1>2, <1>3, <1>4, <1>5, <1>6, <1>7, <1>8 DEF StdioNext

\* What starting a request leaves behind.
LEMMA StartStep ==
  ASSUME LoopInv, NEW i \in Indices, Start(i)
  PROVE  /\ requests[i] \in Messages
         /\ initialized' = OpenAfter(requests[i], initialized)
         /\ task[i] = "waiting"
         /\ \/ /\ task' = [task EXCEPT ![i] = "raised"] /\ answers' = answers
            \/ /\ task' = [task EXCEPT ![i] = "running"] /\ answers' = answers
               /\ RunsTool(requests[i], initialized)
            \/ /\ task' = [task EXCEPT ![i] = "done"]
               /\ answers' = [answers EXCEPT ![i] = DirectAnswer(requests[i], initialized)]
               /\ ~RunsTool(requests[i], initialized) /\ ~Raises(requests[i])
         /\ UNCHANGED <<loop, read, requests, pooled, out, owed, settled>> /\ Indices' = Indices
<1>1. requests[i] \in Messages
  BY DEF LoopInv, Indices
<1>2. task \in [Indices -> Tasks]
  BY DEF LoopInv
<1>3. CASE Raises(requests[i])
  <2>1. task' = [task EXCEPT ![i] = "raised"] /\ task'[i] = "raised"
    BY <1>2, <1>3 DEF Start
  <2> QED
    BY <1>1, <2>1 DEF Start, NextUp, Indices
<1>4. CASE ~Raises(requests[i]) /\ RunsTool(requests[i], initialized)
  <2>1. task' = [task EXCEPT ![i] = "running"] /\ task'[i] = "running"
    BY <1>2, <1>4 DEF Start
  <2> QED
    BY <1>1, <1>4, <2>1 DEF Start, NextUp, Indices
<1>5. CASE ~Raises(requests[i]) /\ ~RunsTool(requests[i], initialized)
  <2>1. task' = [task EXCEPT ![i] = "done"] /\ task'[i] = "done"
    BY <1>2, <1>5 DEF Start
  <2> QED
    BY <1>1, <1>5, <2>1 DEF Start, NextUp, Indices
<1> QED
  BY <1>3, <1>4, <1>5

LEMMA AnswerNext == LoopInv /\ AnswerInv /\ [StdioNext]_stdioVars => AnswerInv'
<1> SUFFICES ASSUME LoopInv, AnswerInv, [StdioNext]_stdioVars PROVE AnswerInv'
  OBVIOUS
<1>0. /\ task \in [Indices -> Tasks] /\ answers = [j \in Indices |-> answers[j]]
      /\ \A i \in Indices : requests[i] \in Messages
  BY DEF LoopInv, Indices
<1>1. CASE UNCHANGED <<requests, task, answers>>
  BY <1>1 DEF AnswerInv, Indices
<1>2. ASSUME NEW line \in Lines, ReadLine(line) PROVE AnswerInv'
  <2>1. task' = [i \in Indices' |-> "waiting"] /\ answers' = [i \in Indices' |-> NoAnswer]
    BY <1>2 DEF ReadLine, Indices
  <2> QED
    BY <2>1 DEF AnswerInv
<1>3. ASSUME NEW i \in Indices, Start(i) PROVE AnswerInv'
  <2> SUFFICES ASSUME NEW j \in Indices
        PROVE  /\ task'[j] = "running" => requests[j].method = "tools/call"
               /\ answers'[j] # NoAnswer => \E kind \in AnswerKinds : answers'[j] = Answer(requests[j], kind)
               /\ task'[j] # "done" => answers'[j] = NoAnswer
               /\ task'[j] = "done" => (answers'[j] = NoAnswer <=> IsNotification(requests[j]))
    BY <1>3, StartStep DEF AnswerInv
  <2>1. CASE j # i
    <3>1. task'[j] = task[j] /\ answers'[j] = answers[j]
      BY <1>0, <1>3, <2>1, StartStep
    <3> QED
      BY <3>1 DEF AnswerInv
  <2>2. CASE j = i /\ task' = [task EXCEPT ![i] = "done"]
    <3>1. task'[i] = "done" /\ answers'[i] = DirectAnswer(requests[i], initialized)
      BY <1>0, <1>3, <2>2, StartStep
    <3> QED
      BY <1>0, <2>2, <3>1, AnswersAre
  <2>3. CASE j = i /\ task' # [task EXCEPT ![i] = "done"]
    <3>1. /\ task'[i] \in {"raised", "running"} /\ answers'[i] = answers[i] /\ task[i] = "waiting"
          /\ task'[i] = "running" => RunsTool(requests[i], initialized)
      BY <1>0, <1>3, <2>3, StartStep
    <3> QED
      BY <2>3, <3>1 DEF AnswerInv, RunsTool
  <2> QED
    BY <2>1, <2>2, <2>3
<1>4. ASSUME NEW i \in Indices, Complete(i) PROVE AnswerInv'
  <2>1. /\ UNCHANGED requests /\ Indices' = Indices /\ task[i] = "running"
        /\ task' = [task EXCEPT ![i] = "done"]
    BY <1>4 DEF Complete, Indices
  <2>2. PICK a \in CallAnswers(requests[i]) : answers' = [answers EXCEPT ![i] = a]
    BY <1>4 DEF Complete
  <2>3. /\ ~IsNotification(requests[i]) /\ a # NoAnswer
        /\ \E kind \in AnswerKinds : a = Answer(requests[i], kind)
    BY <1>0, <2>1, <2>2, AnswersAre DEF AnswerInv
  <2> QED
    BY <1>0, <2>1, <2>2, <2>3 DEF AnswerInv
<1>5. ASSUME NEW i \in Indices, Cancel(i) PROVE AnswerInv'
  <2>1. /\ UNCHANGED <<requests, answers>> /\ Indices' = Indices
        /\ task' = [j \in Indices |-> IF task[j] = "waiting" THEN "cancelled" ELSE task[j]]
    BY <1>5 DEF Cancel, Indices
  <2> QED
    BY <1>0, <2>1 DEF AnswerInv
<1>6. CASE ReadGarbage \/ Write \/ Stop
  BY <1>1, <1>6 DEF ReadGarbage, Write, Stop
<1> QED
  BY <1>1, <1>2, <1>3, <1>4, <1>5, <1>6 DEF StdioNext, stdioVars, loopVars

\* The requests that are owed an answer are owed it in the order in which they are read.
LEMMA DueAre ==
  ASSUME LoopInv
  PROVE  /\ Len(Due) \in Nat /\ DOMAIN Due = 1..Len(Due) /\ Owing \in SUBSET (1..Len(requests))
         /\ \A k \in 1..Len(Due) : Due[k] \in Messages
         /\ \E pos \in [1..Len(Due) -> Owing] :
              \A s : Picked(s, Owing) = [k \in 1..Len(Due) |-> s[pos[k]]]
<1>1. /\ requests \in Seq(Messages) /\ Owing \in SUBSET DOMAIN requests
      /\ Len(requests) \in Nat /\ Owing \in SUBSET (1..Len(requests))
  BY DEF LoopInv, Owing, Indices
<1>2. Due \in Seq(Messages) /\ Len(Due) = Cardinality(Owing)
  BY <1>1, PickedFrom DEF Due
<1>3. \E pos \in [1..Cardinality(Owing) -> Owing] :
        \A s : Picked(s, Owing) = [k \in 1..Cardinality(Owing) |-> s[pos[k]]]
  BY <1>1, PickedAre, Zenon
<1> QED
  BY <1>1, <1>2, <1>3

\* Both sequences grow by the same answers: those of what was owed before, then the new.
LEMMA OrderRead ==
  ASSUME LoopInv, LoopInv', OrderInv, NEW line \in Lines, ReadLine(line)
  PROVE  OrderInv'
<1>0. /\ read \in Nat /\ loop = "reading" /\ read' = read + 1 /\ out' = out
      /\ loop' = IF requests' = <<>> THEN "reading" ELSE "handling"
      /\ owed \in Seq(Entries) /\ out \in Seq(Replies) /\ Len(owed) = Len(out)
      /\ \A k \in 1..Len(out) : owed[k].line = out[k].line /\ owed[k].id = out[k].id
  BY StdioAssumption DEF LoopInv, OrderInv, ReadLine
<1>1. /\ Len(Due') \in Nat /\ DOMAIN Due' = 1..Len(Due')
      /\ \A k \in 1..Len(Due') : Due'[k] \in Messages
  <2>1. requests' \in Seq(Messages) /\ Owing' \in SUBSET DOMAIN requests'
    BY DEF LoopInv, Owing, Indices
  <2>2. Due' \in Seq(Messages) /\ Len(Due') \in Nat
    BY <2>1, PickedFrom DEF Due
  <2> QED
    BY <2>2
<1>2. owed' = owed \o [k \in 1..Len(Due') |-> [line |-> read + 1, id |-> Due'[k].id]]
  <2>1. OwedFor(line) = [k \in DOMAIN Due' |-> [line |-> read + 1, id |-> Due'[k].id]]
    BY DEF OwedFor, Due, Owing, Indices, ReadLine, InOrder
  <2> QED
    BY <1>1, <2>1 DEF ReadLine
<1> DEFINE more == [k \in 1..Len(Due') |-> [line |-> read + 1, id |-> Due'[k].id]]
<1>3. more \in Seq(Entries) /\ Len(more) = Len(Due')
  <2>1. more \in [1..Len(Due') -> Entries]
    BY <1>0, <1>1 DEF Entries, Ids
  <2> QED
    BY <1>1, <2>1, IsSeq
<1>4. requests' = <<>> => Len(Due') = 0
  <2> SUFFICES ASSUME requests' = <<>> PROVE Len(Due') = 0
    OBVIOUS
  <2>1. Owing' = {}
    BY DEF Owing, Indices
  <2>2. Due' = [k \in 1..0 |-> requests'[CHOOSE i \in {} : Cardinality({j \in {} : j <= i}) = k]]
    BY <2>1, FS_EmptySet DEF Due, Picked
  <2> QED
    BY <1>1, <2>2
<1> HIDE DEF more
<1>5. /\ owed' \in Seq(Entries) /\ Len(owed') = Len(owed) + Len(Due')
      /\ \A k \in 1..Len(owed) : owed'[k] = owed[k]
      /\ \A k \in 1..Len(Due') : owed'[Len(owed) + k] = more[k]
  <2>1. owed' = owed \o more
    BY <1>2 DEF more
  <2>2. /\ owed \o more \in Seq(Entries) /\ Len(owed \o more) = Len(owed) + Len(more)
        /\ \A k \in 1..Len(owed) : (owed \o more)[k] = owed[k]
        /\ \A k \in 1..Len(more) : (owed \o more)[Len(owed) + k] = more[k]
    <3>1. owed \in Seq(Entries) /\ more \in Seq(Entries)
      BY <1>0, <1>3
    <3> QED
      BY <3>1
  <2> QED
    BY <1>3, <2>1, <2>2
<1>6. \A k \in 1..Len(Due') : more[k] = [line |-> read', id |-> Due'[k].id]
  BY <1>0 DEF more
<1> HIDE DEF Due
<1>7. Len(owed') = Len(out') + (IF loop' = "reading" THEN 0 ELSE Len(Due'))
  BY <1>0, <1>1, <1>4, <1>5
<1>8. \A k \in 1..Len(out') : owed'[k].line = out'[k].line /\ owed'[k].id = out'[k].id
  BY <1>0, <1>5
<1>9. \A k \in 1..Len(Due') : owed'[Len(out') + k] = [line |-> read', id |-> Due'[k].id]
  BY <1>0, <1>5, <1>6
<1> QED
  BY <1>0, <1>5, <1>7, <1>8, <1>9 DEF OrderInv

LEMMA OrderWrite ==
  ASSUME LoopInv, AnswerInv, OrderInv, Write
  PROVE  OrderInv'
<1>0. /\ loop = "handling" /\ loop' = "reading" /\ \A i \in Indices : task[i] = "done"
      /\ owed' = owed /\ read \in Nat
      /\ owed \in Seq(Entries) /\ out \in Seq(Replies) /\ Len(owed) = Len(out) + Len(Due)
      /\ \A k \in 1..Len(out) : owed[k].line = out[k].line /\ owed[k].id = out[k].id
      /\ \A k \in 1..Len(Due) : owed[Len(out) + k] = [line |-> read, id |-> Due[k].id]
  BY StdioAssumption DEF LoopInv, OrderInv, Write
<1>1. {i \in Indices : answers[i] # NoAnswer} = Owing
  BY <1>0 DEF Owing, AnswerInv
<1>2. Written = Picked(answers, Owing)
  BY <1>1 DEF Written
<1>3. Len(Due) \in Nat /\ \A k \in 1..Len(Due) : Due[k] \in Messages
  BY DueAre
<1>4. PICK pos \in [1..Len(Due) -> Owing] :
        \A s : Picked(s, Owing) = [k \in 1..Len(Due) |-> s[pos[k]]]
  BY DueAre
<1>5. Written = [k \in 1..Len(Due) |-> answers[pos[k]]]
  BY <1>2, <1>4
<1>6. Due = [k \in 1..Len(Due) |-> requests[pos[k]]]
  BY <1>4 DEF Due
<1>7. \A k \in 1..Len(Due) : Written[k].id = Due[k].id /\ Written[k].kind \in AnswerKinds
  <2> SUFFICES ASSUME NEW k \in 1..Len(Due)
               PROVE  Written[k].id = Due[k].id /\ Written[k].kind \in AnswerKinds
    OBVIOUS
  <2>1. pos[k] \in Indices /\ answers[pos[k]] # NoAnswer
    BY <1>1
  <2>2. PICK kind \in AnswerKinds : answers[pos[k]] = Answer(requests[pos[k]], kind)
    BY <2>1 DEF AnswerInv
  <2>3. Written[k] = answers[pos[k]] /\ Due[k] = requests[pos[k]]
    BY <1>5, <1>6
  <2> QED
    BY <2>2, <2>3 DEF Answer
<1> DEFINE more == [k \in 1..Len(Due) |-> [line |-> read, id |-> Written[k].id, kind |-> Written[k].kind]]
<1>8. out' = out \o more
  <2>1. DOMAIN Written = 1..Len(Due)
    BY <1>5
  <2> QED
    BY <2>1 DEF Write
<1>9. more \in Seq(Replies) /\ Len(more) = Len(Due)
  <2>1. \A k \in 1..Len(Due) : Due[k].id \in Ids
    BY <1>3 DEF Ids
  <2>2. more \in [1..Len(Due) -> Replies]
    BY <1>0, <1>7, <2>1 DEF Replies
  <2> QED
    BY <1>3, <2>2, IsSeq
<1>10. \A k \in 1..Len(Due) : more[k].line = read /\ more[k].id = Due[k].id
  BY <1>7
<1> HIDE DEF more
<1>11. /\ out' \in Seq(Replies) /\ Len(out') = Len(out) + Len(Due)
       /\ \A k \in 1..Len(out) : out'[k] = out[k]
       /\ \A k \in 1..Len(Due) : out'[Len(out) + k] = more[k]
  <2>1. /\ out \o more \in Seq(Replies) /\ Len(out \o more) = Len(out) + Len(more)
        /\ \A k \in 1..Len(out) : (out \o more)[k] = out[k]
        /\ \A k \in 1..Len(more) : (out \o more)[Len(out) + k] = more[k]
    <3>1. out \in Seq(Replies) /\ more \in Seq(Replies)
      BY <1>0, <1>9
    <3> QED
      BY <3>1
  <2> QED
    BY <1>8, <1>9, <2>1
<1>12. \A k \in 1..Len(out') : owed[k].line = out'[k].line /\ owed[k].id = out'[k].id
  <2> SUFFICES ASSUME NEW k \in 1..Len(out')
               PROVE  owed[k].line = out'[k].line /\ owed[k].id = out'[k].id
    OBVIOUS
  <2>1. CASE k \in 1..Len(out)
    BY <1>0, <1>11, <2>1
  <2>2. CASE k \notin 1..Len(out)
    <3>1. Len(out) \in Nat /\ k \in Nat
      BY <1>0, <1>11
    <3>2. PICK j \in 1..Len(Due) : k = Len(out) + j
      <4>1. k - Len(out) \in 1..Len(Due) /\ k = Len(out) + (k - Len(out))
        BY <1>3, <1>11, <2>2, <3>1
      <4> QED
        BY <4>1
    <3>3. out'[k] = more[j] /\ owed[k] = [line |-> read, id |-> Due[j].id]
      BY <1>0, <1>11, <3>2
    <3> QED
      BY <1>10, <3>3
  <2> QED
    BY <2>1, <2>2
<1> QED
  BY <1>0, <1>11, <1>12 DEF OrderInv

LEMMA OrderNext == AnsweringInv /\ [StdioNext]_stdioVars => OrderInv'
<1> SUFFICES ASSUME AnsweringInv, [StdioNext]_stdioVars PROVE OrderInv'
  OBVIOUS
<1>0. LoopInv /\ AnswerInv /\ OrderInv /\ LoopInv'
  BY LoopNext DEF AnsweringInv
<1>1. CASE UNCHANGED <<loop, read, requests, out, owed>>
  BY <1>0, <1>1 DEF OrderInv, Due, Owing, Indices
<1>2. CASE ReadGarbage
  <2>1. /\ loop = "reading" /\ loop' = "reading" /\ read \in Nat /\ Len(owed) = Len(out)
        /\ owed \in Seq(Entries) /\ out \in Seq(Replies)
        /\ \A k \in 1..Len(out) : owed[k].line = out[k].line /\ owed[k].id = out[k].id
        /\ out' = Append(out, [line |-> read + 1, id |-> NoAnswer, kind |-> "-32700"])
        /\ owed' = Append(owed, [line |-> read + 1, id |-> NoAnswer])
    BY <1>0, <1>2, StdioAssumption DEF LoopInv, OrderInv, ReadGarbage
  <2>2. /\ [line |-> read + 1, id |-> NoAnswer, kind |-> "-32700"] \in Replies
        /\ [line |-> read + 1, id |-> NoAnswer] \in Entries
    BY <2>1 DEF Replies, Entries, Ids
  <2> QED
    BY <2>1, <2>2 DEF OrderInv
<1>3. ASSUME NEW line \in Lines, ReadLine(line) PROVE OrderInv'
  BY <1>0, <1>3, OrderRead
<1>4. CASE Write
  BY <1>0, <1>4, OrderWrite
<1>5. CASE Stop
  <2>1. /\ loop = "handling" /\ loop' = "stopped"
        /\ UNCHANGED <<read, requests, out, owed>>
    BY <1>5 DEF Stop
  <2>2. Due' = Due
    BY <2>1 DEF Due, Owing, Indices
  <2> HIDE DEF Due
  <2> QED
    BY <1>0, <2>1, <2>2 DEF OrderInv
<1>6. CASE \E i \in Indices : Start(i) \/ Complete(i) \/ Cancel(i)
  BY <1>1, <1>6 DEF Start, Complete, Cancel
<1> QED
  BY <1>1, <1>2, <1>3, <1>4, <1>5, <1>6 DEF StdioNext, stdioVars, loopVars
-------------------------------------------------------------------------------
\* Once the handshake is over, no answer asks for it; while it is not, only a message that
\* needs it is answered so, and it is not over after that message either.
LEMMA GateAnswers ==
  ASSUME NEW m \in Messages, NEW open, ~RunsTool(m, open), ~Raises(m)
  PROVE  LET a == DirectAnswer(m, open) IN
         /\ a # NoAnswer /\ a.kind = "-32002" => ~OpenAfter(m, open)
         /\ NeedsHandshake(m) /\ a # NoAnswer /\ a.kind # "-32002" => OpenAfter(m, open)
<1> DEFINE a == DirectAnswer(m, open)
<1> SUFFICES ASSUME a # NoAnswer
             PROVE  /\ a.kind = "-32002" => ~OpenAfter(m, open)
                    /\ NeedsHandshake(m) /\ a.kind # "-32002" => OpenAfter(m, open)
  OBVIOUS
<1>1. CASE NeedsHandshake(m) /\ ~OpenAfter(m, open)
  <2>1. a = Answer(m, "-32002")
    BY <1>1 DEF DirectAnswer
  <2> QED
    BY <1>1, <2>1 DEF Answer
<1>2. CASE ~ (NeedsHandshake(m) /\ ~OpenAfter(m, open))
  <2>1. \E kind \in {"result", "-32601"} : a = Answer(m, kind)
    BY <1>2 DEF DirectAnswer
  <2> QED
    BY <1>2, <2>1 DEF Answer
<1> QED
  BY <1>1, <1>2

\* A notification of a batch that ends the handshake is one AfterNotifications sees.
LEMMA SettledRead ==
  ASSUME SettledInv, NEW line \in Lines, ReadLine(line)
  PROVE  settled' => initialized'
<1> SUFFICES ASSUME settled', ~initialized PROVE initialized'
  BY DEF ReadLine, AfterNotifications
<1>1. PICK i \in DOMAIN line.items :
        line.kind = "batch" /\ line.items[i].method = "notifications/initialized"
  BY DEF ReadLine
<1>2. IsNotification(line.items[i]) /\ Opens(line.items[i])
  BY <1>1 DEF IsNotification, Opens, Raises, ReadsParams
<1> QED
  BY <1>1, <1>2 DEF ReadLine, AfterNotifications

LEMMA SettledNext == LoopInv /\ AnswerInv /\ SettledInv /\ [StdioNext]_stdioVars => SettledInv'
<1> SUFFICES ASSUME LoopInv, AnswerInv, SettledInv, [StdioNext]_stdioVars PROVE SettledInv'
  OBVIOUS
<1> USE DEF SettledInv, OpenMeansServed
<1>0. /\ answers = [j \in Indices |-> answers[j]]
      /\ \A i \in Indices : requests[i] \in Messages
  BY DEF LoopInv, Indices
<1>1. CASE UNCHANGED <<initialized, settled, requests, answers>>
  BY <1>1 DEF Indices
<1>2. ASSUME NEW line \in Lines, ReadLine(line) PROVE SettledInv'
  <2>1. answers' = [i \in Indices' |-> NoAnswer]
    BY <1>2 DEF ReadLine, Indices
  <2> QED
    BY <1>2, <2>1, SettledRead
<1>3. ASSUME NEW i \in Indices, Start(i) PROVE SettledInv'
  <2>1. /\ initialized' = OpenAfter(requests[i], initialized) /\ requests[i] \in Messages
        /\ UNCHANGED settled /\ Indices' = Indices
    BY <1>3, StartStep
  <2>2. CASE answers' = answers
    BY <2>1, <2>2 DEF OpenAfter
  <2>3. CASE /\ answers' = [answers EXCEPT ![i] = DirectAnswer(requests[i], initialized)]
             /\ ~RunsTool(requests[i], initialized) /\ ~Raises(requests[i])
    <3>1. \A j \in Indices : answers'[j] = IF j = i THEN DirectAnswer(requests[i], initialized) ELSE answers[j]
      BY <1>0, <2>3
    <3>2. initialized => OpenAfter(requests[i], initialized)
      BY DEF OpenAfter
    <3> QED
      BY <2>1, <2>3, <3>1, <3>2, GateAnswers
  <2> QED
    BY <1>3, <2>2, <2>3, StartStep
<1>4. ASSUME NEW i \in Indices, Complete(i) PROVE SettledInv'
  <2>1. UNCHANGED <<initialized, settled, requests>> /\ Indices' = Indices
    BY <1>4 DEF Complete, Indices
  <2>2. PICK a \in CallAnswers(requests[i]) : answers' = [answers EXCEPT ![i] = a]
    BY <1>4 DEF Complete
  <2>3. a.kind # "-32002"
    BY <1>0, <2>2, AnswersAre DEF Answer
  <2> QED
    BY <1>0, <2>1, <2>2, <2>3
<1>5. CASE ReadGarbage \/ Write \/ Stop \/ \E i \in Indices : Cancel(i)
  BY <1>1, <1>5 DEF ReadGarbage, Write, Stop, Cancel
<1> QED
  BY <1>1, <1>2, <1>3, <1>4, <1>5 DEF StdioNext, stdioVars, loopVars

LEMMA AlikeNext == LoopInv /\ AnswerInv /\ AlikeInv /\ [StdioNext]_stdioVars => AlikeInv'
<1> SUFFICES ASSUME LoopInv, AnswerInv, AlikeInv, [StdioNext]_stdioVars PROVE AlikeInv'
  OBVIOUS
<1> USE DEF AlikeInv, ClosedForAll, OpenForServed
<1>0. /\ task \in [Indices -> Tasks] /\ answers = [j \in Indices |-> answers[j]]
      /\ \A i \in Indices : requests[i] \in Messages
  BY DEF LoopInv, Indices
<1>1. CASE UNCHANGED <<initialized, requests, task, answers>>
  BY <1>1 DEF Indices
<1>2. ASSUME NEW line \in Lines, ReadLine(line) PROVE AlikeInv'
  <2>1. task' = [i \in Indices' |-> "waiting"] /\ answers' = [i \in Indices' |-> NoAnswer]
    BY <1>2 DEF ReadLine, Indices
  <2> QED
    BY <2>1
<1>3. ASSUME NEW i \in Indices, Start(i) PROVE AlikeInv'
  <2>1. /\ initialized' = OpenAfter(requests[i], initialized) /\ requests[i] \in Messages
        /\ UNCHANGED requests /\ Indices' = Indices
    BY <1>3, StartStep
  <2> SUFFICES ASSUME \A j \in Indices : ~Opens(requests[j])
               PROVE  ClosedForAll' /\ OpenForServed'
    BY <2>1
  <2>2. (initialized' <=> initialized) /\ (OpenAfter(requests[i], initialized) <=> initialized)
    BY <2>1 DEF OpenAfter, LoopInv
  <2>3. ClosedForAll /\ OpenForServed
    OBVIOUS
  <2>4. CASE task' = [task EXCEPT ![i] = "raised"] /\ answers' = answers
    <3>1. \A j \in Indices : task'[j] = IF j = i THEN "raised" ELSE task[j]
      BY <1>0, <2>4
    <3> QED
      BY <2>1, <2>2, <2>3, <2>4, <3>1
  <2>5. CASE /\ task' = [task EXCEPT ![i] = "running"] /\ answers' = answers
             /\ RunsTool(requests[i], initialized)
    <3>1. \A j \in Indices : task'[j] = IF j = i THEN "running" ELSE task[j]
      BY <1>0, <2>5
    <3>2. initialized
      BY <2>2, <2>5 DEF RunsTool
    <3> QED
      BY <2>1, <2>2, <2>3, <2>5, <3>1, <3>2
  <2>6. CASE /\ task' = [task EXCEPT ![i] = "done"]
             /\ answers' = [answers EXCEPT ![i] = DirectAnswer(requests[i], initialized)]
             /\ ~RunsTool(requests[i], initialized) /\ ~Raises(requests[i])
    <3>1. \A j \in Indices :
            /\ task'[j] = IF j = i THEN "done" ELSE task[j]
            /\ answers'[j] = IF j = i THEN DirectAnswer(requests[i], initialized) ELSE answers[j]
      BY <1>0, <2>6
    <3>2. LET a == DirectAnswer(requests[i], initialized) IN
            /\ a # NoAnswer /\ a.kind = "-32002" => ~initialized
            /\ NeedsHandshake(requests[i]) /\ a # NoAnswer /\ a.kind # "-32002" => initialized
      BY <2>1, <2>2, <2>6, GateAnswers
    <3> QED
      BY <2>1, <2>2, <2>3, <3>1, <3>2
  <2> QED
    BY <1>3, <2>4, <2>5, <2>6, StartStep
<1>4. ASSUME NEW i \in Indices, Complete(i) PROVE AlikeInv'
  <2>1. /\ UNCHANGED <<initialized, requests>> /\ Indices' = Indices /\ task[i] = "running"
        /\ task' = [task EXCEPT ![i] = "done"]
    BY <1>4 DEF Complete, Indices
  <2>2. PICK a \in CallAnswers(requests[i]) : answers' = [answers EXCEPT ![i] = a]
    BY <1>4 DEF Complete
  <2>3. a.kind # "-32002"
    BY <1>0, <2>2, AnswersAre DEF Answer
  <2>4. \A j \in Indices : /\ task'[j] = IF j = i THEN "done" ELSE task[j]
                           /\ answers'[j] = IF j = i THEN a ELSE answers[j]
    BY <1>0, <2>1, <2>2
  <2> QED
    BY <2>1, <2>3, <2>4
<1>5. ASSUME NEW i \in Indices, Cancel(i) PROVE AlikeInv'
  <2>1. /\ UNCHANGED <<initialized, requests, answers>> /\ Indices' = Indices
        /\ task' = [j \in Indices |-> IF task[j] = "waiting" THEN "cancelled" ELSE task[j]]
    BY <1>5 DEF Cancel, Indices
  <2> QED
    BY <1>0, <2>1
<1>6. CASE ReadGarbage \/ Write \/ Stop
  BY <1>1, <1>6 DEF ReadGarbage, Write, Stop
<1> QED
  BY <1>1, <1>2, <1>3, <1>4, <1>5, <1>6 DEF StdioNext, stdioVars, loopVars

LEMMA HandshakeNext == HandshakeInv /\ [StdioNext]_stdioVars => HandshakeInv'
  BY LoopNext, AnswerNext, OrderNext, SettledNext, AlikeNext DEF HandshakeInv, AnsweringInv

LEMMA HandshakeAlways == StdioSpec => []HandshakeInv
  BY LoopInit, HandshakeNext, PTL DEF StdioSpec
-------------------------------------------------------------------------------
\* The loop's state keeps its types, for any lines (serve, _handle_batch).
THEOREM LoopTypes == StdioSpec => []StdioTypes
<1>1. HandshakeInv => StdioTypes
  BY DEF HandshakeInv, AnsweringInv, LoopInv, StdioTypes, Tasks
<1> QED
  BY <1>1, HandshakeAlways, PTL

LEMMA InOrderFollows == HandshakeInv => AnsweredInOrder
<1> SUFFICES ASSUME HandshakeInv PROVE AnsweredInOrder
  OBVIOUS
<1>1. /\ owed \in Seq(Entries) /\ out \in Seq(Replies) /\ Len(Due) \in Nat
      /\ Len(owed) = Len(out) + (IF loop = "reading" THEN 0 ELSE Len(Due))
      /\ \A k \in 1..Len(out) : owed[k].line = out[k].line /\ owed[k].id = out[k].id
  BY DueAre DEF HandshakeInv, AnsweringInv, OrderInv
<1>2. Len(out) \in Nat /\ Len(owed) \in Nat /\ DOMAIN out = 1..Len(out)
  BY <1>1
<1>3. Len(out) <= Len(owed) /\ (loop = "reading" => Len(out) = Len(owed))
  <2>1. CASE loop = "reading"
    BY <1>1, <1>2, <2>1
  <2>2. CASE loop # "reading"
    <3>1. \A a, b, c \in Nat : a = b + c => b <= a
      OBVIOUS
    <3>2. Len(owed) = Len(out) + Len(Due) /\ Len(Due) \in Nat
      BY <1>1, <2>2
    <3>3. Len(out) <= Len(owed)
      BY <1>2, <3>1, <3>2, Zenon
    <3> QED
      BY <2>2, <3>3, Zenon
  <2> QED
    BY <2>1, <2>2
<1>4. \A k \in DOMAIN out : out[k].line = owed[k].line /\ out[k].id = owed[k].id
  BY <1>1, <1>2
<1> QED
  BY <1>3, <1>4 DEF AnsweredInOrder

\* However the pool's threads end, the answers are written in the order of the requests,
\* each with its own id and line, and none is written twice or left out (serve and
\* _handle_batch, for a pool and a batch of any size).
THEOREM AnswersInOrder == StdioSpec => []AnsweredInOrder
  BY InOrderFollows, HandshakeAlways, PTL

\* A notification that ends the handshake, wherever it stands in a batch, does so for each
\* of its requests (_handle_batch handles the notifications first).
THEOREM BatchHandshakeFirst == StdioSpec => []OpenMeansServed
  BY HandshakeAlways, PTL DEF HandshakeInv, SettledInv

LEMMA AlikeFollows == HandshakeInv => TreatedAlike
  BY DEF HandshakeInv, AlikeInv, ClosedForAll, OpenForServed, TreatedAlike

\* When no request of a batch opens the session itself, its calls find it open or closed
\* alike, whatever the threads do (_handle_batch's pool, handle_message's gate).
THEOREM BatchTreatedAlike == StdioSpec => []TreatedAlike
  BY AlikeFollows, HandshakeAlways, PTL
--------------------------------------------------------------------------------
(* The HTTP server. *)

\* The functions have their domains; nothing else of the types is needed below.
DomainsInv ==
  /\ conn = [c \in Connections |-> conn[c]]
  /\ request = [c \in Connections |-> request[c]]
  /\ inStep = [c \in Connections |-> inStep[c]]
  /\ reply = [c \in Connections |-> reply[c]]
  /\ openAt = [c \in Connections |-> openAt[c]]

\* The shared flag is never taken back.
StaysOpen == \A c \in Connections : openAt[c] => initialized

OpenInv == StaysOpen /\ OpenForAll

\* The steps of a connection that reads a request and answers it without handle_message.
Early(c, r) == Unauthorized(c, r) \/ Reject(c, r) \/ OtherVerb(c, r)
-----------------------------------------------------------------------------
\* What an early step leaves: a bare reply, and a connection that is idle as before, with
\* the body unread only under the three statuses, or closed.
LEMMA EarlyStep ==
  ASSUME DomainsInv, NEW c \in Connections, NEW r \in Requests, Early(c, r)
  PROVE  /\ \E status : reply' = [reply EXCEPT ![c] = Bare(status)]
         /\ conn[c] = "idle"
         /\ \/ /\ conn' = conn
               /\ \E b : inStep' = [inStep EXCEPT ![c] = b]
               /\ reply'[c].status \in {401, 405, 204}
            \/ /\ conn' = [conn EXCEPT ![c] = "closed"]
               /\ inStep' = inStep
         /\ Arrive(c, r)
<1>0. ASSUME NEW status, reply' = [reply EXCEPT ![c] = Bare(status)]
      PROVE  reply'[c].status = status
  <2>1. reply = [d \in Connections |-> reply[d]]
    BY DEF DomainsInv
  <2>2. reply'[c] = Bare(status)
    BY <1>0, <2>1
  <2> QED
    BY <2>2 DEF Bare
<1>1. CASE Unauthorized(c, r)
  <2>1. Arrive(c, r) /\ SendUnread(c, r, 401)
    BY <1>1 DEF Unauthorized
  <2>2. reply' = [reply EXCEPT ![c] = Bare(401)]
    BY <2>1 DEF SendUnread
  <2>3. conn[c] = "idle" /\ conn' = conn /\ \E b : inStep' = [inStep EXCEPT ![c] = b]
    BY <2>1, Zenon DEF SendUnread, Arrive
  <2>4. reply'[c].status \in {401, 405, 204}
    BY <1>0, <2>2
  <2>5. \E status : reply' = [reply EXCEPT ![c] = Bare(status)]
    BY <2>2, Zenon
  <2> QED
    BY <2>1, <2>3, <2>4, <2>5, Zenon
<1>2. CASE Reject(c, r)
  BY <1>2 DEF Reject, AfterReject, Arrive
<1>3. CASE OtherVerb(c, r)
  <2>1. Arrive(c, r) /\ (SendUnread(c, r, 204) \/ SendUnread(c, r, 405))
    BY <1>3 DEF OtherVerb
  <2>2. \/ reply' = [reply EXCEPT ![c] = Bare(204)]
        \/ reply' = [reply EXCEPT ![c] = Bare(405)]
    BY <2>1 DEF SendUnread
  <2>3. conn[c] = "idle" /\ conn' = conn /\ \E b : inStep' = [inStep EXCEPT ![c] = b]
    BY <2>1, Zenon DEF SendUnread, Arrive
  <2>4. reply'[c].status \in {401, 405, 204}
    BY <1>0, <2>2
  <2>5. \E status : reply' = [reply EXCEPT ![c] = Bare(status)]
    BY <2>2, Zenon
  <2> QED
    BY <2>1, <2>3, <2>4, <2>5, Zenon
<1> QED
  BY <1>1, <1>2, <1>3 DEF Early

\* What an answer that goes out has: the connection is idle or closed, and the reply is a
\* bare one, the scoped answer, or, without scopes, the answer.
LEMMA ResponseStep ==
  ASSUME DomainsInv, NEW c \in Connections, NEW a, Respond(c, a)
  PROVE  /\ \E s \in {"idle", "closed"} : conn' = [conn EXCEPT ![c] = s]
         /\ \E reply1 : reply' = [reply EXCEPT ![c] = reply1]
         /\ \/ reply'[c] = Bare(202)
            \/ /\ ScopesFound(request[c])
               /\ reply'[c] = Scoped(request[c], a)
            \/ /\ ~ScopesFound(request[c])
               /\ reply'[c].kind = a.kind
<1> DEFINE sent == IF a = NoAnswer THEN Bare(202)
                   ELSE IF ScopesFound(request[c]) THEN Scoped(request[c], a)
                   ELSE [status |-> 200, kind |-> a.kind, tools |-> Shown(request[c].m, a)]
<1>1. reply' = [reply EXCEPT ![c] = sent]
  BY DEF Respond
<1>2. \E s \in {"idle", "closed"} : conn' = [conn EXCEPT ![c] = s]
  BY DEF Respond
<1>3. reply'[c] = sent
  <2> HIDE DEF sent
  <2> QED
    BY <1>1 DEF DomainsInv
<1>4. \/ sent = Bare(202)
      \/ ScopesFound(request[c]) /\ sent = Scoped(request[c], a)
      \/ ~ScopesFound(request[c]) /\ sent.kind = a.kind
  BY Zenon
<1> HIDE DEF sent
<1> QED
  BY <1>1, <1>2, <1>3, <1>4

\* What the scopes leave of an answer is allowed by them.
LEMMA ScopedIsAllowed ==
  ASSUME NEW r, NEW a, NEW x \in Scoped(r, a).tools
  PROVE  Allowed(r.token, x)
<1>1. CASE r.m.method = "tools/list"
  BY <1>1 DEF Scoped
<1>2. CASE r.m.method = "tools/call" /\ ~Allowed(r.token, r.m.tool)
  BY <1>2 DEF Scoped
<1>3. CASE r.m.method # "tools/list" /\ (r.m.method = "tools/call" => Allowed(r.token, r.m.tool))
  <2>1. x \in Shown(r.m, a)
    BY <1>3 DEF Scoped
  <2>2. a.kind = "result" /\ r.m.method = "tools/call" /\ x = r.m.tool
    BY <2>1, <1>3 DEF Shown
  <2> QED
    BY <2>2, <1>3
<1> QED
  BY <1>1, <1>2, <1>3

\* A listing that succeeds keeps what they allow.
LEMMA ScopedIsComplete ==
  ASSUME NEW r, NEW a, r.m.method = "tools/list", Scoped(r, a).kind = "result",
         NEW x \in Tools, Allowed(r.token, x)
  PROVE  x \in Scoped(r, a).tools
<1>1. /\ Scoped(r, a).kind = a.kind
      /\ Scoped(r, a).tools = {y \in Shown(r.m, a) : Allowed(r.token, y)}
  BY DEF Scoped
<1>2. Shown(r.m, a) = Tools
  BY <1>1 DEF Shown
<1> QED
  BY <1>1, <1>2
-----------------------------------------------------------------------------
LEMMA DomainsInit == HttpInit => DomainsInv
  BY DEF HttpInit, DomainsInv

LEMMA DomainsNext == DomainsInv /\ [HttpNext]_httpVars => DomainsInv'
<1> SUFFICES ASSUME DomainsInv, [HttpNext]_httpVars PROVE DomainsInv'
  OBVIOUS
<1>1. CASE UNCHANGED httpVars
  BY <1>1 DEF httpVars, connVars, DomainsInv
<1>2. CASE HttpNext
  <2>1. PICK c \in Connections :
          \/ \E r \in Requests : Early(c, r) \/ Accept(c, r)
          \/ Misread(c) \/ Handle(c) \/ Finish(c) \/ Reconnect(c)
    BY <1>2 DEF HttpNext, Early
  <2>2. ASSUME NEW r \in Requests, Early(c, r) PROVE DomainsInv'
    BY <2>2, EarlyStep DEF Arrive, DomainsInv
  <2>3. ASSUME NEW r \in Requests, Accept(c, r) PROVE DomainsInv'
    BY <2>3 DEF Accept, Arrive, DomainsInv
  <2>4. CASE Misread(c)
    <3>1. /\ \E new : reply' = [reply EXCEPT ![c] = new]
          /\ conn' = [conn EXCEPT ![c] = "closed"]
          /\ UNCHANGED <<request, inStep, openAt>>
      BY <2>4, Zenon DEF Misread
    <3> QED
      BY <3>1 DEF DomainsInv
  <2>5. CASE Handle(c)
    <3>1. CASE Respond(c, DirectAnswer(request[c].m, initialized))
      BY <2>5, <3>1, ResponseStep DEF Handle, DomainsInv
    <3> QED
      BY <2>5, <3>1 DEF Handle, DomainsInv
  <2>6. CASE Finish(c)
    BY <2>6, ResponseStep DEF Finish, DomainsInv
  <2>7. CASE Reconnect(c)
    BY <2>7 DEF Reconnect, DomainsInv
  <2> QED
    BY <2>1, <2>2, <2>3, <2>4, <2>5, <2>6, <2>7
<1> QED
  BY <1>1, <1>2 DEF httpVars, connVars

\* A connection's state is well formed at every step of it.
THEOREM DomainsCorrect == HttpSpec => []DomainsInv
  BY DomainsInit, DomainsNext, PTL DEF HttpSpec
-----------------------------------------------------------------------------
LEMMA TypesInit == HttpInit => HttpTypes
<1> SUFFICES ASSUME HttpInit PROVE HttpTypes
  OBVIOUS
<1>1. (CHOOSE r \in Requests : TRUE) \in Requests
  BY HttpAssumption
<1>2. request \in [Connections -> Requests]
  <2> DEFINE first == CHOOSE r \in Requests : TRUE
  <2>1. request = [c \in Connections |-> first] /\ first \in Requests
    BY <1>1 DEF HttpInit
  <2> HIDE DEF first
  <2> QED
    BY <2>1
<1>3. arrivals \in 0..MaxRequests
  BY HttpAssumption DEF HttpInit
<1> QED
  BY <1>2, <1>3 DEF HttpInit, HttpTypes

\* What a request's arrival does to the types.
LEMMA ArriveTypes ==
  ASSUME HttpTypes, NEW c \in Connections, NEW r \in Requests, Arrive(c, r),
         conn' \in [Connections -> {"idle", "handling", "running", "closed"}],
         inStep' \in [Connections -> BOOLEAN]
  PROVE  HttpTypes'
<1>1. arrivals' \in 0..MaxRequests
  BY HttpAssumption DEF Arrive, HttpTypes
<1>2. /\ request' \in [Connections -> Requests] /\ openAt' \in [Connections -> BOOLEAN]
      /\ initialized' \in BOOLEAN
  BY DEF Arrive, HttpTypes
<1> QED
  BY <1>1, <1>2 DEF HttpTypes

LEMMA TypesNext == HttpTypes /\ [HttpNext]_httpVars => HttpTypes'
<1> SUFFICES ASSUME HttpTypes, [HttpNext]_httpVars PROVE HttpTypes'
  OBVIOUS
<1>1. CASE UNCHANGED httpVars
  BY <1>1 DEF httpVars, connVars, HttpTypes
<1>2. ASSUME NEW c \in Connections, NEW r \in Requests,
             Unauthorized(c, r) \/ OtherVerb(c, r) PROVE HttpTypes'
  <2>1. Arrive(c, r) /\ \E status : SendUnread(c, r, status)
    <3>1. CASE Unauthorized(c, r)
      BY <3>1, Zenon DEF Unauthorized
    <3>2. CASE OtherVerb(c, r)
      BY <3>2, Zenon DEF OtherVerb
    <3> QED
      BY <1>2, <3>1, <3>2, Zenon
  <2>2. conn' = conn /\ inStep' = [inStep EXCEPT ![c] = ~r.body]
    BY <2>1 DEF SendUnread
  <2>3. (~r.body) \in BOOLEAN
    BY Zenon
  <2>4. inStep' \in [Connections -> BOOLEAN]
    BY <2>2, <2>3 DEF HttpTypes
  <2> QED
    BY <2>1, <2>2, <2>4, ArriveTypes DEF HttpTypes
<1>3. ASSUME NEW c \in Connections, NEW r \in Requests,
             Reject(c, r) \/ Accept(c, r) PROVE HttpTypes'
  <2>1. /\ Arrive(c, r) /\ inStep' = inStep
        /\ \E s \in {"closed", "handling"} : conn' = [conn EXCEPT ![c] = s]
    BY <1>3 DEF Reject, Accept, AfterReject
  <2> QED
    BY <2>1, ArriveTypes DEF HttpTypes
<1>4. ASSUME NEW c \in Connections, Misread(c) \/ Reconnect(c) PROVE HttpTypes'
  BY <1>4 DEF Misread, Reconnect, HttpTypes
<1>5. ASSUME NEW c \in Connections, Handle(c) PROVE HttpTypes'
  <2>1. /\ UNCHANGED <<request, inStep, arrivals, openAt>>
        /\ initialized' = OpenAfter(request[c].m, initialized)
    BY <1>5 DEF Handle
  <2>2. initialized' \in BOOLEAN
    BY <2>1 DEF OpenAfter, Opens, HttpTypes
  <2>3. \E s \in {"idle", "running", "closed"} : conn' = [conn EXCEPT ![c] = s]
    BY <1>5 DEF Handle, Respond
  <2> QED
    BY <2>1, <2>2, <2>3 DEF HttpTypes
<1>6. ASSUME NEW c \in Connections, Finish(c) PROVE HttpTypes'
  <2>1. \E s \in {"idle", "closed"} : conn' = [conn EXCEPT ![c] = s]
    BY <1>6 DEF Finish, Respond
  <2> QED
    BY <1>6, <2>1 DEF Finish, HttpTypes
<1> QED
  BY <1>1, <1>2, <1>3, <1>4, <1>5, <1>6 DEF HttpNext

\* The connections' state keeps its types, for any number of them and any requests
\* (make_handler, build_http_server).
THEOREM ConnectionTypes == HttpSpec => []HttpTypes
  BY TypesInit, TypesNext, PTL DEF HttpSpec
-----------------------------------------------------------------------------
LEMMA StepInit == HttpInit => KeptInStep
<1>1. HttpInit => \A c \in Connections : inStep[c]
  BY DEF HttpInit
<1> QED
  BY <1>1 DEF KeptInStep

\* A step of c changes nothing that KeptInStep says of another connection, so each case is
\* about c, and then about the others.
LEMMA StepNext == DomainsInv /\ KeptInStep /\ [HttpNext]_httpVars => KeptInStep'
<1> SUFFICES ASSUME DomainsInv, KeptInStep, [HttpNext]_httpVars PROVE KeptInStep'
  OBVIOUS
<1>1. CASE UNCHANGED httpVars
  BY <1>1 DEF httpVars, connVars, KeptInStep
<1>2. CASE HttpNext
  <2>1. PICK c \in Connections :
          \/ \E r \in Requests : Early(c, r) \/ Accept(c, r)
          \/ Misread(c) \/ Handle(c) \/ Finish(c) \/ Reconnect(c)
    BY <1>2 DEF HttpNext, Early
  <2> SUFFICES ASSUME NEW d \in Connections, conn'[d] # "closed", ~inStep'[d]
               PROVE  conn'[d] = "idle" /\ reply'[d].status \in {401, 405, 204}
    BY DEF KeptInStep
  <2>2. ASSUME NEW r \in Requests, Early(c, r)
        PROVE  conn'[d] = "idle" /\ reply'[d].status \in {401, 405, 204}
    <3>1. CASE d = c
      BY <2>2, <3>1, EarlyStep DEF DomainsInv
    <3>2. CASE d # c
      BY <2>2, <3>2, EarlyStep DEF DomainsInv, KeptInStep
    <3> QED
      BY <3>1, <3>2
  <2>3. ASSUME NEW r \in Requests, Accept(c, r)
        PROVE  conn'[d] = "idle" /\ reply'[d].status \in {401, 405, 204}
    <3>1. /\ inStep[c] /\ inStep' = inStep /\ reply' = reply
          /\ conn' = [conn EXCEPT ![c] = "handling"]
      BY <2>3 DEF Accept, Arrive
    <3>2. d # c /\ conn'[d] = conn[d]
      BY <3>1 DEF DomainsInv
    <3> QED
      BY <3>1, <3>2 DEF KeptInStep
  <2>4. CASE Misread(c)
    BY <2>4 DEF Misread, DomainsInv, KeptInStep
  <2>5. CASE Handle(c)
    <3>1. CASE Respond(c, DirectAnswer(request[c].m, initialized))
      BY <2>5, <3>1, ResponseStep DEF Handle, DomainsInv, KeptInStep
    <3> QED
      BY <2>5, <3>1 DEF Handle, DomainsInv, KeptInStep
  <2>6. CASE Finish(c)
    BY <2>6, ResponseStep DEF Finish, DomainsInv, KeptInStep
  <2>7. CASE Reconnect(c)
    BY <2>7 DEF Reconnect, DomainsInv, KeptInStep
  <2> QED
    BY <2>1, <2>2, <2>3, <2>4, <2>5, <2>6, <2>7
<1> QED
  BY <1>1, <1>2 DEF httpVars, connVars

\* Only a reply of 401, 405 or 204 leaves the connection kept with a body unread in it
\* (http_transport.py 72-84, 104-110 and 167-182).
THEOREM KeptConnectionsInStep == HttpSpec => []KeptInStep
<1>1. DomainsInv /\ KeptInStep /\ [HttpNext]_httpVars => (DomainsInv /\ KeptInStep)'
  BY DomainsNext, StepNext
<1> QED
  BY <1>1, DomainsInit, StepInit, PTL DEF HttpSpec
-----------------------------------------------------------------------------
LEMMA ScopesInit == HttpInit => ShowsOnlyScoped
  BY DEF HttpInit, ShowsOnlyScoped, Replied

LEMMA ScopesNext == DomainsInv /\ ShowsOnlyScoped /\ [HttpNext]_httpVars => ShowsOnlyScoped'
<1> SUFFICES ASSUME DomainsInv, ShowsOnlyScoped, [HttpNext]_httpVars PROVE ShowsOnlyScoped'
  OBVIOUS
<1>1. CASE UNCHANGED httpVars
  BY <1>1 DEF httpVars, connVars, ShowsOnlyScoped, Replied, Permitted
<1>2. CASE HttpNext
  <2>1. PICK c \in Connections :
          \/ \E r \in Requests : Early(c, r) \/ Accept(c, r)
          \/ Misread(c) \/ Handle(c) \/ Finish(c) \/ Reconnect(c)
    BY <1>2 DEF HttpNext, Early
  <2> DEFINE Shows(d) ==
        access' = "scopes" /\ request'[d].exact /\ conn'[d] \in {"idle", "closed"} /\ reply'[d] # NoReply
          => /\ \A x \in reply'[d].tools : x \in Permitted(request'[d].token)
             /\ request'[d].m.method = "tools/list" /\ reply'[d].kind = "result" =>
                  Tools \cap Permitted(request'[d].token) \subseteq reply'[d].tools
  <2>2. ASSUME NEW d \in Connections,
               access' = access /\ conn'[d] = conn[d] /\ reply'[d] = reply[d]
                 /\ request'[d] = request[d]
        PROVE  Shows(d)
    BY <2>2 DEF ShowsOnlyScoped, Replied
  <2>3. ASSUME NEW a, Respond(c, a), access' = access, request' = request
        PROVE  \A d \in Connections : Shows(d)
    <3>1. Shows(c)
      <4>1. SUFFICES ASSUME access = "scopes", request[c].exact
                     PROVE  /\ \A x \in reply'[c].tools : x \in Permitted(request[c].token)
                            /\ request[c].m.method = "tools/list" /\ reply'[c].kind = "result" =>
                                 Tools \cap Permitted(request[c].token) \subseteq reply'[c].tools
        BY <2>3
      <4>2. CASE reply'[c] = Bare(202)
        BY <4>2 DEF Bare
      <4>3. CASE reply'[c] = Scoped(request[c], a)
        BY <4>3, ScopedIsAllowed, ScopedIsComplete DEF Allowed, Permitted
      <4> QED
        BY <2>3, <4>1, <4>2, <4>3, ResponseStep DEF ScopesFound
    <3> QED
      BY <2>2, <2>3, <3>1, ResponseStep DEF DomainsInv
  <2>4. ASSUME NEW r \in Requests, Early(c, r) PROVE \A d \in Connections : Shows(d)
    <3>1. reply'[c].tools = {} /\ reply'[c].kind = "none"
      BY <2>4, EarlyStep DEF Bare, DomainsInv
    <3> QED
      BY <2>2, <2>4, <3>1, EarlyStep DEF DomainsInv, Arrive
  <2>5. ASSUME NEW r \in Requests, Accept(c, r) PROVE \A d \in Connections : Shows(d)
    BY <2>2, <2>5 DEF Accept, Arrive, DomainsInv
  <2>6. ASSUME Misread(c) PROVE \A d \in Connections : Shows(d)
    <3>1. reply'[c].tools = {} /\ reply'[c].kind = "none"
      BY <2>6 DEF Misread, Bare, DomainsInv
    <3>2. access' = access /\ request' = request
      BY <2>6 DEF Misread
    <3>3. \A d \in Connections : d # c => conn'[d] = conn[d] /\ reply'[d] = reply[d]
      BY <2>6 DEF Misread, DomainsInv
    <3>4. \A d \in Connections : d # c => Shows(d)
      BY <2>2, <3>2, <3>3
    <3>5. Shows(c)
      BY <3>1
    <3> QED
      BY <3>4, <3>5, Zenon
  <2>7. ASSUME Handle(c) PROVE \A d \in Connections : Shows(d)
    <3>1. CASE Respond(c, DirectAnswer(request[c].m, initialized))
      BY <2>3, <2>7, <3>1 DEF Handle
    <3> QED
      BY <2>2, <2>7, <3>1 DEF Handle, DomainsInv
  <2>8. ASSUME Finish(c) PROVE \A d \in Connections : Shows(d)
    BY <2>3, <2>8 DEF Finish
  <2>9. ASSUME Reconnect(c) PROVE \A d \in Connections : Shows(d)
    <3>1. access' = access /\ request' = request /\ reply' = reply
      BY <2>9 DEF Reconnect
    <3>2. \A d \in Connections : conn'[d] \in {"idle", "closed"} => conn[d] \in {"idle", "closed"}
      BY <2>9 DEF Reconnect, DomainsInv
    <3>3. SUFFICES ASSUME NEW d \in Connections PROVE Shows(d)
      OBVIOUS
    <3>4. reply'[d] = reply[d] /\ request'[d] = request[d]
      BY <3>1
    <3> QED
      BY <3>1, <3>2, <3>4 DEF ShowsOnlyScoped, Replied
  <2>10. \A d \in Connections : Shows(d)
    BY <2>1, <2>4, <2>5, <2>6, <2>7, <2>8, <2>9
  <2> QED
    BY <2>10 DEF ShowsOnlyScoped, Replied, Permitted
<1> QED
  BY <1>1, <1>2 DEF httpVars, connVars

\* Whatever the patterns and whoever calls, a reply to a request whose header is spelt as
\* _bearer_value reads it shows only tools its token may use (http_transport.py 142-144 and
\* 276-280).
THEOREM ScopesHideTheRest == HttpSpec => []ShowsOnlyScoped
<1>1. DomainsInv /\ ShowsOnlyScoped /\ [HttpNext]_httpVars => (DomainsInv /\ ShowsOnlyScoped)'
  BY DomainsNext, ScopesNext
<1> QED
  BY <1>1, DomainsInit, ScopesInit, PTL DEF HttpSpec
-----------------------------------------------------------------------------
LEMMA OpenInit == HttpInit => OpenInv
<1>1. HttpInit => \A c \in Connections : openAt[c] = FALSE
  BY DEF HttpInit
<1> QED
  BY <1>1 DEF OpenInv, StaysOpen, OpenForAll

\* A message leaves the flag set if it was.
LEMMA NeverTakenBack == ASSUME NEW m, initialized PROVE OpenAfter(m, initialized)
  BY DEF OpenAfter

\* With the flag set, no answer asks for the handshake.
LEMMA NoneTurnedAway ==
  ASSUME NEW m, initialized, DirectAnswer(m, initialized) # NoAnswer
  PROVE  DirectAnswer(m, initialized).kind # "-32002"
<1>1. OpenAfter(m, initialized)
  BY NeverTakenBack
<1>2. \E kind \in {"result", "-32601"} : DirectAnswer(m, initialized) = Answer(m, kind)
  BY <1>1 DEF DirectAnswer
<1>3. PICK kind \in {"result", "-32601"} : DirectAnswer(m, initialized) = Answer(m, kind)
  BY <1>2
<1>4. Answer(m, kind).kind = kind
  BY DEF Answer
<1> QED
  BY <1>3, <1>4

LEMMA OpenNext == DomainsInv /\ OpenInv /\ [HttpNext]_httpVars => OpenInv'
<1> SUFFICES ASSUME DomainsInv, OpenInv, [HttpNext]_httpVars PROVE OpenInv'
  OBVIOUS
<1>1. CASE UNCHANGED httpVars
  BY <1>1 DEF httpVars, connVars, OpenInv, StaysOpen, OpenForAll
<1>2. CASE HttpNext
  <2>1. PICK c \in Connections :
          \/ \E r \in Requests : Early(c, r) \/ Accept(c, r)
          \/ Misread(c) \/ Handle(c) \/ Finish(c) \/ Reconnect(c)
    BY <1>2 DEF HttpNext, Early
  <2> DEFINE Fine(d) ==
        /\ openAt'[d] => initialized'
        /\ openAt'[d] /\ conn'[d] \in {"idle", "closed"} /\ reply'[d] # NoReply
             => reply'[d].kind # "-32002"
  <2>2. ASSUME NEW d \in Connections, initialized => initialized',
               openAt'[d] = openAt[d] /\ conn'[d] = conn[d] /\ reply'[d] = reply[d]
        PROVE  Fine(d)
    BY <2>2 DEF OpenInv, StaysOpen, OpenForAll
  <2>3. ASSUME NEW a, Respond(c, a), openAt' = openAt, initialized => initialized',
               openAt[c] /\ a # NoAnswer => a.kind # "-32002"
        PROVE  \A d \in Connections : Fine(d)
    <3>1. openAt[c] => reply'[c].kind # "-32002"
      <4> SUFFICES ASSUME openAt[c] PROVE reply'[c].kind # "-32002"
        OBVIOUS
      <4>1. CASE a = NoAnswer
        <5>1. reply'[c] = Bare(202)
          BY <2>3, <4>1 DEF Respond, DomainsInv
        <5> QED
          BY <5>1 DEF Bare
      <4>2. CASE a # NoAnswer
        <5>1. Bare(202).kind = "none"
          BY DEF Bare
        <5>2. Scoped(request[c], a).kind \in {a.kind, "-32602"}
          BY DEF Scoped
        <5> QED
          BY <2>3, <4>2, <5>1, <5>2, ResponseStep
      <4> QED
        BY <4>1, <4>2
    <3>2. Fine(c)
      BY <2>3, <3>1 DEF OpenInv, StaysOpen
    <3>3. \A d \in Connections : d # c => conn'[d] = conn[d] /\ reply'[d] = reply[d]
      BY <2>3, ResponseStep DEF DomainsInv
    <3>4. \A d \in Connections : d # c => Fine(d)
      BY <2>2, <2>3, <3>3
    <3> QED
      BY <3>2, <3>4, Zenon
  <2>4. ASSUME NEW r \in Requests, Early(c, r) PROVE \A d \in Connections : Fine(d)
    <3>1. reply'[c].kind = "none"
      BY <2>4, EarlyStep DEF Bare, DomainsInv
    <3>2. /\ initialized' = initialized
          /\ openAt' = [openAt EXCEPT ![c] = initialized]
      BY <2>4, EarlyStep DEF Arrive
    <3>3. openAt'[c] = initialized
      BY <3>2 DEF DomainsInv
    <3>4. Fine(c)
      BY <3>1, <3>2, <3>3
    <3>5. \A d \in Connections : d # c =>
            openAt'[d] = openAt[d] /\ conn'[d] = conn[d] /\ reply'[d] = reply[d]
      BY <2>4, <3>2, EarlyStep DEF DomainsInv
    <3>6. \A d \in Connections : d # c => Fine(d)
      BY <2>2, <3>2, <3>5
    <3> QED
      BY <3>4, <3>6, Zenon
  <2>5. ASSUME NEW r \in Requests, Accept(c, r) PROVE \A d \in Connections : Fine(d)
    <3>1. /\ initialized' = initialized /\ reply' = reply
          /\ openAt' = [openAt EXCEPT ![c] = initialized]
          /\ conn' = [conn EXCEPT ![c] = "handling"]
      BY <2>5 DEF Accept, Arrive
    <3>2. openAt'[c] = initialized /\ conn'[c] = "handling"
      BY <3>1 DEF DomainsInv
    <3>3. Fine(c)
      BY <3>1, <3>2
    <3>4. \A d \in Connections : d # c =>
            openAt'[d] = openAt[d] /\ conn'[d] = conn[d] /\ reply'[d] = reply[d]
      BY <3>1 DEF DomainsInv
    <3>5. \A d \in Connections : d # c => Fine(d)
      BY <2>2, <3>1, <3>4
    <3> QED
      BY <3>3, <3>5, Zenon
  <2>6. ASSUME Misread(c) PROVE \A d \in Connections : Fine(d)
    <3>1. reply'[c].kind = "none"
      BY <2>6 DEF Misread, Bare, DomainsInv
    <3>2. initialized' = initialized /\ openAt' = openAt
      BY <2>6 DEF Misread
    <3>3. Fine(c)
      BY <3>1, <3>2 DEF OpenInv, StaysOpen
    <3>4. \A d \in Connections : d # c => conn'[d] = conn[d] /\ reply'[d] = reply[d]
      BY <2>6 DEF Misread, DomainsInv
    <3>5. \A d \in Connections : d # c => Fine(d)
      BY <2>2, <3>2, <3>4
    <3> QED
      BY <3>3, <3>5, Zenon
  <2>7. ASSUME Handle(c) PROVE \A d \in Connections : Fine(d)
    <3>1. (initialized => initialized') /\ openAt' = openAt
      BY <2>7, NeverTakenBack DEF Handle
    <3>2. CASE Respond(c, DirectAnswer(request[c].m, initialized))
      <4>1. openAt[c] => initialized
        BY DEF OpenInv, StaysOpen
      <4> QED
        BY <2>3, <3>1, <3>2, <4>1, NoneTurnedAway
    <3>3. CASE /\ conn' = [conn EXCEPT ![c] = "closed"]
               /\ reply' = [reply EXCEPT ![c] = NoReply]
      <4>1. Fine(c)
        BY <3>1, <3>3 DEF DomainsInv, OpenInv, StaysOpen
      <4>2. \A d \in Connections : d # c => conn'[d] = conn[d] /\ reply'[d] = reply[d]
        BY <3>3 DEF DomainsInv
      <4>3. \A d \in Connections : d # c => Fine(d)
        BY <2>2, <3>1, <4>2
      <4> QED
        BY <4>1, <4>3, Zenon
    <3>4. CASE conn' = [conn EXCEPT ![c] = "running"] /\ UNCHANGED reply
      <4>1. Fine(c)
        BY <3>1, <3>4 DEF DomainsInv, OpenInv, StaysOpen
      <4>2. \A d \in Connections : d # c => conn'[d] = conn[d] /\ reply'[d] = reply[d]
        BY <3>4 DEF DomainsInv
      <4>3. \A d \in Connections : d # c => Fine(d)
        BY <2>2, <3>1, <4>2
      <4> QED
        BY <4>1, <4>3, Zenon
    <3> QED
      BY <2>7, <3>2, <3>3, <3>4 DEF Handle
  <2>8. ASSUME Finish(c) PROVE \A d \in Connections : Fine(d)
    <3>1. PICK a \in CallAnswers(request[c].m) : Respond(c, a)
      BY <2>8 DEF Finish
    <3>2. PICK kind \in {"result", "error_result", "-32601"} : a = Answer(request[c].m, kind)
      BY <3>1 DEF CallAnswers
    <3>3. a.kind # "-32002"
      BY <3>2 DEF Answer
    <3> QED
      BY <2>3, <2>8, <3>1, <3>3 DEF Finish
  <2>9. ASSUME Reconnect(c) PROVE \A d \in Connections : Fine(d)
    <3>1. initialized' = initialized /\ openAt' = openAt /\ reply' = reply
      BY <2>9 DEF Reconnect
    <3>2. \A d \in Connections : conn'[d] \in {"idle", "closed"} => conn[d] \in {"idle", "closed"}
      BY <2>9 DEF Reconnect, DomainsInv
    <3>3. SUFFICES ASSUME NEW d \in Connections PROVE Fine(d)
      OBVIOUS
    <3> QED
      BY <3>1, <3>2 DEF OpenInv, StaysOpen, OpenForAll
  <2>10. \A d \in Connections : Fine(d)
    BY <2>1, <2>4, <2>5, <2>6, <2>7, <2>8, <2>9, Zenon
  <2> QED
    BY <2>10 DEF OpenInv, StaysOpen, OpenForAll
<1> QED
  BY <1>1, <1>2 DEF httpVars, connVars

\* One client's initialize does not close the session of another: whoever sends a request
\* after the handshake is not told to initialize (api_server.py 676-704).
THEOREM HandshakeNotTakenBack == HttpSpec => []OpenForAll
<1>1. DomainsInv /\ OpenInv /\ [HttpNext]_httpVars => (DomainsInv /\ OpenInv)'
  BY DomainsNext, OpenNext
<1>2. OpenInv => OpenForAll
  BY DEF OpenInv
<1> QED
  BY <1>1, <1>2, DomainsInit, OpenInit, PTL DEF HttpSpec
--------------------------------------------------------------------------------
(* One process. *)

\* Without the stdio loop nothing is ever read from stdin.
AtRest == started # "stdio" => requests = <<>>

TransportInv ==
  /\ HandshakeInv /\ AtRest
  /\ DomainsInv /\ OpenInv /\ KeptInStep /\ ShowsOnlyScoped
-------------------------------------------------------------------------------
\* The program stays with the transport it was started with, and that one does what its
\* module says: no step of the other touches it (main, cli.py 1234-1261).
THEOREM StdioServed == TransportSpec /\ started = "stdio" => StdioSpec
<1>1. TransportInit => StdioInit
  BY DEF TransportInit
<1>2. started = "stdio" /\ [TransportNext]_transportVars => (started = "stdio")'
  BY DEF TransportNext, ServeStdio, ServeHttp, transportVars
<1>3. started = "stdio" /\ [TransportNext]_transportVars => [StdioNext]_stdioVars
  BY DEF TransportNext, ServeStdio, ServeHttp, transportVars, stdioVars
<1> QED
  BY <1>1, <1>2, <1>3, PTL DEF TransportSpec, StdioSpec

THEOREM HttpServed == TransportSpec /\ started = "http" => HttpSpec
<1>1. TransportInit => HttpInit
  BY DEF TransportInit
<1>2. started = "http" /\ [TransportNext]_transportVars => (started = "http")'
  BY DEF TransportNext, ServeStdio, ServeHttp, transportVars
<1>3. started = "http" /\ [TransportNext]_transportVars => [HttpNext]_httpVars
  BY DEF TransportNext, ServeStdio, ServeHttp, transportVars, httpVars
<1> QED
  BY <1>1, <1>2, <1>3, PTL DEF TransportSpec, HttpSpec
-------------------------------------------------------------------------------
\* Neither transport takes the flag back.
LEMMA StdioOnlyOpens == StdioNext /\ initialized => initialized'
<1> SUFFICES ASSUME StdioNext, initialized PROVE initialized'
  OBVIOUS
<1>1. ASSUME NEW line \in Lines, ReadLine(line) PROVE initialized'
  BY <1>1 DEF ReadLine, AfterNotifications
<1>2. ASSUME NEW i \in Indices, Start(i) PROVE initialized'
  BY <1>2 DEF Start, OpenAfter
<1>3. ASSUME NEW i \in Indices, Complete(i) \/ Cancel(i) PROVE initialized'
  BY <1>3 DEF Complete, Cancel
<1>4. CASE ReadGarbage \/ Write \/ Stop
  BY <1>4 DEF ReadGarbage, Write, Stop
<1> QED
  BY <1>1, <1>2, <1>3, <1>4 DEF StdioNext

LEMMA HttpOnlyOpens ==
  ASSUME initialized \in BOOLEAN, HttpNext
  PROVE  initialized' \in BOOLEAN /\ (initialized => initialized')
<1>1. PICK c \in Connections :
        \/ \E r \in Requests : Unauthorized(c, r) \/ Reject(c, r) \/ Accept(c, r) \/ OtherVerb(c, r)
        \/ Misread(c) \/ Handle(c) \/ Finish(c) \/ Reconnect(c)
  BY DEF HttpNext
<1>2. CASE Handle(c)
  BY <1>2 DEF Handle, OpenAfter, Opens
<1>3. ASSUME NEW r \in Requests,
             Unauthorized(c, r) \/ Reject(c, r) \/ Accept(c, r) \/ OtherVerb(c, r)
      PROVE  initialized' = initialized
  BY <1>3, Zenon DEF Unauthorized, Reject, Accept, OtherVerb, Arrive
<1>4. CASE Misread(c) \/ Finish(c) \/ Reconnect(c)
  BY <1>4 DEF Misread, Finish, Reconnect
<1> QED
  BY <1>1, <1>2, <1>3, <1>4

\* A flag that is only set disturbs nothing that is said of a loop without requests.
LEMMA RestUndisturbed ==
  ASSUME HandshakeInv, requests = <<>>, UNCHANGED loopVars,
         initialized' \in BOOLEAN, initialized => initialized'
  PROVE  HandshakeInv'
<1>1. /\ loop' = loop /\ read' = read /\ requests' = requests /\ pooled' = pooled /\ task' = task
      /\ answers' = answers /\ out' = out /\ owed' = owed /\ settled' = settled
  BY DEF loopVars
<1>2. Indices = {} /\ Indices' = {} /\ Due' = Due
  BY <1>1 DEF Indices, Due, Owing
<1>3. LoopInv' /\ AnswerInv'
  BY <1>1, <1>2 DEF HandshakeInv, AnsweringInv, LoopInv, AnswerInv
<1>4. OrderInv'
  <2> HIDE DEF Due
  <2> QED
    BY <1>1, <1>2 DEF HandshakeInv, AnsweringInv, OrderInv
<1>5. SettledInv' /\ AlikeInv'
  BY <1>1, <1>2
     DEF HandshakeInv, SettledInv, OpenMeansServed, AlikeInv, ClosedForAll, OpenForServed
<1> QED
  BY <1>3, <1>4, <1>5 DEF HandshakeInv, AnsweringInv

\* Nor anything that is said of connections that do not move.
LEMMA ConnectionsUndisturbed ==
  ASSUME DomainsInv, OpenInv, KeptInStep, ShowsOnlyScoped,
         UNCHANGED connVars, initialized => initialized'
  PROVE  DomainsInv' /\ OpenInv' /\ KeptInStep' /\ ShowsOnlyScoped'
<1>1. /\ access' = access /\ conn' = conn /\ request' = request /\ inStep' = inStep
      /\ reply' = reply /\ openAt' = openAt
  BY DEF connVars
<1> QED
  BY <1>1 DEF DomainsInv, OpenInv, StaysOpen, OpenForAll, KeptInStep, ShowsOnlyScoped, Replied,
     Permitted
-------------------------------------------------------------------------------
LEMMA TransportFirst == TransportInit => TransportInv
<1>1. StdioInit => requests = <<>>
  BY DEF StdioInit
<1> QED
  BY <1>1, LoopInit, DomainsInit, OpenInit, StepInit, ScopesInit
     DEF TransportInit, TransportInv, AtRest

LEMMA TransportStep == TransportInv /\ [TransportNext]_transportVars => TransportInv'
<1> SUFFICES ASSUME TransportInv, [TransportNext]_transportVars PROVE TransportInv'
  OBVIOUS
<1>0. initialized \in BOOLEAN
  BY DEF TransportInv, HandshakeInv, AnsweringInv, LoopInv
<1>1. CASE UNCHANGED transportVars
  <2>1. UNCHANGED <<started, stdioVars, httpVars>> /\ requests' = requests
    BY <1>1 DEF transportVars, stdioVars, httpVars, loopVars
  <2> QED
    BY <2>1, HandshakeNext, DomainsNext, OpenNext, StepNext, ScopesNext
       DEF TransportInv, AtRest
<1>2. CASE ServeStdio
  <2>1. started = "stdio" /\ started' = "stdio" /\ StdioNext /\ UNCHANGED connVars
    BY <1>2 DEF ServeStdio
  <2>2. HandshakeInv'
    BY <2>1, HandshakeNext DEF TransportInv
  <2>3. DomainsInv' /\ OpenInv' /\ KeptInStep' /\ ShowsOnlyScoped'
    BY <2>1, StdioOnlyOpens, ConnectionsUndisturbed DEF TransportInv
  <2> QED
    BY <2>1, <2>2, <2>3 DEF TransportInv, AtRest
<1>3. CASE ServeHttp
  <2>1. started = "http" /\ started' = "http" /\ HttpNext /\ UNCHANGED loopVars
    BY <1>3 DEF ServeHttp
  <2>2. requests = <<>> /\ requests' = <<>>
    BY <2>1 DEF TransportInv, AtRest, loopVars
  <2>3. HandshakeInv'
    BY <1>0, <2>1, <2>2, HttpOnlyOpens, RestUndisturbed DEF TransportInv
  <2>4. DomainsInv' /\ OpenInv' /\ KeptInStep' /\ ShowsOnlyScoped'
    BY <2>1, DomainsNext, OpenNext, StepNext, ScopesNext DEF TransportInv
  <2> QED
    BY <2>2, <2>3, <2>4 DEF TransportInv, AtRest
<1> QED
  BY <1>1, <1>2, <1>3 DEF TransportNext

LEMMA TransportAlways == TransportSpec => []TransportInv
  BY TransportFirst, TransportStep, PTL DEF TransportSpec
-------------------------------------------------------------------------------
\* Once the handshake is over no request is told to initialize, of a later line or of its
\* own batch, or of any other connection, whichever transport the process serves
\* (handle_message's one flag, api_server.py 676-704).
THEOREM HandshakeIsForAll == TransportSpec => []HandshakeHolds
<1>1. TransportInv => HandshakeHolds
  BY DEF TransportInv, HandshakeInv, SettledInv, OpenInv, HandshakeHolds
<1> QED
  BY <1>1, TransportAlways, PTL

\* What is proved of each transport by itself holds in the process that serves one of them.
THEOREM TransportsCompose ==
  TransportSpec => [](AnsweredInOrder /\ TreatedAlike /\ KeptInStep /\ ShowsOnlyScoped)
<1>1. TransportInv => AnsweredInOrder /\ TreatedAlike /\ KeptInStep /\ ShowsOnlyScoped
  BY InOrderFollows, AlikeFollows DEF TransportInv
<1> QED
  BY <1>1, TransportAlways, PTL
================================================================================
