---------------------------- MODULE StdioServer ----------------------------
(***************************************************************************)
(* The stdio transport (api_server.py 724-769): one loop reads a line,     *)
(* handles what is on it and writes the answers.  A line with a batch has  *)
(* its notifications handled first, then its requests: one by one, or all  *)
(* at once in a pool of threads when every one of them is a tools/call.    *)
(*                                                                         *)
(* A line is a record of its kind ("message", "batch" or "garbage", which  *)
(* is no JSON) and its messages.  Blank lines, which are skipped, are left *)
(* out, and so is the text of the answers.                                 *)
(***************************************************************************)
EXTENDS McpMessages, Integers, Sequences, FiniteSets

CONSTANTS Lines,      \* the lines a client may send
          MaxLines,   \* bound: how many it sends
          PoolSize    \* max_workers, 8 in the code

\* The messages on the lines, and how a request may be answered.
Messages    == UNION {{line.items[i] : i \in DOMAIN line.items} : line \in Lines}
AnswerKinds == {"result", "error_result", "-32002", "-32601"}

ASSUME StdioAssumption ==
  /\ MaxLines \in Nat \ {0} /\ PoolSize \in Nat \ {0}
  /\ \A line \in Lines : line.items \in Seq(Messages)
  /\ \A m \in Messages : \A kind \in AnswerKinds : Answer(m, kind) # NoAnswer

VARIABLES loop,         \* "reading", "handling" or, after an exception, "stopped"
          read,         \* how many lines have been read
          requests,     \* the requests of the line being handled
          pooled,       \* whether they run in the pool
          task,         \* index -> "waiting", "running", "done", "raised", "cancelled"
          answers,      \* index -> the answer, once done
          out,          \* what has been written, with the number of its line
          owed,         \* the requests read so far, in order, with their line's number
                        \* (no variable of the code: for the properties)
          settled       \* whether the line, or one before it, ends the handshake by a
                        \* notification (no variable of the code: for the properties)

loopVars  == <<loop, read, requests, pooled, task, answers, out, owed, settled>>
stdioVars == <<initialized, loopVars>>
-----------------------------------------------------------------------------
\* The entries of s at the positions in D, in their order: what SelectSeq gives.
Picked(s, D) ==
  LET Nth(k) == CHOOSE i \in D : Cardinality({j \in D : j <= i}) = k
  IN [k \in 1..Cardinality(D) |-> s[Nth(k)]]

\* The indices of the line's requests, and of those in the state s.
Indices == DOMAIN requests
In(s) == {i \in Indices : task[i] = s}

StdioInit ==
  /\ initialized = FALSE
  /\ loop = "reading"
  /\ read = 0
  /\ requests = <<>>
  /\ pooled = FALSE
  /\ task = <<>>
  /\ answers = <<>>
  /\ out = <<>>
  /\ owed = <<>>
  /\ settled = FALSE

\* Of a batch only the dicts count; a single message is handled whatever it is.
RequestsOf(line) ==
  IF line.kind = "message" THEN line.items
  ELSE Picked(line.items, {i \in DOMAIN line.items :
                 line.items[i].method # "no_object" /\ ~IsNotification(line.items[i])})

\* A bug: a batch's notifications are handled when their turn comes, after the calls.
MutantAfterNotifications(line) == initialized

\* The flag once the batch's notifications, which come first, are handled.
AfterNotifications(line) ==
  \/ initialized
  \/ line.kind = "batch" /\ \E i \in DOMAIN line.items :
       IsNotification(line.items[i]) /\ Opens(line.items[i])

\* A bug: the calls go to the pool, and the other requests are handled after them.
MutantInOrder(line) ==
  LET all == RequestsOf(line)
  IN SelectSeq(all, LAMBDA m : m.method = "tools/call")
       \o SelectSeq(all, LAMBDA m : m.method # "tools/call")

\* The requests as they are handled, which is the order in which they are answered.
InOrder(line) == RequestsOf(line)

\* What the client is owed for a line.
OwedFor(line) ==
  LET all    == RequestsOf(line)
      theirs == Picked(all, {i \in DOMAIN all : ~IsNotification(all[i])})
  IN [i \in DOMAIN theirs |-> [line |-> read + 1, id |-> theirs[i].id]]

\* for line in input_stream: a line that is no JSON is answered at once.
ReadGarbage ==
  /\ loop = "reading" /\ read < MaxLines
  /\ \E line \in Lines : line.kind = "garbage"
  /\ read' = read + 1
  /\ out' = Append(out, [line |-> read + 1, id |-> NoAnswer, kind |-> "-32700"])
  /\ owed' = Append(owed, [line |-> read + 1, id |-> NoAnswer])
  /\ UNCHANGED <<initialized, loop, requests, pooled, task, answers, settled>>

\* One message, or a batch, whose notifications are handled at once.
ReadLine(line) ==
  /\ loop = "reading" /\ read < MaxLines
  /\ line.kind # "garbage"
  /\ read' = read + 1
  /\ owed' = owed \o OwedFor(line)
  /\ initialized' = AfterNotifications(line)
  /\ settled' = \/ initialized
                \/ /\ line.kind = "batch"
                   /\ \E i \in DOMAIN line.items : line.items[i].method = "notifications/initialized"
  /\ requests' = InOrder(line)
  /\ pooled' = /\ line.kind = "batch" /\ Len(requests') > 1
               /\ \A i \in DOMAIN requests' : requests'[i].method = "tools/call"
  /\ task' = [i \in DOMAIN requests' |-> "waiting"]
  /\ answers' = [i \in DOMAIN requests' |-> NoAnswer]
  /\ loop' = IF requests' = <<>> THEN "reading" ELSE "handling"
  /\ UNCHANGED out

\* A bug: a thread of the pool serves one request and is not used again.
MutantNextUp(i) ==
  /\ task[i] = "waiting"
  /\ \A j \in 1..(i - 1) : task[j] # "waiting"
  /\ IF pooled THEN Cardinality(In("running") \cup In("done")) < PoolSize
     ELSE \A j \in 1..(i - 1) : task[j] = "done"

\* The pool takes the requests in order, as its threads become free; without the pool the
\* next one waits for the one before it, and an exception has left the loop.
NextUp(i) ==
  /\ task[i] = "waiting"
  /\ \A j \in 1..(i - 1) : task[j] # "waiting"
  /\ IF pooled THEN Cardinality(In("running")) < PoolSize
     ELSE \A j \in 1..(i - 1) : task[j] = "done"

\* handle_message from its start to its answer, or to run_tool: nothing in between waits,
\* and the flag it may set and read is never reset.
Start(i) ==
  LET m == requests[i] IN
  /\ loop = "handling" /\ NextUp(i)
  /\ initialized' = OpenAfter(m, initialized)
  /\ task' = [task EXCEPT ![i] = IF Raises(m) THEN "raised"
                                 ELSE IF RunsTool(m, initialized) THEN "running" ELSE "done"]
  /\ answers' = IF task'[i] = "done"
                THEN [answers EXCEPT ![i] = DirectAnswer(m, initialized)] ELSE answers
  /\ UNCHANGED <<loop, read, requests, pooled, out, owed, settled>>

\* run_tool has ended.
Complete(i) ==
  /\ task[i] = "running"
  /\ \E a \in CallAnswers(requests[i]) : answers' = [answers EXCEPT ![i] = a]
  /\ task' = [task EXCEPT ![i] = "done"]
  /\ UNCHANGED <<initialized, loop, read, requests, pooled, out, owed, settled>>

\* list(pool.map(...)) has come to the result of a request that raised: the requests that
\* no thread has taken are cancelled.
Cancel(i) ==
  /\ pooled /\ task[i] = "raised"
  /\ \A j \in 1..(i - 1) : task[j] = "done"
  /\ In("waiting") # {}
  /\ task' = [j \in Indices |-> IF task[j] = "waiting" THEN "cancelled" ELSE task[j]]
  /\ UNCHANGED <<initialized, loop, read, requests, pooled, answers, out, owed, settled>>

\* The exception leaves the pool once its threads have ended, then the loop.
Stop ==
  /\ loop = "handling" /\ In("raised") # {}
  /\ In("running") = {} /\ (pooled => In("waiting") = {})
  /\ loop' = "stopped"
  /\ UNCHANGED <<initialized, read, requests, pooled, task, answers, out, owed, settled>>

\* The line's answers, without the None of a notification.
Written == Picked(answers, {i \in Indices : answers[i] # NoAnswer})

\* All requests are handled: their answers are written, and the next line is read.
Write ==
  /\ loop = "handling" /\ \A i \in Indices : task[i] = "done"
  /\ out' = out \o [i \in DOMAIN Written |->
                      [line |-> read, id |-> Written[i].id, kind |-> Written[i].kind]]
  /\ loop' = "reading"
  /\ UNCHANGED <<initialized, read, requests, pooled, task, answers, owed, settled>>

StdioNext ==
  \/ ReadGarbage \/ (\E line \in Lines : ReadLine(line)) \/ Write \/ Stop
  \/ \E i \in Indices : Start(i) \/ Complete(i) \/ Cancel(i)

\* The loop and the pool's threads run; the client need not send anything, and the API
\* answers within the client's timeout.
StdioFairness == WF_stdioVars(Write \/ Stop \/ \E i \in Indices : Start(i) \/ Complete(i) \/ Cancel(i))

StdioSpec == StdioInit /\ [][StdioNext]_stdioVars /\ StdioFairness
-----------------------------------------------------------------------------
StdioTypes ==
  /\ initialized \in BOOLEAN /\ settled \in BOOLEAN /\ pooled \in BOOLEAN
  /\ loop \in {"reading", "handling", "stopped"}
  /\ read \in 0..MaxLines
  /\ DOMAIN task = Indices /\ DOMAIN answers = Indices
  /\ \A i \in Indices : task[i] \in {"waiting", "running", "done", "raised", "cancelled"}

\* The answers come in the order of the requests, each with its own id, whatever order the
\* pool's threads end in; while the loop reads, every request so far has exactly one.  A
\* client that matches answers by position, as batches invite, depends on it.
AnsweredInOrder ==
  /\ Len(out) <= Len(owed)
  /\ \A k \in DOMAIN out : out[k].line = owed[k].line /\ out[k].id = owed[k].id
  /\ loop = "reading" => Len(out) = Len(owed)

\* Once the handshake is over, before the line or by a notification anywhere in it, no
\* request of the line is told to initialize first, and every call of it that is answered
\* has run.
OpenMeansServed ==
  settled => \A i \in Indices : answers[i] # NoAnswer => answers[i].kind # "-32002"

\* Two calls of one batch meet different answers to the handshake only when one of them
\* carries the protocol's version itself: the notifications settle the state before the
\* requests, as _handle_batch's comment says, but a request can open the session too.
TreatedAlike ==
  (\A i \in Indices : ~Opens(requests[i])) =>
    \A i, j \in Indices :
      /\ NeedsHandshake(requests[i]) /\ NeedsHandshake(requests[j])
      /\ answers[i] # NoAnswer /\ answers[i].kind = "-32002"
      => task[j] # "running" /\ (answers[j] # NoAnswer => answers[j].kind = "-32002")

\* Every line that is read is answered, unless an exception ends the loop.
EveryLineEnds == (loop = "handling") ~> (loop # "handling")
=============================================================================
