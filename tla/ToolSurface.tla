---------------------------- MODULE ToolSurface ----------------------------
(***************************************************************************)
(* The tool surface of a server and its hot reload (aggregate.py 80-130,   *)
(* api_server.py 249-303, cli.py 400-480).  A daemon thread watches the    *)
(* spec files; when their stamps change it builds a new surface and puts   *)
(* its parts into the server one attribute at a time, without a lock,      *)
(* while the clients' threads read the same attributes.                    *)
(*                                                                         *)
(* A "build" is one construction of the surface; builds are numbered, the  *)
(* boot's is 0.  The server's APIs keep their order through a reload (the  *)
(* sections of the configuration are read once), so an API is its index,   *)
(* and the list of entries, or of rate limiters, is the number of the      *)
(* build that made it.  Texts, paths and the lazy mode (which lists only   *)
(* meta tools) are left out.                                               *)
(*                                                                         *)
(* Each operator named Mutant... is a plausible bug in the definition that *)
(* follows it; no action uses one.                                         *)
(***************************************************************************)
EXTENDS Integers, Sequences, FiniteSets

CONSTANTS Apis,       \* the number of APIs of the aggregated server
          Threads,    \* the clients' sessions: stdio, or HTTP handler threads
          Contents,   \* what the watched spec files can hold
          Broken,     \* the contents no surface can be built from
          Boot,       \* the contents the server starts with
          Offers,     \* the operations each API has under the other contents
          MaxEdits,   \* bound: how often the files are saved
          NONE

ASSUME SurfaceAssumption ==
         /\ Apis \in Nat \ {0}
         /\ Broken \subseteq Contents
         /\ Boot \in Contents \ Broken
         /\ DOMAIN Offers = Contents \ Broken
         /\ \A c \in DOMAIN Offers : DOMAIN Offers[c] = 1..Apis
         /\ MaxEdits \in Nat
         /\ NONE \notin Nat

VARIABLES mode,      \* "single" (ApiServer) or "aggregated" (AggregatedServer)
          disk,      \* what the files hold now
          edits,     \* their modification stamp
          watcher,   \* where the watching thread is
          last,      \* the stamps it compares with
          stamp,     \* the stamps of the poll it is in
          fresh,     \* what it built the new surface from
          build,     \* the number of the newest build
          todo,      \* the attributes it has still to replace
          entries,   \* self.entries: the build of the list
          owners,    \* self._owners: name -> API
          limiters,  \* self._limiters: the build of the list
          byName,    \* self.by_name (with self.tools): name -> tool
          listed,    \* self.listed_names, of which only the real tools
          pc,        \* thread -> where its request is
          call       \* thread -> what the request has read so far

watch   == <<watcher, last, stamp, fresh, build, todo>>
surface == <<entries, owners, limiters, byName, listed>>
clients == <<pc, call>>
vars    == <<mode, disk, edits, watch, surface, clients>>
-----------------------------------------------------------------------------
(* Merging the APIs' tools into one surface. *)

Served == IF mode = "single" THEN {1} ELSE 1..Apis

Claimants(c, op) == {i \in Served : op \in Offers[c][i]}

\* An operation several APIs have is renamed for all of them: its name then
\* starts with the API's label.
NameOf(c, i, op) == IF Cardinality(Claimants(c, op)) > 1 THEN <<i, op>> ELSE <<op>>

NamesOf(c, i) == {NameOf(c, i, op) : op \in Offers[c][i]}

Names(c) == UNION {NamesOf(c, i) : i \in Served}

\* The names of two APIs differ, so each name has one owner.
OwnersOf(c) == [n \in Names(c) |-> CHOOSE i \in Served : n \in NamesOf(c, i)]

\* The tools of build b, looked up by name.
ToolsOf(c, b) == [n \in Names(c) |-> [api |-> OwnersOf(c)[n], build |-> b]]

NoCall == [name |-> NONE, api |-> NONE, build |-> NONE,
           entry |-> NONE, target |-> NONE, limiter |-> NONE]

Init ==
  /\ mode \in {"single", "aggregated"}
  /\ disk = Boot /\ edits = 0
  /\ watcher = "start" /\ last = 0 /\ stamp = 0 /\ fresh = Boot /\ build = 0 /\ todo = <<>>
  /\ entries = 0 /\ owners = OwnersOf(Boot) /\ limiters = 0
  /\ byName = ToolsOf(Boot, 0) /\ listed = Names(Boot)
  /\ pc = [t \in Threads |-> "idle"]
  /\ call = [t \in Threads |-> NoCall]
-----------------------------------------------------------------------------
(* The spec files and the thread that watches them. *)

\* Somebody saves a spec file, perhaps one that is only half there.
Edit ==
  /\ edits < MaxEdits
  /\ edits' = edits + 1
  /\ disk' \in Contents
  /\ UNCHANGED <<mode, watch, surface, clients>>

\* The thread takes its first stamps when it starts, after the boot has
\* loaded the files.
TakeBaseline ==
  /\ watcher = "start"
  /\ watcher' = "poll"
  /\ last' = edits
  /\ UNCHANGED <<mode, disk, edits, stamp, fresh, build, todo, surface, clients>>

MutantAlways == TRUE

Changed == edits # last

\* A poll that finds other stamps; it keeps them for the next one.
Poll ==
  /\ watcher = "poll"
  /\ Changed
  /\ watcher' = "load"
  /\ stamp' = edits
  /\ UNCHANGED <<mode, disk, edits, last, fresh, build, todo, surface, clients>>

MutantToolsFirst == IF mode = "single" THEN <<"by_name">>
                    ELSE <<"by_name", "entries", "owners", "limiters">>

\* The order of the assignments of reload_entries and reload_tools.
SwapOrder == IF mode = "single" THEN <<"by_name">>
             ELSE <<"entries", "owners", "limiters", "by_name">>

\* The whole surface is built before any part of it is put in place.
Load ==
  /\ watcher = "load"
  /\ disk \notin Broken
  /\ watcher' = "swap"
  /\ fresh' = disk
  /\ build' = build + 1
  /\ todo' = SwapOrder
  /\ UNCHANGED <<mode, disk, edits, last, stamp, surface, clients>>

\* Nothing to build it from.  The rebuild raises an exception, which
\* _reload_once reports; the aggregated one may instead end in _fail(),
\* whose SystemExit is no Exception and ends the thread.
LoadFails ==
  /\ watcher = "load"
  /\ disk \in Broken
  /\ \/ /\ watcher' = "poll"
        /\ last' = stamp
     \/ /\ mode = "aggregated"
        /\ watcher' = "dead"
        /\ last' = last
  /\ UNCHANGED <<mode, disk, edits, stamp, fresh, build, todo, surface, clients>>

Replacing(attribute) ==
  /\ watcher = "swap"
  /\ todo # <<>>
  /\ Head(todo) = attribute
  /\ todo' = Tail(todo)
  /\ UNCHANGED <<mode, disk, edits, watcher, last, stamp, fresh, build, listed, clients>>

SwapEntries ==
  /\ Replacing("entries")
  /\ entries' = build
  /\ UNCHANGED <<owners, limiters, byName>>

MutantKeepOwners == owners

NewOwners == OwnersOf(fresh)

SwapOwners ==
  /\ Replacing("owners")
  /\ owners' = NewOwners
  /\ UNCHANGED <<entries, limiters, byName>>

SwapLimiters ==
  /\ Replacing("limiters")
  /\ limiters' = build
  /\ UNCHANGED <<entries, owners, byName>>

\* reload_tools: the tools and their index, but not the listed names.
SwapTools ==
  /\ Replacing("by_name")
  /\ byName' = ToolsOf(fresh, build)
  /\ UNCHANGED <<entries, owners, limiters>>

MutantStampAgain == edits

Seen == stamp

Reloaded ==
  /\ watcher = "swap"
  /\ todo = <<>>
  /\ watcher' = "poll"
  /\ last' = Seen
  /\ UNCHANGED <<mode, disk, edits, stamp, fresh, build, todo, surface, clients>>

Watch == \/ TakeBaseline \/ Poll \/ Load \/ LoadFails \/ Reloaded
         \/ SwapEntries \/ SwapOwners \/ SwapLimiters \/ SwapTools
-----------------------------------------------------------------------------
(* The clients' requests. *)

Reading(t, from, to) ==
  /\ pc[t] = from
  /\ pc' = [pc EXCEPT ![t] = to]
  /\ UNCHANGED <<mode, disk, edits, watch, surface>>

Learn(t, field, value) == call' = [call EXCEPT ![t][field] = value]

Forget(t) == call' = [call EXCEPT ![t] = NoCall]

\* tools/list looks every listed name up; a name that is gone raises
\* KeyError, which nothing on the way to the session's loop catches.
List(t) == /\ listed \subseteq DOMAIN byName
           /\ Reading(t, "idle", "idle")
           /\ UNCHANGED call

ListFails(t) == /\ ~ (listed \subseteq DOMAIN byName)
                /\ Reading(t, "idle", "lost")
                /\ UNCHANGED call

\* tools/call of a name: run_tool answers "unknown tool" ...
Refuse(t, n) == /\ n \notin DOMAIN byName
                /\ Reading(t, "idle", "idle")
                /\ UNCHANGED call

\* ... or has the tool.  A single server has its one context at hand, the
\* aggregated one looks for the API's.
Lookup(t, n) ==
  /\ n \in DOMAIN byName
  /\ Reading(t, "idle", IF mode = "single" THEN "send" ELSE "entry")
  /\ call' = [call EXCEPT ![t] = [NoCall EXCEPT !.name = n, !.api = byName[n].api,
                                                !.build = byName[n].build]]

\* _context_for evaluates self.entries before self._owners[name], and reads
\* self._limiters and self._owners again for the limiter.
ReadEntries(t) == /\ Reading(t, "entry", "owner")
                  /\ Learn(t, "entry", entries)

ReadOwner(t) == /\ call[t].name \in DOMAIN owners
                /\ Reading(t, "owner", "limiter")
                /\ Learn(t, "target", owners[call[t].name])

ReadLimiter(t) == /\ call[t].name \in DOMAIN owners
                  /\ Reading(t, "limiter", "send")
                  /\ Learn(t, "limiter", limiters)

\* The name has lost its owner on the way: KeyError, answered as "unknown tool".
NoOwner(t) == /\ call[t].name \notin DOMAIN owners
              /\ \/ Reading(t, "owner", "idle")
                 \/ Reading(t, "limiter", "idle")
              /\ Forget(t)

Send(t) == /\ Reading(t, "send", "idle")
           /\ Forget(t)

AllNames == UNION {Names(c) : c \in Contents \ Broken}

Request(t) == \/ List(t) \/ ListFails(t)
              \/ \E n \in AllNames : Refuse(t, n) \/ Lookup(t, n)
              \/ ReadEntries(t) \/ ReadOwner(t) \/ ReadLimiter(t) \/ NoOwner(t) \/ Send(t)

Next == Edit \/ Watch \/ \E t \in Threads : Request(t)

Spec == Init /\ [][Next]_vars

\* The watching thread runs; nobody owes it an edit, nor the server a request.
FairSpec == Spec /\ WF_vars(Watch)
-----------------------------------------------------------------------------
(* Properties. *)

\* Types; a build answers an edit, so there are no more builds than edits.
TypeOK ==
  /\ mode \in {"single", "aggregated"}
  /\ disk \in Contents /\ edits \in 0..MaxEdits
  /\ watcher \in {"start", "poll", "load", "swap", "dead"}
  /\ last \in 0..edits /\ stamp \in 0..edits
  /\ fresh \in Contents \ Broken
  /\ build \in 0..edits
  /\ entries \in 0..build /\ limiters \in 0..build
  /\ owners \in [DOMAIN owners -> Served]
  /\ byName \in [DOMAIN byName -> [api : Served, build : 0..build]]
  /\ pc \in [Threads -> {"idle", "entry", "owner", "limiter", "send", "lost"}]
  /\ \A t \in Threads : (pc[t] \in {"idle", "lost"}) <=> (call[t] = NoCall)

\* Between two reloads the index, the owner map, the entries and the
\* limiters are those of one and the same build (reload_entries replaces
\* all of them, and a failed build none).
SurfaceAgrees ==
  watcher \in {"start", "poll", "dead"} =>
    \A n \in DOMAIN byName :
      mode = "aggregated" => /\ n \in DOMAIN owners
                             /\ owners[n] = byName[n].api
                             /\ byName[n].build = entries
                             /\ byName[n].build = limiters

\* A request that found a tool never goes out with an older build's
\* credentials or rate limiter: reload_entries puts them in place first.
NeverBehindItsTool ==
  \A t \in Threads :
    (pc[t] = "send" /\ mode = "aggregated") =>
      call[t].entry >= call[t].build /\ call[t].limiter >= call[t].build

\* A request that has found its tool is told "unknown tool" only when a
\* later build has removed it, never because the owner map lags behind.
UnknownMeansRemoved ==
  [][\A t \in Threads : NoOwner(t) => call[t].build < build]_vars

\* A saved spec that can be loaded is served in the end, unless it was
\* saved before the watching thread started, the thread is dead, or the
\* files are broken again.
Serves(c) == /\ DOMAIN byName = Names(c)
             /\ \A n \in Names(c) : byName[n].api = OwnersOf(c)[n]

EditIsServed ==
  (watcher # "start" /\ edits # last) ~>
    (watcher = "dead" \/ disk \in Broken \/ Serves(disk))

\* docs/USAGE.md 771-774: the tool list is rebuilt in place and "the stdio
\* loop and HTTP handler closures keep working": no tools/list is lost.
ListingSurvivesReload == \A t \in Threads : pc[t] # "lost"

\* cli.py 415-416 and 422: a broken spec keeps the previous surface and "the
\* watch loop goes on".
WatchLoopSurvives == watcher # "dead"

\* The two promises are not both broken.  This is weaker than each of them, so
\* that one counterexample breaks both: a reload that renames a tool loses a
\* listing, and a half-saved spec ends the watcher.
SomeReloadPromiseKept == ListingSurvivesReload \/ WatchLoopSurvives
=============================================================================
