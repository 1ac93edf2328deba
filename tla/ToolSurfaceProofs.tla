--------------------------- MODULE ToolSurfaceProofs ---------------------------
(***************************************************************************)
(* Why a reload without a lock is safe where it is: the order in which the *)
(* watching thread replaces the attributes is the one in which the clients *)
(* may read them, for any APIs, contents and number of reloads.            *)
(***************************************************************************)
EXTENDS ToolSurface, TLAPS

\* What the watching thread has still to replace in an aggregated server.
AllLeft      == <<"entries", "owners", "limiters", "by_name">>
OwnersLeft   == <<"owners", "limiters", "by_name">>
LimitersLeft == <<"limiters", "by_name">>
ToolsLeft    == <<"by_name">>

Pending == IF mode = "single" THEN {ToolsLeft, <<>>}
           ELSE {AllLeft, OwnersLeft, LimitersLeft, ToolsLeft, <<>>}

\* A build belongs to a stamp of its own.
WatchInv ==
  /\ watcher # "swap" => todo = <<>> /\ build <= last
  /\ watcher = "load" => last < stamp
  /\ watcher = "swap" => todo \in Pending /\ 0 < build /\ build <= stamp

\* The build the lookups find until the last assignment.
Indexed == IF todo = <<>> THEN build ELSE build - 1

Agree == \A n \in DOMAIN byName : n \in DOMAIN owners /\ owners[n] = byName[n].api

\* How far each attribute is behind.
SurfaceInv ==
  /\ \A n \in DOMAIN byName : byName[n].build = Indexed
  /\ mode = "aggregated" =>
       /\ entries = IF todo = AllLeft THEN build - 1 ELSE build
       /\ limiters = IF todo \in {AllLeft, OwnersLeft, LimitersLeft} THEN build - 1 ELSE build
       /\ todo \in {<<>>, AllLeft, OwnersLeft} => Agree
       /\ todo \in {LimitersLeft, ToolsLeft} => owners = OwnersOf(fresh)

\* What a request knows after each of its reads.
CallInv == \A t \in Threads : pc[t] \notin {"idle", "lost"} =>
  /\ call[t].build \in 0 .. build
  /\ todo # <<>> => call[t].build < build
  /\ mode = "single" => pc[t] = "send"
  /\ mode = "aggregated" =>
       /\ call[t].build <= entries /\ call[t].build <= limiters
       /\ pc[t] # "entry" => call[t].entry \in Nat /\ call[t].build <= call[t].entry
       /\ pc[t] = "send" => call[t].limiter \in Nat /\ call[t].build <= call[t].limiter
       /\ call[t].build = build => call[t].name \in DOMAIN owners

Calls == [name : AllNames \cup {NONE}, api : Served \cup {NONE}, build : Nat \cup {NONE},
          entry : Nat \cup {NONE}, target : Served \cup {NONE}, limiter : Nat \cup {NONE}]

SwapInv == TypeOK /\ call \in [Threads -> Calls] /\ WatchInv /\ SurfaceInv /\ CallInv
-------------------------------------------------------------------------------
LEMMA Order ==
  ASSUME todo \in Pending, mode \in {"single", "aggregated"}, NEW a, Replacing(a)
  PROVE  /\ a = "entries" => mode = "aggregated" /\ todo = AllLeft /\ todo' = OwnersLeft
         /\ a = "owners" => mode = "aggregated" /\ todo = OwnersLeft /\ todo' = LimitersLeft
         /\ a = "limiters" => mode = "aggregated" /\ todo = LimitersLeft /\ todo' = ToolsLeft
         /\ a = "by_name" => todo = ToolsLeft /\ todo' = <<>>
         /\ todo' \in Pending
<1> USE DEF AllLeft, OwnersLeft, LimitersLeft, ToolsLeft
<1>1. todo # <<>> /\ Head(todo) = a /\ todo' = Tail(todo)
  BY DEF Replacing
<1>2. CASE todo = AllLeft
  <2>1. a = "entries" /\ todo' = OwnersLeft
    BY <1>1, <1>2
  <2>2. mode = "aggregated"
    BY <1>2 DEF Pending
  <2> QED
    BY <1>2, <2>1, <2>2 DEF Pending
<1>3. CASE todo = OwnersLeft
  <2>1. a = "owners" /\ todo' = LimitersLeft
    BY <1>1, <1>3
  <2>2. mode = "aggregated"
    BY <1>3 DEF Pending
  <2> QED
    BY <1>3, <2>1, <2>2 DEF Pending
<1>4. CASE todo = LimitersLeft
  <2>1. a = "limiters" /\ todo' = ToolsLeft
    BY <1>1, <1>4
  <2>2. mode = "aggregated"
    BY <1>4 DEF Pending
  <2> QED
    BY <1>4, <2>1, <2>2 DEF Pending
<1>5. CASE todo = ToolsLeft
  <2>1. a = "by_name" /\ todo' = <<>>
    BY <1>1, <1>5
  <2> QED
    BY <1>5, <2>1 DEF Pending
<1> QED
  BY <1>1, <1>2, <1>3, <1>4, <1>5 DEF Pending

\* The five stages of a reload are five.
LEMMA Stages ==
  /\ AllLeft # OwnersLeft /\ AllLeft # LimitersLeft /\ AllLeft # ToolsLeft /\ AllLeft # <<>>
  /\ OwnersLeft # LimitersLeft /\ OwnersLeft # ToolsLeft /\ OwnersLeft # <<>>
  /\ LimitersLeft # ToolsLeft /\ LimitersLeft # <<>> /\ ToolsLeft # <<>>
  BY DEF AllLeft, OwnersLeft, LimitersLeft, ToolsLeft

LEMMA SameMode ==
  ASSUME mode' = mode
  PROVE  /\ Served' = Served
         /\ \A c : OwnersOf(c)' = OwnersOf(c)
         /\ AllNames' = AllNames
  BY DEF Served, OwnersOf, Names, NamesOf, NameOf, Claimants, AllNames

LEMMA SameOwners ==
  ASSUME mode' = mode, fresh' = fresh
  PROVE  OwnersOf(fresh)' = OwnersOf(fresh)
  BY DEF Served, OwnersOf, Names, NamesOf, NameOf, Claimants

\* Every name of a surface has an owner among its APIs.
LEMMA Owned ==
  ASSUME NEW c
  PROVE  /\ OwnersOf(c) \in [Names(c) -> Served]
         /\ \A b : /\ ToolsOf(c, b) \in [Names(c) -> [api : Served, build : {b}]]
                   /\ \A n \in Names(c) : ToolsOf(c, b)[n] = [api |-> OwnersOf(c)[n], build |-> b]
<1>1. ASSUME NEW n \in Names(c) PROVE (CHOOSE i \in Served : n \in NamesOf(c, i)) \in Served
  BY DEF Names
<1> QED
  BY <1>1 DEF OwnersOf, ToolsOf

\* Each step belongs to the files, to the watching thread or to a client.
LEMMA WatchKeeps ==
  ASSUME Watch
  PROVE  UNCHANGED <<mode, disk, edits, listed, clients>>
  BY DEF Watch, TakeBaseline, Poll, Load, LoadFails, Reloaded, SwapEntries, SwapOwners,
         SwapLimiters, SwapTools, Replacing, surface

LEMMA RequestKeeps ==
  ASSUME NEW t \in Threads, Request(t)
  PROVE  UNCHANGED <<mode, disk, edits, watch, surface>>
  BY DEF Request, List, ListFails, Refuse, Lookup, ReadEntries, ReadOwner, ReadLimiter, NoOwner,
         Send, Reading

LEMMA SwapInit == Init => SwapInv
<1> SUFFICES ASSUME Init PROVE SwapInv
  OBVIOUS
<1> USE SurfaceAssumption DEF Init
<1>1. /\ owners \in [Names(Boot) -> Served]
      /\ byName \in [Names(Boot) -> [api : Served, build : {0}]]
      /\ \A n \in Names(Boot) : byName[n] = [api |-> owners[n], build |-> 0]
  BY Owned
<1>2. TypeOK
  <2>1. owners \in [DOMAIN owners -> Served]
    BY <1>1
  <2>2. byName \in [DOMAIN byName -> [api : Served, build : 0 .. build]]
    BY <1>1
  <2>3. \A t \in Threads : (pc[t] \in {"idle", "lost"}) <=> (call[t] = NoCall)
    OBVIOUS
  <2> QED
    BY <2>1, <2>2, <2>3 DEF TypeOK
<1>3. call \in [Threads -> Calls]
  BY DEF Calls, NoCall
<1>4. WatchInv
  BY DEF WatchInv
<1>5. SurfaceInv
  <2>0. DOMAIN byName = Names(Boot) /\ DOMAIN owners = Names(Boot)
    BY <1>1
  <2>1. \A n \in DOMAIN byName : byName[n].build = 0 /\ byName[n].api = owners[n]
    <3> SUFFICES ASSUME NEW n \in Names(Boot)
                 PROVE  byName[n].build = 0 /\ byName[n].api = owners[n]
      BY <2>0
    <3>1. byName[n] = [api |-> owners[n], build |-> 0]
      BY <1>1
    <3> QED
      BY <3>1
  <2>2. todo = <<>> /\ todo \notin {AllLeft, OwnersLeft, LimitersLeft, ToolsLeft}
    BY Stages
  <2> QED
    BY <2>0, <2>1, <2>2 DEF SurfaceInv, Indexed, Agree
<1>6. CallInv
  BY DEF CallInv
<1> QED
  BY <1>2, <1>3, <1>4, <1>5, <1>6 DEF SwapInv

LEMMA WatchNext == SwapInv /\ [Next]_vars => WatchInv'
<1> SUFFICES ASSUME SwapInv, [Next]_vars PROVE WatchInv'
  OBVIOUS
<1> USE DEF SwapInv, WatchInv, Pending
<1>0. /\ mode \in {"single", "aggregated"} /\ edits \in Nat /\ last \in Nat /\ stamp \in Nat
      /\ build \in Nat /\ last <= edits
  BY SurfaceAssumption DEF TypeOK
<1>1. CASE UNCHANGED <<mode, watch>>
  BY <1>1 DEF watch
<1>2. CASE TakeBaseline
  BY <1>0, <1>2 DEF TakeBaseline
<1>3. CASE Poll
  BY <1>0, <1>3 DEF Poll, Changed
<1>4. CASE Load
  <2>1. todo' \in Pending /\ build' = build + 1 /\ watcher' = "swap" /\ build < stamp
        /\ UNCHANGED <<mode, stamp>>
    BY <1>0, <1>4, Stages DEF Load, SwapOrder, AllLeft, ToolsLeft
  <2> QED
    BY <1>0, <2>1
<1>5. CASE LoadFails
  BY <1>0, <1>5 DEF LoadFails
<1>6. CASE Reloaded
  BY <1>0, <1>6 DEF Reloaded, Seen
<1>7. ASSUME NEW a, Replacing(a), UNCHANGED mode PROVE WatchInv'
  <2>1. watcher = "swap" /\ watcher' = "swap" /\ UNCHANGED <<build, stamp>>
    BY <1>7 DEF Replacing
  <2>2. todo \in Pending
    BY <2>1
  <2>3. todo' \in Pending
    BY <1>0, <1>7, <2>2, Order
  <2> QED
    BY <1>0, <1>7, <2>1, <2>2, <2>3
<1>8. UNCHANGED <<mode, watch>> \/ Watch
  BY RequestKeeps DEF Next, vars, Edit
<1>9. CASE SwapEntries \/ SwapOwners \/ SwapLimiters \/ SwapTools
  BY <1>7, <1>9 DEF SwapEntries, SwapOwners, SwapLimiters, SwapTools, Replacing
<1> QED
  BY <1>1, <1>2, <1>3, <1>4, <1>5, <1>6, <1>8, <1>9 DEF Watch

\* What a step of the watching thread can do under a request.
LEMMA WatchStep ==
  ASSUME SwapInv, Watch
  PROVE  /\ UNCHANGED <<mode, clients>>
         /\ \/ /\ build' = build
               /\ todo' # <<>> => todo # <<>>
               /\ owners' = owners \/ todo # <<>>
               /\ entries' \in {entries, build} /\ limiters' \in {limiters, build}
            \/ build' = build + 1 /\ UNCHANGED surface
<1> USE DEF surface, watch
<1>0. UNCHANGED <<mode, clients>>
  BY WatchKeeps
<1>1. CASE Load
  BY <1>0, <1>1 DEF Load
<1>2. CASE TakeBaseline \/ Poll \/ LoadFails \/ Reloaded
  BY <1>0, <1>2 DEF TakeBaseline, Poll, LoadFails, Reloaded
<1>3. CASE SwapEntries \/ SwapOwners \/ SwapLimiters \/ SwapTools
  BY <1>0, <1>3 DEF SwapEntries, SwapOwners, SwapLimiters, SwapTools, Replacing
<1> QED
  BY <1>1, <1>2, <1>3 DEF Watch

LEMMA CallNext == SwapInv /\ [Next]_vars => CallInv'
<1> SUFFICES ASSUME SwapInv, [Next]_vars PROVE CallInv'
  OBVIOUS
<1>0. /\ build \in Nat /\ entries \in Nat /\ limiters \in Nat
      /\ entries <= build /\ limiters <= build
      /\ CallInv /\ mode \in {"single", "aggregated"}
      /\ pc \in [Threads -> {"idle", "entry", "owner", "limiter", "send", "lost"}]
      /\ call \in [Threads -> Calls]
  <2>1. edits \in Nat /\ build \in 0 .. edits /\ entries \in 0 .. build /\ limiters \in 0 .. build
    BY SurfaceAssumption DEF SwapInv, TypeOK
  <2> QED
    BY <2>1 DEF SwapInv, TypeOK
<1>1. CASE UNCHANGED <<mode, watch, surface, clients>>
  BY <1>0, <1>1 DEF CallInv, watch, surface, clients
<1>2. CASE Watch
  <2>1. /\ UNCHANGED <<mode, clients>>
        /\ \/ /\ build' = build
              /\ todo' # <<>> => todo # <<>>
              /\ owners' = owners \/ todo # <<>>
              /\ entries' \in {entries, build} /\ limiters' \in {limiters, build}
           \/ build' = build + 1 /\ UNCHANGED surface
    BY <1>2, WatchStep
  <2> QED
    BY <1>0, <2>1 DEF CallInv, clients, surface
<1>3. ASSUME NEW t \in Threads, Request(t) PROVE CallInv'
  <2>0. UNCHANGED <<mode, watch, surface>>
    BY <1>3, RequestKeeps
  <2>1. ASSUME UNCHANGED call, pc'[t] \in {"idle", "lost"}, \A s \in Threads \ {t} : pc'[s] = pc[s]
        PROVE  CallInv'
    BY <1>0, <2>0, <2>1 DEF CallInv, watch, surface
  <2>2. CASE List(t) \/ ListFails(t) \/ \E n \in AllNames : Refuse(t, n)
    BY <1>0, <2>1, <2>2 DEF List, ListFails, Refuse, Reading
  <2>3. CASE NoOwner(t) \/ Send(t)
    <3>1. pc' = [pc EXCEPT ![t] = "idle"] /\ call' = [call EXCEPT ![t] = NoCall]
      BY <2>3 DEF NoOwner, Send, Reading, Forget
    <3> QED
      BY <1>0, <2>0, <3>1 DEF CallInv, watch, surface
  <2>4. ASSUME NEW n \in AllNames, Lookup(t, n) PROVE CallInv'
    <3>1. /\ n \in DOMAIN byName /\ byName[n].build = Indexed /\ byName[n].build \in Nat
          /\ call'[t].build = byName[n].build /\ call'[t].name = n
          /\ \A s \in Threads \ {t} : call'[s] = call[s] /\ pc'[s] = pc[s]
          /\ pc'[t] = IF mode = "single" THEN "send" ELSE "entry"
      BY <1>0, <2>4 DEF Lookup, NoCall, Reading, SwapInv, SurfaceInv, TypeOK
    <3>2. call'[t].build \in 0 .. build /\ (todo # <<>> => call'[t].build < build)
      BY <1>0, <3>1 DEF Indexed
    <3>3. ASSUME mode = "aggregated"
          PROVE  /\ call'[t].build <= entries /\ call'[t].build <= limiters
                 /\ call'[t].build = build => n \in DOMAIN owners
      BY <1>0, <3>1, <3>3, Stages DEF Indexed, SwapInv, SurfaceInv, Agree
    <3> QED
      BY <1>0, <2>0, <3>1, <3>2, <3>3 DEF CallInv, watch, surface
  <2>5. CASE ReadEntries(t)
    <3>1. /\ pc[t] = "entry" /\ pc' = [pc EXCEPT ![t] = "owner"]
          /\ call'[t].entry = entries /\ call'[t].name = call[t].name
          /\ call'[t].build = call[t].build
          /\ \A s \in Threads \ {t} : call'[s] = call[s]
      BY <1>0, <2>5 DEF ReadEntries, Reading, Learn, Calls
    <3> QED
      BY <1>0, <2>0, <3>1 DEF CallInv, watch, surface
  <2>6. CASE ReadOwner(t)
    <3>1. /\ pc[t] = "owner" /\ pc' = [pc EXCEPT ![t] = "limiter"]
          /\ call'[t].entry = call[t].entry /\ call'[t].name = call[t].name
          /\ call'[t].build = call[t].build
          /\ \A s \in Threads \ {t} : call'[s] = call[s]
      BY <1>0, <2>6 DEF ReadOwner, Reading, Learn, Calls
    <3> QED
      BY <1>0, <2>0, <3>1 DEF CallInv, watch, surface
  <2>7. CASE ReadLimiter(t)
    <3>1. /\ pc[t] = "limiter" /\ pc' = [pc EXCEPT ![t] = "send"]
          /\ call'[t].entry = call[t].entry /\ call'[t].name = call[t].name
          /\ call'[t].build = call[t].build /\ call'[t].limiter = limiters
          /\ \A s \in Threads \ {t} : call'[s] = call[s]
      BY <1>0, <2>7 DEF ReadLimiter, Reading, Learn, Calls
    <3> QED
      BY <1>0, <2>0, <3>1 DEF CallInv, watch, surface
  <2> QED
    BY <1>3, <2>2, <2>3, <2>4, <2>5, <2>6, <2>7 DEF Request
<1> QED
  BY <1>1, <1>2, <1>3 DEF Next, vars, Edit
LEMMA SurfaceNext == SwapInv /\ [Next]_vars => SurfaceInv'
<1> SUFFICES ASSUME SwapInv, [Next]_vars PROVE SurfaceInv'
  OBVIOUS
<1>0. /\ mode \in {"single", "aggregated"} /\ build \in Nat
      /\ SurfaceInv /\ WatchInv
  BY SurfaceAssumption DEF SwapInv, TypeOK
<1>1. CASE UNCHANGED <<mode, fresh, build, todo, surface>>
  BY <1>0, <1>1, SameMode DEF SurfaceInv, Indexed, Agree, surface
<1>2. CASE Load
  <2>1. /\ todo = <<>> /\ build' = build + 1 /\ UNCHANGED <<mode, surface>>
        /\ todo' = IF mode = "single" THEN ToolsLeft ELSE AllLeft
    BY <1>0, <1>2 DEF Load, WatchInv, SwapOrder, ToolsLeft, AllLeft
  <2> QED
    BY <1>0, <2>1, Stages DEF SurfaceInv, Indexed, Agree, surface
<1>3. ASSUME NEW a, Replacing(a), UNCHANGED mode
      PROVE  /\ todo \in Pending /\ UNCHANGED <<fresh, build>>
             /\ a = "entries" => mode = "aggregated" /\ todo = AllLeft /\ todo' = OwnersLeft
             /\ a = "owners" => mode = "aggregated" /\ todo = OwnersLeft /\ todo' = LimitersLeft
             /\ a = "limiters" => mode = "aggregated" /\ todo = LimitersLeft /\ todo' = ToolsLeft
             /\ a = "by_name" => todo = ToolsLeft /\ todo' = <<>>
  <2>1. todo \in Pending /\ UNCHANGED <<fresh, build>>
    BY <1>0, <1>3 DEF WatchInv, Replacing
  <2> QED
    BY <1>0, <1>3, <2>1, Order
<1>4. CASE SwapEntries
  <2>1. /\ mode = "aggregated" /\ todo = AllLeft /\ todo' = OwnersLeft /\ entries' = build
        /\ UNCHANGED <<mode, fresh, build, owners, limiters, byName>>
    BY <1>3, <1>4 DEF SwapEntries, Replacing
  <2> QED
    BY <1>0, <2>1, Stages DEF SurfaceInv, Indexed, Agree
<1>5. CASE SwapOwners
  <2>1. /\ mode = "aggregated" /\ todo = OwnersLeft /\ todo' = LimitersLeft
        /\ owners' = OwnersOf(fresh) /\ UNCHANGED <<mode, fresh, build, entries, limiters, byName>>
    BY <1>3, <1>5 DEF SwapOwners, Replacing, NewOwners
  <2>2. owners' = OwnersOf(fresh)'
    BY <2>1, SameOwners
  <2> QED
    BY <1>0, <2>1, <2>2, Stages DEF SurfaceInv, Indexed
<1>6. CASE SwapLimiters
  <2>1. /\ mode = "aggregated" /\ todo = LimitersLeft /\ todo' = ToolsLeft /\ limiters' = build
        /\ UNCHANGED <<mode, fresh, build, owners, entries, byName>>
    BY <1>3, <1>6 DEF SwapLimiters, Replacing
  <2>2. owners' = OwnersOf(fresh)'
    BY <1>0, <2>1, Stages, SameOwners DEF SurfaceInv
  <2> QED
    BY <1>0, <2>1, <2>2, Stages DEF SurfaceInv, Indexed
<1>7. CASE SwapTools
  <2>1. /\ todo = ToolsLeft /\ todo' = <<>> /\ byName' = ToolsOf(fresh, build)
        /\ UNCHANGED <<mode, fresh, build, owners, entries, limiters>>
    BY <1>3, <1>7 DEF SwapTools, Replacing
  <2>2. /\ DOMAIN byName' = Names(fresh)
        /\ \A n \in Names(fresh) : byName'[n].build = build /\ byName'[n].api = OwnersOf(fresh)[n]
    <3>1. /\ ToolsOf(fresh, build) \in [Names(fresh) -> [api : Served, build : {build}]]
          /\ \A n \in Names(fresh) :
               ToolsOf(fresh, build)[n] = [api |-> OwnersOf(fresh)[n], build |-> build]
      BY Owned
    <3> QED
      BY <2>1, <3>1
  <2>3. mode = "aggregated" => Agree'
    <3>1. OwnersOf(fresh) \in [Names(fresh) -> Served]
      BY Owned
    <3> QED
      BY <1>0, <2>1, <2>2, <3>1, Stages DEF SurfaceInv, Agree
  <2>4. \A n \in DOMAIN byName' : byName'[n].build = Indexed'
    BY <2>1, <2>2 DEF Indexed
  <2> QED
    BY <1>0, <2>1, <2>3, <2>4, Stages DEF SurfaceInv
<1>8. CASE TakeBaseline \/ Poll \/ LoadFails \/ Reloaded
  BY <1>1, <1>8 DEF TakeBaseline, Poll, LoadFails, Reloaded
<1>9. UNCHANGED <<mode, fresh, build, todo, surface>> \/ Watch
  BY RequestKeeps DEF Next, vars, Edit, watch
<1> QED
  BY <1>1, <1>2, <1>4, <1>5, <1>6, <1>7, <1>8, <1>9 DEF Watch

\* The types, of the files and the thread, of the surface, and of the requests.
LEMMA FilesType ==
  SwapInv /\ [Next]_vars =>
    /\ mode' \in {"single", "aggregated"}
    /\ disk' \in Contents /\ edits' \in 0..MaxEdits
    /\ watcher' \in {"start", "poll", "load", "swap", "dead"}
    /\ last' \in 0..edits' /\ stamp' \in 0..edits'
    /\ fresh' \in Contents \ Broken
    /\ build' \in 0..edits'
<1> SUFFICES ASSUME SwapInv, [Next]_vars
             PROVE  /\ mode' \in {"single", "aggregated"}
                    /\ disk' \in Contents /\ edits' \in 0..MaxEdits
                    /\ watcher' \in {"start", "poll", "load", "swap", "dead"}
                    /\ last' \in 0..edits' /\ stamp' \in 0..edits'
                    /\ fresh' \in Contents \ Broken
                    /\ build' \in 0..edits'
  OBVIOUS
<1>0. /\ mode \in {"single", "aggregated"}
      /\ disk \in Contents /\ edits \in 0..MaxEdits /\ MaxEdits \in Nat
      /\ watcher \in {"start", "poll", "load", "swap", "dead"}
      /\ last \in 0..edits /\ stamp \in 0..edits
      /\ fresh \in Contents \ Broken
      /\ build \in 0..edits /\ WatchInv
  BY SurfaceAssumption DEF SwapInv, TypeOK
<1>1. CASE UNCHANGED <<mode, disk, edits, watch>>
  BY <1>0, <1>1 DEF watch
<1>2. CASE Edit
  BY <1>0, <1>2 DEF Edit, watch
<1>3. CASE Load
  BY <1>0, <1>3 DEF Load, WatchInv
<1>4. CASE TakeBaseline \/ Poll \/ LoadFails \/ Reloaded
  BY <1>0, <1>4 DEF TakeBaseline, Poll, LoadFails, Reloaded, Seen
<1>5. CASE SwapEntries \/ SwapOwners \/ SwapLimiters \/ SwapTools
  BY <1>0, <1>5 DEF SwapEntries, SwapOwners, SwapLimiters, SwapTools, Replacing
<1> QED
  BY <1>1, <1>2, <1>3, <1>4, <1>5, RequestKeeps DEF Next, Watch, vars

LEMMA SurfaceType ==
  SwapInv /\ [Next]_vars =>
    /\ entries' \in 0..build' /\ limiters' \in 0..build'
    /\ owners' \in [DOMAIN owners' -> Served']
    /\ byName' \in [DOMAIN byName' -> [api : Served', build : 0..build']]
<1> SUFFICES ASSUME SwapInv, [Next]_vars
             PROVE  /\ entries' \in 0..build' /\ limiters' \in 0..build'
                    /\ owners' \in [DOMAIN owners' -> Served']
                    /\ byName' \in [DOMAIN byName' -> [api : Served', build : 0..build']]
  OBVIOUS
<1>0. /\ build \in Nat /\ entries \in 0..build /\ limiters \in 0..build
      /\ owners \in [DOMAIN owners -> Served]
      /\ byName \in [DOMAIN byName -> [api : Served, build : 0..build]]
  BY SurfaceAssumption DEF SwapInv, TypeOK
<1>1. CASE UNCHANGED <<mode, build, surface>>
  BY <1>0, <1>1, SameMode DEF surface
<1>2. CASE Load
  <2>1. build' = build + 1 /\ UNCHANGED <<mode, surface>>
    BY <1>2 DEF Load
  <2>2. [api : Served, build : 0..build] \subseteq [api : Served, build : 0..(build + 1)]
    BY <1>0
  <2> QED
    BY <1>0, <2>1, <2>2, SameMode DEF surface
<1>3. CASE SwapEntries \/ SwapLimiters
  BY <1>0, <1>3, SameMode DEF SwapEntries, SwapLimiters, Replacing
<1>4. CASE SwapOwners
  <2>1. owners' = OwnersOf(fresh) /\ UNCHANGED <<mode, build, entries, limiters, byName>>
    BY <1>4 DEF SwapOwners, Replacing, NewOwners
  <2>2. OwnersOf(fresh) \in [Names(fresh) -> Served]
    BY Owned
  <2> QED
    BY <1>0, <2>1, <2>2, SameMode
<1>5. CASE SwapTools
  <2>1. byName' = ToolsOf(fresh, build) /\ UNCHANGED <<mode, build, entries, limiters, owners>>
    BY <1>5 DEF SwapTools, Replacing
  <2>2. ToolsOf(fresh, build) \in [Names(fresh) -> [api : Served, build : {build}]]
    BY Owned
  <2>3. [api : Served, build : {build}] \subseteq [api : Served, build : 0..build]
    BY <1>0
  <2>4. ToolsOf(fresh, build) \in [Names(fresh) -> [api : Served, build : 0..build]]
    BY <2>2, <2>3
  <2> QED
    BY <1>0, <2>1, <2>4, SameMode
<1>6. CASE TakeBaseline \/ Poll \/ LoadFails \/ Reloaded
  BY <1>1, <1>6 DEF TakeBaseline, Poll, LoadFails, Reloaded
<1> QED
  BY <1>1, <1>2, <1>3, <1>4, <1>5, <1>6, RequestKeeps DEF Next, Watch, Edit, vars, watch

LEMMA RequestType ==
  SwapInv /\ [Next]_vars =>
    /\ call' \in [Threads -> Calls']
    /\ pc' \in [Threads -> {"idle", "entry", "owner", "limiter", "send", "lost"}]
    /\ \A t \in Threads : (pc'[t] \in {"idle", "lost"}) <=> (call'[t] = NoCall)
<1> SUFFICES ASSUME SwapInv, [Next]_vars
             PROVE  /\ call' \in [Threads -> Calls']
                    /\ pc' \in [Threads -> {"idle", "entry", "owner", "limiter", "send", "lost"}]
                    /\ \A t \in Threads : (pc'[t] \in {"idle", "lost"}) <=> (call'[t] = NoCall)
  OBVIOUS
<1>0. /\ call \in [Threads -> Calls] /\ NONE \notin Nat
      /\ pc \in [Threads -> {"idle", "entry", "owner", "limiter", "send", "lost"}]
      /\ \A t \in Threads : (pc[t] \in {"idle", "lost"}) <=> (call[t] = NoCall)
      /\ build \in Nat /\ entries \in Nat /\ limiters \in Nat
      /\ owners \in [DOMAIN owners -> Served]
      /\ byName \in [DOMAIN byName -> [api : Served, build : 0..build]]
  BY SurfaceAssumption DEF SwapInv, TypeOK
<1>1. NoCall \in Calls
  BY DEF NoCall, Calls
<1>2. Calls' = Calls
  <2>1. mode' = mode
    BY WatchKeeps, RequestKeeps DEF Next, Edit, vars
  <2> QED
    BY <2>1, SameMode DEF Calls
<1>3. CASE UNCHANGED clients
  BY <1>0, <1>2, <1>3 DEF clients
<1>4. ASSUME NEW t \in Threads, Request(t)
      PROVE  /\ call' \in [Threads -> Calls]
             /\ pc' \in [Threads -> {"idle", "entry", "owner", "limiter", "send", "lost"}]
             /\ \A s \in Threads : (pc'[s] \in {"idle", "lost"}) <=> (call'[s] = NoCall)
  <2>1. CASE List(t) \/ ListFails(t) \/ \E n \in AllNames : Refuse(t, n)
    <3>1. UNCHANGED call /\ pc[t] = "idle" /\ \E p \in {"idle", "lost"} : pc' = [pc EXCEPT ![t] = p]
      BY <2>1 DEF List, ListFails, Refuse, Reading
    <3> QED
      BY <1>0, <3>1
  <2>2. CASE NoOwner(t) \/ Send(t)
    <3>1. pc' = [pc EXCEPT ![t] = "idle"] /\ call' = [call EXCEPT ![t] = NoCall]
      BY <2>2 DEF NoOwner, Send, Reading, Forget
    <3> QED
      BY <1>0, <1>1, <3>1
  <2>3. ASSUME NEW n \in AllNames, Lookup(t, n)
        PROVE  \E p \in {"send", "entry"} : \E k \in Calls :
                 pc' = [pc EXCEPT ![t] = p] /\ k # NoCall /\ call' = [call EXCEPT ![t] = k]
    <3> DEFINE k == [NoCall EXCEPT !.name = n, !.api = byName[n].api, !.build = byName[n].build]
    <3>1. byName[n].api \in Served /\ byName[n].build \in Nat
      BY <1>0, <2>3 DEF Lookup
    <3>2. k \in Calls /\ k # NoCall
      BY <1>0, <3>1 DEF Calls, NoCall
    <3> QED
      BY <2>3, <3>2 DEF Lookup, Reading
  <2>4. CASE ReadEntries(t) \/ ReadOwner(t) \/ ReadLimiter(t)
    <3>1. \E p \in {"owner", "limiter", "send"} : \E k \in Calls :
            pc' = [pc EXCEPT ![t] = p] /\ k # NoCall /\ call' = [call EXCEPT ![t] = k]
      <4>1. call[t].build \in Nat /\ call[t] \in Calls
        BY <1>0, <2>4 DEF ReadEntries, ReadOwner, ReadLimiter, Reading, SwapInv, CallInv
      <4>2. ASSUME NEW k \in Calls, k.build = call[t].build PROVE k # NoCall
        BY <1>0, <4>1, <4>2 DEF NoCall
      <4>3. CASE ReadEntries(t)
        <5>1. [call[t] EXCEPT !.entry = entries] \in Calls
          BY <1>0, <4>1 DEF Calls
        <5>2. /\ [call[t] EXCEPT !.entry = entries].build = call[t].build
              /\ call' = [call EXCEPT ![t] = [call[t] EXCEPT !.entry = entries]]
              /\ pc' = [pc EXCEPT ![t] = "owner"]
          BY <1>0, <4>1, <4>3 DEF ReadEntries, Reading, Learn, Calls
        <5> QED
          BY <4>2, <5>1, <5>2
      <4>4. CASE ReadOwner(t)
        <5> DEFINE o == owners[call[t].name]
        <5>0. o \in Served
          BY <1>0, <4>4 DEF ReadOwner
        <5>1. [call[t] EXCEPT !.target = o] \in Calls
          BY <4>1, <5>0 DEF Calls
        <5>2. /\ [call[t] EXCEPT !.target = o].build = call[t].build
              /\ call' = [call EXCEPT ![t] = [call[t] EXCEPT !.target = o]]
              /\ pc' = [pc EXCEPT ![t] = "limiter"]
          BY <1>0, <4>1, <4>4 DEF ReadOwner, Reading, Learn, Calls
        <5> QED
          BY <4>2, <5>1, <5>2
      <4>5. CASE ReadLimiter(t)
        <5>1. [call[t] EXCEPT !.limiter = limiters] \in Calls
          BY <1>0, <4>1 DEF Calls
        <5>2. /\ [call[t] EXCEPT !.limiter = limiters].build = call[t].build
              /\ call' = [call EXCEPT ![t] = [call[t] EXCEPT !.limiter = limiters]]
              /\ pc' = [pc EXCEPT ![t] = "send"]
          BY <1>0, <4>1, <4>5 DEF ReadLimiter, Reading, Learn, Calls
        <5> QED
          BY <4>2, <5>1, <5>2
      <4> QED
        BY <2>4, <4>3, <4>4, <4>5
    <3> QED
      BY <1>0, <3>1
  <2> QED
    BY <1>0, <1>4, <2>1, <2>2, <2>3, <2>4 DEF Request
<1> QED
  BY <1>2, <1>3, <1>4, WatchKeeps DEF Next, Edit, vars

LEMMA SwapAlways == Spec => []SwapInv
<1>1. SwapInv /\ [Next]_vars => SwapInv'
  <2> SUFFICES ASSUME SwapInv, [Next]_vars PROVE SwapInv'
    OBVIOUS
  <2>1. TypeOK' /\ call' \in [Threads -> Calls']
    BY FilesType, SurfaceType, RequestType DEF TypeOK
  <2> QED
    BY <2>1, WatchNext, SurfaceNext, CallNext DEF SwapInv
<1> QED
  BY <1>1, SwapInit, PTL DEF Spec

\* Every attribute keeps its type, and a build answers an edit (reload_tools,
\* reload_entries).
THEOREM TypeCorrect == Spec => []TypeOK
  BY SwapAlways, PTL DEF SwapInv

\* Between two reloads the index, the owners, the entries and the limiters of an
\* aggregated server are those of one build, however many reloads there were and
\* whichever of them failed.
THEOREM SurfaceIsOfOneBuild == Spec => []SurfaceAgrees
<1>1. SwapInv => SurfaceAgrees
  BY Stages DEF SwapInv, WatchInv, SurfaceInv, Indexed, Agree, SurfaceAgrees
<1> QED
  BY <1>1, SwapAlways, PTL

\* A request that found a tool goes out with the credentials and the limiter of the
\* tool's build or of a later one, though _context_for reads them without a lock.
THEOREM CredentialsNotOlder == Spec => []NeverBehindItsTool
<1>1. SwapInv => NeverBehindItsTool
  <2> SUFFICES ASSUME SwapInv, NEW t \in Threads, pc[t] = "send", mode = "aggregated"
               PROVE  call[t].entry >= call[t].build /\ call[t].limiter >= call[t].build
    BY DEF NeverBehindItsTool
  <2>1. /\ call[t].build \in Nat /\ call[t].entry \in Nat /\ call[t].limiter \in Nat
        /\ call[t].build <= call[t].entry /\ call[t].build <= call[t].limiter
    BY DEF SwapInv, CallInv
  <2> QED
    BY <2>1
<1> QED
  BY <1>1, SwapAlways, PTL

\* A name that has lost its owner between the lookup and the call was removed by a
\* build later than the tool's: reload_entries puts the owners in place before the tools.
THEOREM UnknownIsNoRace == Spec => UnknownMeansRemoved
<1>1. SwapInv /\ [Next]_vars => [\A t \in Threads : NoOwner(t) => call[t].build < build]_vars
  <2> SUFFICES ASSUME SwapInv, NEW t \in Threads, NoOwner(t) PROVE call[t].build < build
    OBVIOUS
  <2>1. pc[t] \in {"owner", "limiter"} /\ call[t].name \notin DOMAIN owners
    BY DEF NoOwner, Reading
  <2>2. mode = "aggregated"
    BY <2>1 DEF SwapInv, CallInv, TypeOK
  <2>3. call[t].build \in 0 .. build /\ call[t].build # build /\ build \in Nat
    BY <2>1, <2>2, SurfaceAssumption DEF SwapInv, CallInv, TypeOK
  <2> QED
    BY <2>3
<1> QED
  BY <1>1, SwapAlways, PTL DEF Spec, UnknownMeansRemoved
===============================================================================
