----------------------------- MODULE McpProcess -----------------------------
(***************************************************************************)
(* One process of the program: the transports, or the prompt (try), whose  *)
(* calls take the path from the config to the answer that the served tools *)
(* take too.                                                               *)
(***************************************************************************)
EXTENDS McpTransports, TrySession

ASSUME ProcessAssumption ==
  /\ {MaxDepth, MaxHops, Limit, Marker, Excerpt, Nesting} \subseteq Nat \ {0}
  /\ \A l \in Launches : LaunchRead(l)

vars == <<transportVars, tryVars>>
-----------------------------------------------------------------------------
Init ==
  /\ TransportInit /\ TryInit
  /\ started # "try" => launch = CHOOSE l \in Launches : TRUE

Prompt == started = "try" /\ TryNext /\ UNCHANGED transportVars

Next == (TransportNext /\ UNCHANGED tryVars) \/ Prompt

Spec == Init /\ [][Next]_vars /\ StdioFairness /\ HttpFairness
-----------------------------------------------------------------------------
\* The launches that start and break what is said of the order of the layers, of configs, of
\* flags and of allOf.
Misled == {l \in Launches :
  Starts(l) /\ ~(DocumentedPrecedence(l) \/ ConfigIsApplied(l) \/ FlagsAlwaysWin(l) \/ AllOfIsMerged(l))}

\* No process breaks all these promises: those four, that every tool is reached by its name, that
\* arguments bring no credentials, that redaction minds neither case nor format, and that every
\* success is structured.  This is weaker than each of them, so that one counterexample, a
\* prompt that is started and asked a few calls, breaks them all.
SomePromptPromiseKept ==
  \/ [](started = "try" /\ stage = "off" => launch \notin Misled)
  \/ []EveryToolReached \/ []NothingInjected
  \/ []AnyCaseMasked \/ []AnyFormatMasked \/ []EverySuccessStructured
=============================================================================
