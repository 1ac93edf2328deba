--------------------------- MODULE McpTransports ---------------------------
(***************************************************************************)
(* The two transports of one process: main starts the stdio loop (serve)   *)
(* or the HTTP server (serve --http), which answer through one             *)
(* handle_message and its one handshake flag, or neither (try).  What was  *)
(* not started stays as it was made.                                       *)
(***************************************************************************)
EXTENDS StdioServer, HttpServer

VARIABLES started    \* "stdio", "http" or "try"

transportVars == <<started, initialized, loopVars, connVars>>
-----------------------------------------------------------------------------
\* How one of them is started means nothing to the other.
TransportInit ==
  /\ started \in {"stdio", "http", "try"}
  /\ StdioInit /\ HttpInit
  /\ started # "http" => access = "open"

ServeStdio == started = "stdio" /\ StdioNext /\ UNCHANGED <<started, connVars>>
ServeHttp  == started = "http" /\ HttpNext /\ UNCHANGED <<started, loopVars>>

TransportNext == ServeStdio \/ ServeHttp

TransportSpec ==
  TransportInit /\ [][TransportNext]_transportVars /\ StdioFairness /\ HttpFairness
-----------------------------------------------------------------------------
\* Once the handshake is over no request is told to initialize: of its line, whatever the
\* order in a batch (StdioServer), or of any other connection (HttpServer).
HandshakeHolds == OpenMeansServed /\ OpenForAll

\* Every line read from stdin ends, in answers or in the exception that ends the loop, and
\* every accepted HTTP request in a reply or in the end of its connection.
EveryoneIsAnswered == EveryLineEnds /\ EveryRequestEnds
=============================================================================
