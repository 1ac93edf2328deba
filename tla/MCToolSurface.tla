--------------------------- MODULE MCToolSurface ---------------------------
(* Two APIs: the second version moves every operation to the other API, the *)
(* third gives both the same operation, which renames it for both.          *)
EXTENDS ToolSurface

OfferedBy == [v1 |-> <<{"n"}, {"m"}>>, v2 |-> <<{"m"}, {"n"}>>, v3 |-> <<{"n"}, {"n"}>>]
=============================================================================
