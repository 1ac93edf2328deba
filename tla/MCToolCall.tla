------------------------------- MODULE MCToolCall -------------------------------
(* One method of each kind, retries below, at and beyond the cap, 429 waits off,
   shorter and longer than what the API asks for. *)
EXTENDS ToolCall

RetryValues == {-1, 0, 1, 3}
===============================================================================
