---------------------------- MODULE MCResponseCache ----------------------------
(* Two GETs at a time over two keys, one with an ETag, and a cache of one
   entry, so that filling it for one key evicts the other. *)
EXTENDS ResponseCache

AnyPattern == {Tagged, Keys}
===============================================================================
