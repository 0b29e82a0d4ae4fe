----------------------------- MODULE MCScpCache -----------------------------
(* Two requests and two queries in a cache of one entry, so that every         *)
(* admission of the other query has to evict.                                  *)
EXTENDS ScpCache
=============================================================================
