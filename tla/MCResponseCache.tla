--------------------------- MODULE MCResponseCache ---------------------------
(* Two concurrent requests on one route, two URIs and a reload between them.  *)
(* Keys of the first URI are small: two responses for it fit the budget.  The *)
(* key of the second is large: its counter takes all of the budget, so that   *)
(* responses and counters are evicted, and a response for it is too large.    *)
EXTENDS ResponseCache, TLC

MCKeySize == [u \in Uris |-> u]

Symmetry == Permutations(Requests)
=============================================================================
