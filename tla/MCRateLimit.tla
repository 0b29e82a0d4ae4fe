---------------------------- MODULE MCRateLimit -----------------------------
(* Three workers; the counter saturates two requests beyond the limit and     *)
(* every second request sweeps.                                               *)
EXTENDS RateLimit, TLC

Symmetric == Permutations(Workers) \cup Permutations(Ips)
=============================================================================
