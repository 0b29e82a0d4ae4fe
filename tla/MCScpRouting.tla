---------------------------- MODULE MCScpRouting ----------------------------
(* Two SCPs that know each other, and two producers, one of them with two     *)
(* addresses; B may also send to root 1 of producer p without discovery.      *)
EXTENDS ScpRouting

CONSTANTS A, B, p, r, i1, i2

MCScps == {A, B}
MCBackends ==
  {[auth |-> p, prefix |-> 1, inst |-> i1, addr |-> 1],
   [auth |-> p, prefix |-> 1, inst |-> i1, addr |-> 2],
   [auth |-> r, prefix |-> 0, inst |-> i2, addr |-> 3],
   [auth |-> A, prefix |-> 1, inst |-> i2, addr |-> 4],
   [auth |-> B, prefix |-> 0, inst |-> i2, addr |-> 5]}
MCAllowed ==
  [n \in MCScps |-> IF n = B THEN {[auth |-> p, prefix |-> 1]}
                    ELSE {[auth |-> B, prefix |-> 1]}]

\* Every combination of target, selectors and hop count, and one of each refusal.
MCHeaders ==
  {h \in Header : h.method = "other" /\ ~h.malformed /\ h.path = "api"}
    \cup {h \in Header : /\ h.target = [auth |-> p, prefix |-> 1] /\ h.hops = 1
                         /\ h.inst = NoInst /\ h.bind = NoInst}
=============================================================================
