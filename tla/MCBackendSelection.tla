------------------------- MODULE MCBackendSelection -------------------------
(***************************************************************************)
(* Two services, one with two endpoints: in one pool, in the two pools of  *)
(* one tier, and in two tiers.                                             *)
(***************************************************************************)
EXTENDS BackendSelection

MCPosition == [a1 |-> 1, a2 |-> 2, b1 |-> 3]
MCService == [e \in DOMAIN MCPosition |-> IF e = "b1" THEN "b" ELSE "a"]
At(priority, capacity) == [priority |-> priority, capacity |-> capacity]
Result(endpoints, a, b) == [endpoints |-> endpoints, plan |-> [a |-> a, b |-> b]]
MCResults == {Result(DOMAIN MCPosition, At(1, 2), At(1, 1)),
              Result(DOMAIN MCPosition, At(1, 1), At(1, 0)),
              Result({"a1", "b1"}, At(2, 1), At(1, 0))}
MCFilters == {DOMAIN MCPosition, {"a2", "b1"}}
=============================================================================
