--------------------------- MODULE MCNrfDiscovery ---------------------------
(* A plain group, which the loop visits, and an SCP group, which its own tasks *)
(* refresh.                                                                    *)
EXTENDS NrfDiscovery

CONSTANT p1

OnePlain == <<p1>>
=============================================================================
