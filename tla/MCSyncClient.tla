---------------------------- MODULE MCSyncClient ----------------------------
(* A bootstrap version that cannot be restored through the API, two versions  *)
(* that can be applied, one that is rejected.                                 *)
EXTENDS SyncClient

CONSTANTS boot, v1, v2, bad

MCVersions == {boot, v1, v2, bad}
MCVerdict ==
  [v \in MCVersions |-> CASE v = bad -> "rejected" [] v = boot -> "restart"
                          [] OTHER -> "applied"]
=============================================================================
