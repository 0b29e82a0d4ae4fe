-------------------------- MODULE MCRuntimeControl --------------------------
(* Two appliers (a SIGHUP reload and a gRPC handler), one reader, two        *)
(* upstreams and one SCP profile whose templates come from upstream u1.      *)
EXTENDS RuntimeControl, TLC

CONSTANTS u1, u2, p1, reload, grpc

MCUpstreams == {u1, u2}
MCProfiles == {p1}
MCAppliers == {reload, grpc}

Config(v, f, a, b, p) ==
  [version |-> v, fingerprint |-> f,
   upstreams |-> (u1 :> a @@ u2 :> b), profiles |-> (p1 :> p)]

Profile == [discovery_upstreams |-> {u1}]

MCBootstrap == Config("v1", "f1", "x", "x", Profile)

\* Template change, change of an unrelated upstream, a dropped profile and
\* upstream, a profile without its upstream, a listener change.
MCConfigs ==
  {MCBootstrap,
   Config("v2", "f1", "y", "x", Profile),
   Config("v3", "f1", "x", "y", Profile),
   Config("v4", "f1", "x", None, None),
   Config("v5", "f1", None, "x", Profile),
   Config("v6", "f2", "x", "x", Profile)}

\* SIGHUP reload and gRPC run the same code.
ApplierSymmetry == Permutations(MCAppliers)
=============================================================================
