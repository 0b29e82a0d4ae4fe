CONSTANTS
  u1 = u1
  u2 = u2
  p1 = p1
  reload = reload
  grpc = grpc
  None = None
  UpstreamNames <- MCUpstreams
  ProfileNames <- MCProfiles
  Appliers <- MCAppliers
  Readers = {r1}
  Configs <- MCConfigs
  Bootstrap <- MCBootstrap
  MaxGeneration = 3
SPECIFICATION Spec
SYMMETRY ApplierSymmetry
INVARIANTS
  ReadersSeeHistory
  InheritedStateCurrent
PROPERTIES
  ImplementsRegister
