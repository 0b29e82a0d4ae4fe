CONSTANTS
  None = None
  Procs = {p1, p2}
  Inodes = {1, 2, 3}
SPECIFICATION Spec
INVARIANTS
  OneServer
  ServingReachable
  NoLeftover
PROPERTIES
  ReplacementServes
