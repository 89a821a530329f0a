SPECIFICATION Spec
CONSTANTS
  Self <- self
  self = self
  a = a
  Inodes <- TrackedInodes
  Generations = 2
  SocketFds = {3,4,5}
  MaxReconciles = 3
INVARIANTS
  CancelIsReachable
CHECK_DEADLOCK FALSE
