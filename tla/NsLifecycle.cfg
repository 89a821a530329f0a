SPECIFICATION FairSpec
CONSTANTS
  self = self
  a = a
  Self <- self
  Inodes <- TrackedInodes
  Generations = 2
  SocketFds = {3, 4, 5}
  MaxReconciles = 3
INVARIANTS
  TypeOK
  CanceledEntryIsTransient
  PublishedSocketIsOpen
  NoOrphan
PROPERTIES
  CanceledInstanceEnds
CHECK_DEADLOCK FALSE
