SPECIFICATION FairSpec
CONSTANTS
  Keys = {k1, k2}
  NoKey = NoKey
  Names = {"a"}
  SocketCap = 1
  InboxCap = 2
  EventBudget = 1
  MaxChanges = 2
  MaxFaults = 1
INVARIANTS
  TypeOK
  EpochInStep
  StaleIsNoticed
PROPERTIES
  CommitNeverGoesBack
  Settles
  ImplementsResyncCycle
