SPECIFICATION FairSpec
CONSTANTS
  Senders = {p, d}
  e1 = e1
  e2 = e2
  Envelopes <- TwoEnvelopes
  RowCount <- OneAndTwo
  QueueCap = 1
  RowSizes = {1}
  Thresholds = {2, 3}
  JitterPct = 70
  MaxAttempts = 2
INVARIANTS
  TypeOK
  RowsAccounted
  ObjectsDisjoint
  BufferReturnedOnce
  StrandedOnlyByLateSend
PROPERTIES
  EnvelopeEnds
  WorkerExits
  ImplementsRowDelivery
CHECK_DEADLOCK FALSE
