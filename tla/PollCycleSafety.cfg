SPECIFICATION Spec
CONSTANTS
  Sockets = {s1, s2}
  DecoderIds = {1}
  RowCap = 2
  DoneChanSize = 1
  MaxRows = 1
  MaxPolls = 2
SYMMETRY SocketSymmetry
INVARIANTS
  TypeOK
  RowInOnePlace
  CountIsOutstanding
  PollEndComplete
  LossNeedsTimeout
  EnvelopeBounded
CHECK_DEADLOCK FALSE
