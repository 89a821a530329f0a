SPECIFICATION FairSpec
CONSTANTS
  Sockets = {s1}
  DecoderIds = {1, 2}
  RowCap = 2
  DoneChanSize = 1
  MaxRows = 1
  MaxPolls = 2
PROPERTIES
  CycleEnds
  RowsDelivered
CHECK_DEADLOCK FALSE
