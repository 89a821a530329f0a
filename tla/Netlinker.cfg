SPECIFICATION FairSpec
CONSTANTS
  Decoders = {d1, d2}
  MaxPackets = 4
  DoneChanSize = 1
INVARIANTS
  TypeOK
  DoneAfterAllDecoded
  DoneSignalledOnce
  NoLostDone
PROPERTIES
  EveryDumpSignalled
  PipelineEnds
  ImplementsDumpService
CHECK_DEADLOCK FALSE
