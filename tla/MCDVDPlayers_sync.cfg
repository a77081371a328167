CONSTANTS
  audio = audio
  video = video
  packet1 = packet1
  packet2 = packet2
  speed = speed
  flush = flush
  sync1 = sync1
  sync2 = sync2
  Owner = Owner
  None = None
  Players <- AudioVideo
  Speed <- NoMessage
  Served <- OnlyVideo
  Sync <- TwoSyncs
  iSize <- PacketSize
  Msg <- MessagesWithFlush
  Packet <- TwoPackets
  Flush <- OneFlush
  Converge <- UpToTwo
  Expiring <- OneSync
SYMMETRY Packets
SPECIFICATION Spec
CHECK_DEADLOCK FALSE
INVARIANTS RefsAreHolders DataSizeIsSum
PROPERTIES BarrierHolds NothingLeftWhenWaited
