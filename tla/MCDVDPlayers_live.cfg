CONSTANTS
  audio = audio
  video = video
  packet1 = packet1
  packet2 = packet2
  speed = speed
  flush = flush
  sync1 = sync1
  sync2 = sync2
  Owner = Owner
  None = None
  Players <- AudioVideo
  Speed <- OneSpeed
  Served <- OnlyVideo
  Sync <- TwoSyncs
  iSize <- PacketSize
  Msg <- MessagesWithSpeed
  Packet <- OnePacket
  Flush <- NoMessage
  Converge <- JustNone
  Expiring <- NoMessage
SPECIFICATION Spec
CHECK_DEADLOCK FALSE
PROPERTIES OwnerReturns BarriersEnd
