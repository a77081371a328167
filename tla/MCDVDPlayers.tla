---------------------------- MODULE MCDVDPlayers ----------------------------
(***************************************************************************)
(* Audio and video, and two barriers that are used again and again: so two *)
(* are on their way at once, in different order in the two queues.  Video  *)
(* gets packets and flush or speed messages as well.                       *)
(***************************************************************************)
EXTENDS DVDPlayers

CONSTANTS audio, video, packet1, packet2, speed, flush, sync1, sync2

AudioVideo == <<audio, video>>
OnlyVideo == {video}
NoMessage == {}
OnePacket == {packet1}
TwoPackets == {packet1, packet2}
OneSpeed == {speed}
OneFlush == {flush}
OneSync == {sync1}
TwoSyncs == {sync1, sync2}
MessagesWithFlush == {packet1, packet2, flush, sync1, sync2}
MessagesWithSpeed == {packet1, speed, sync1, sync2}
PacketSize == [m \in Packet |-> 2]
JustNone == {0}
UpToTwo == 0..2
Packets == Permutations(TwoPackets)
=============================================================================
