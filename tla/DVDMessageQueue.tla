-------------------------- MODULE DVDMessageQueue --------------------------
(***************************************************************************)
(* CDVDMessageQueue (xbmc/cores/dvdplayer/DVDMessageQueue.cpp): the list   *)
(* of messages between the demuxing thread of the video player and one of  *)
(* its decoding threads.  An operator is what one critical section of      *)
(* m_section does to the queue; the modules that own queues hold them as   *)
(* values of their own variables.                                          *)
(*                                                                         *)
(* Left out: the time stamps behind GetTimeSize and GetLevel, m_bEmptied   *)
(* (it only suppresses a warning) and m_bCaching (never set).              *)
(***************************************************************************)
EXTENDS Integers, Selection

CONSTANTS
    Msg,      \* the CDVDMsg objects
    Packet,   \* those that are DEMUXER_PACKETs
    iSize     \* size of the data of each packet

ASSUME DVDMessageQueueAssumption ==
    /\ Packet \subseteq Msg
    /\ iSize \in [Packet -> Nat \ {0}]

Item == [msg : Msg, priority : Nat]

(* The list is kept as the code keeps it: the next message is the last.    *)
(* One thread waits for m_hEvent, which is reset by hand: a flag will do.  *)
NewQueue == [list |-> <<>>, m_iDataSize |-> 0, m_bAbortRequest |-> FALSE,
             m_bInitialized |-> FALSE, m_hEvent |-> FALSE]

InitQueue(q) ==
    [q EXCEPT !.m_iDataSize = 0, !.m_bAbortRequest = FALSE, !.m_bInitialized = TRUE]

(* Only packets of priority 0 count, when they come and when they go.      *)
DataSize(item) ==
    IF item.msg \in Packet /\ item.priority = 0 THEN iSize[item.msg] ELSE 0

(* Where Put inserts: before the first item that is not less urgent, so    *)
(* that messages of one priority leave first in, first out.                *)
Place(list, priority) ==
    Cardinality({i \in DOMAIN list : list[i].priority < priority}) + 1

Put(q, msg, priority) ==
    LET item == [msg |-> msg, priority |-> priority] IN
    [q EXCEPT !.list = InsertAt(@, Place(@, priority), item),
              !.m_iDataSize = @ + DataSize(item),
              !.m_hEvent = TRUE]

(* The messages are put one after the other.                               *)
PutAll(q, msgs, priority) ==
    LET put[i \in 0 .. Len(msgs)] ==
            IF i = 0 THEN q ELSE Put(put[i - 1], msgs[i], priority)
    IN  put[Len(msgs)]

(* Get finds a message that is urgent enough, takes it, or goes to wait.   *)
Available(q, priority) == q.list # <<>> /\ Last(q.list).priority >= priority

Take(q) ==
    [q EXCEPT !.list = Front(@), !.m_iDataSize = @ - DataSize(Last(q.list))]

ResetBeforeWait(q) == [q EXCEPT !.m_hEvent = FALSE]

(* Flush(DEMUXER_PACKET).  Fault: the size is left.                        *)
PacketItem == [msg : Packet, priority : Nat]
FlushedButSize(q) == [q EXCEPT !.list = Without(@, PacketItem)]
FlushPackets(q) == [q EXCEPT !.list = Without(@, PacketItem), !.m_iDataSize = 0]

Abort(q) == [q EXCEPT !.m_bAbortRequest = TRUE, !.m_hEvent = TRUE]

End(q) ==
    [q EXCEPT !.list = <<>>, !.m_iDataSize = 0,
              !.m_bInitialized = FALSE, !.m_bAbortRequest = FALSE]

(* The messages of a list, and how often one is among them.                *)
Messages(list) == [i \in DOMAIN list |-> list[i].msg]
Occurrences(msgs, m) == Cardinality({i \in DOMAIN msgs : msgs[i] = m})
=============================================================================
