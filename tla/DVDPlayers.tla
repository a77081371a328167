----------------------------- MODULE DVDPlayers -----------------------------
(***************************************************************************)
(* CDVDPlayer and the threads of its stream players (DVDPlayer.cpp,        *)
(* DVDPlayerAudio.cpp, DVDPlayerVideo.cpp under xbmc/cores/dvdplayer): how *)
(* they open, feed, flush, synchronize and close each other through their  *)
(* message queues, and the barrier CDVDMsgGeneralSynchronize with which    *)
(* they do it (DVDMessage.cpp).                                            *)
(*                                                                         *)
(* The thread of CDVDPlayer, the owner, is the only one that puts messages *)
(* into the queues, but for a player that puts a barrier back that the     *)
(* others did not reach in time.  Messages are counted references: refs    *)
(* is m_refs, and 0 means that the object does not exist.                  *)
(*                                                                         *)
(* A barrier is passed when as many sources have reached it as there are   *)
(* references to it, or when its own time is over (Expire).                *)
(***************************************************************************)
EXTENDS DVDMessageQueue

CONSTANTS
    Players,   \* the stream players, in the order messages are sent to them
    Owner,     \* SYNCSOURCE_OWNER
    Speed,     \* PLAYER_SETSPEED messages
    Flush,     \* GENERAL_FLUSH messages
    Served,    \* bound: the players that get packets and these messages
    Converge,  \* bound: what GetConvergeCount of a video codec may return
    Sync,      \* GENERAL_SYNCHRONIZE messages
    Expiring,  \* bound: those whose own time may be over
    None       \* no message, no player

Player == {Players[i] : i \in DOMAIN Players}
SYNCSOURCE_ALL == Player \cup {Owner}
SYNCSOURCE_AUDIO == {Players[1]}

ASSUME DVDPlayersAssumption ==
    /\ Players \in Seq(Player) /\ Players # <<>>
    /\ \A i, j \in DOMAIN Players : Players[i] = Players[j] => i = j
    /\ Owner \notin Player /\ Served \subseteq Player /\ Expiring \subseteq Sync
    /\ Msg = Packet \cup Speed \cup Flush \cup Sync
    /\ Sync \cap (Packet \cup Speed \cup Flush) = {}
    /\ Packet \cap Speed = {} /\ Flush \cap (Packet \cup Speed) = {}
    /\ Converge \subseteq Nat
    /\ None \notin Msg \cup Player
    /\ IsFiniteSet(Sync)

VARIABLES
    queue,     \* m_messageQueue of each player
    m_refs,    \* of each message
    sources, reached,   \* of each barrier
    timeout,   \* of each barrier: its own time is over
    pc,        \* where each player is
    item,      \* the message in its hands, with the priority Get returned
    paused,    \* its m_speed is DVD_PLAYSPEED_PAUSE
    m_started, \* it has shown something since it was opened or flushed
    m_packets, \* packets it keeps for the case that the codec is flushed
    owner,     \* where the owner is
    m_bStop    \* the owner was told to end

vars == <<queue, m_refs, sources, reached, timeout, pc, item, paused, m_started,
          m_packets, owner, m_bStop>>
barrierVars == <<sources, reached, timeout>>
playStateVars == <<paused, m_started, m_packets>>
playerVars == <<pc, item, playStateVars>>

Running == [pc |-> "run", sync |-> None, todo |-> <<>>, priority |-> 0, wait |-> FALSE,
            hard |-> FALSE, closing |-> None]

Nothing == [msg |-> None, priority |-> 0]
pMsg(p) == item[p].msg

Init ==
    /\ queue = [p \in Player |-> NewQueue]
    /\ m_refs = [m \in Msg |-> 0]
    /\ sources = [s \in Sync |-> {}] /\ reached = [s \in Sync |-> {}]
    /\ timeout = [s \in Sync |-> FALSE]
    /\ pc = [p \in Player |-> "none"] /\ item = [p \in Player |-> Nothing]
    /\ paused = [p \in Player |-> FALSE] /\ m_started = [p \in Player |-> FALSE]
    /\ m_packets = [p \in Player |-> <<>>]
    /\ owner = Running
    /\ m_bStop = FALSE

-----------------------------------------------------------------------------
(* References and barriers                                                 *)

(* m_refs goes down to refs, reached becomes by.  A barrier without        *)
(* references is no more.                                                  *)
SetReferences(refs, by) ==
    LET gone(s) == refs[s] = 0 IN
    /\ m_refs' = refs
    /\ sources' = [s \in Sync |-> IF gone(s) THEN {} ELSE sources[s]]
    /\ reached' = [s \in Sync |-> IF gone(s) THEN {} ELSE by[s]]
    /\ timeout' = [s \in Sync |-> timeout[s] /\ ~gone(s)]

OneLess(m) == [m_refs EXCEPT ![m] = @ - 1]

(* What is left of refs when some messages are released.                   *)
Less(refs, msgs) == [m \in Msg |-> refs[m] - Occurrences(msgs, m)]

(* Everybody who has a reference is there.  Fault: all but one.            *)
AllButOneReached(s, by) == Cardinality(by) >= m_refs[s] - 1
AllReached(s, by) == Cardinality(by) >= m_refs[s]

(* Its own time may be over at any moment, which those at it notice.       *)
AtBarrier(s) == {p \in Player : pc[p] = "sync" /\ pMsg(p) = s}
                \cup {o \in {Owner} : owner.pc = "sync" /\ owner.sync = s}

Expire(s) ==
    /\ s \in Expiring /\ AtBarrier(s) # {} /\ ~timeout[s]
    /\ timeout' = [timeout EXCEPT ![s] = TRUE]
    /\ UNCHANGED <<queue, m_refs, sources, reached, playerVars, owner, m_bStop>>

-----------------------------------------------------------------------------
(* A stream player                                                         *)

(* A player that pauses takes urgent messages only, once it has started.   *)
Priority(p) == IF paused[p] /\ m_started[p] THEN 1 ELSE 0

(* One pass of the loop in Get, with the lock.  A player that waits in it  *)
(* makes the next pass when it is woken, and as well when its time is over:  *)
(* it then leaves Get and calls it again.                                  *)
InGet(p) == pc[p] \in {"get", "wait"}

GetAborted(p) ==
    /\ InGet(p) /\ queue[p].m_bAbortRequest
    /\ pc' = [pc EXCEPT ![p] = "exit"]
    /\ UNCHANGED <<queue, m_refs, barrierVars, item, playStateVars, owner, m_bStop>>

(* The reference of the list becomes the player's.                         *)
GetMessage(p) ==
    /\ InGet(p) /\ ~queue[p].m_bAbortRequest /\ Available(queue[p], Priority(p))
    /\ item' = [item EXCEPT ![p] = Last(queue[p].list)]
    /\ queue' = [queue EXCEPT ![p] = Take(@)]
    /\ pc' = [pc EXCEPT ![p] = "handle"]
    /\ UNCHANGED <<m_refs, barrierVars, playStateVars, owner, m_bStop>>

GetWaits(p) ==
    /\ InGet(p) /\ ~queue[p].m_bAbortRequest /\ ~Available(queue[p], Priority(p))
    /\ queue' = [queue EXCEPT ![p] = ResetBeforeWait(@)]
    /\ pc' = [pc EXCEPT ![p] = "wait"]
    /\ UNCHANGED <<m_refs, barrierVars, item, playStateVars, owner, m_bStop>>

(* The last act of a pass of its loop: the message is released.            *)
Done(p, refs, by) ==
    /\ SetReferences(refs, by)
    /\ item' = [item EXCEPT ![p] = Nothing]
    /\ pc' = [pc EXCEPT ![p] = "get"]

Release(p, by) == Done(p, OneLess(pMsg(p)), by)

HandleSpeed(p) ==
    /\ pc[p] = "handle" /\ pMsg(p) \in Speed
    /\ paused' = [paused EXCEPT ![p] = ~@]
    /\ Release(p, reached)
    /\ UNCHANGED <<queue, m_started, m_packets, owner, m_bStop>>

(* GENERAL_FLUSH.  Fault: the packets are kept.                            *)
KeepPackets(p) == m_packets[p]
ClearPackets(p) == <<>>
HandleFlush(p) ==
    /\ pc[p] = "handle" /\ pMsg(p) \in Flush
    /\ m_started' = [m_started EXCEPT ![p] = FALSE]
    /\ m_packets' = [m_packets EXCEPT ![p] = ClearPackets(p)]
    /\ Done(p, Less(OneLess(pMsg(p)), m_packets[p]), reached)
    /\ UNCHANGED <<queue, paused, owner, m_bStop>>

(* A packet is decoded and, when the codec converges over some packets,    *)
(* kept, for which the oldest goes.  The audio player keeps none.          *)
Kept(p, count) ==
    LET all == Append(m_packets[p], pMsg(p)) IN
    IF count = 0 THEN m_packets[p] ELSE IF Len(all) > count THEN Tail(all) ELSE all

RefsKept(p, count) ==
    IF count = 0 THEN OneLess(pMsg(p))
    ELSE IF Len(m_packets[p]) < count THEN m_refs
    ELSE OneLess(Head(Append(m_packets[p], pMsg(p))))

ConvergeCount(p) == IF p = Players[1] THEN {0} ELSE Converge

HandlePacket(p, count) ==
    /\ pc[p] = "handle" /\ pMsg(p) \in Packet /\ count \in ConvergeCount(p)
    /\ m_packets' = [m_packets EXCEPT ![p] = Kept(p, count)]
    /\ \E shown \in {m_started[p], TRUE} : m_started' = [m_started EXCEPT ![p] = shown]
    /\ Done(p, RefsKept(p, count), reached)
    /\ UNCHANGED <<queue, paused, owner, m_bStop>>

(* VC_FLUSHED or VC_REOPEN, the decoder lost its state: the packets kept   *)
(* are put back before everything else.  Bound: once.                      *)
ReturnPackets(p, count) ==
    /\ pc[p] = "handle" /\ pMsg(p) \in Packet /\ count \in ConvergeCount(p)
    /\ Kept(p, count) # <<>> /\ item[p].priority < 10
    /\ queue' = [queue EXCEPT ![p] = PutAll(@, Kept(p, count), item[p].priority + 10)]
    /\ m_packets' = [m_packets EXCEPT ![p] = <<>>]
    /\ Done(p, RefsKept(p, count), reached)
    /\ UNCHANGED <<paused, m_started, owner, m_bStop>>

(* CDVDMsgGeneralSynchronize::Wait(100, source): the player is there,      *)
(* unless it is none of the sources, and waits if it has to.               *)
Arrived(p) == [reached EXCEPT ![pMsg(p)] = @ \cup ({p} \cap sources[pMsg(p)])]

MayPass(p) == p \notin sources[pMsg(p)] \/ AllReached(pMsg(p), Arrived(p)[pMsg(p)])

ReachBarrier(p) ==
    /\ pc[p] = "handle" /\ pMsg(p) \in Sync /\ ~MayPass(p)
    /\ reached' = Arrived(p)
    /\ pc' = [pc EXCEPT ![p] = "sync"]
    /\ UNCHANGED <<queue, m_refs, sources, timeout, item, playStateVars, owner, m_bStop>>

(* It passes, at once or after its wait, and releases the message.         *)
PassBarrier(p) ==
    /\ \/ pc[p] = "handle" /\ pMsg(p) \in Sync /\ MayPass(p)
       \/ pc[p] = "sync" /\ (MayPass(p) \/ timeout[pMsg(p)])
    /\ Release(p, Arrived(p))
    /\ UNCHANGED <<queue, playStateVars, owner, m_bStop>>

(* After 100 ms the barrier is put back as an urgent message.  It stays    *)
(* reached.  The list's new reference and the player's, released at once,  *)
(* cancel out: in between, the others only see one reference too many and  *)
(* wait on, and the Release tells them.                                    *)
(* Fault: the barrier is not reached any more.                             *)
ReachedNoMore(s, p) == reached[s] \ {p}
StillReached(s, p) == reached[s]
PriorityOfReturned == 1

ReturnBarrier(p) ==
    LET s == pMsg(p) IN
    /\ pc[p] = "sync"
    /\ queue' = [queue EXCEPT ![p] = Put(@, s, PriorityOfReturned)]
    /\ reached' = [reached EXCEPT ![s] = StillReached(s, p)]
    /\ item' = [item EXCEPT ![p] = Nothing]
    /\ pc' = [pc EXCEPT ![p] = "get"]
    /\ UNCHANGED <<m_refs, sources, timeout, playStateVars, owner, m_bStop>>

-----------------------------------------------------------------------------
(* The owner                                                               *)

IsOpen(p) == queue[p].m_bInitialized

(* A message made by the owner for p; a queue that is not initialized      *)
(* releases it at once, which leaves nothing.                              *)
Send(p, m, priority) ==
    /\ owner.pc = "run" /\ ~m_bStop
    /\ m_refs[m] = 0 /\ queue[p].m_bInitialized
    /\ m_refs' = [m_refs EXCEPT ![m] = 1]
    /\ queue' = [queue EXCEPT ![p] = Put(@, m, priority)]
    /\ UNCHANGED <<barrierVars, playerVars, owner, m_bStop>>

SendPacket(p, m) == p \in Served /\ m \in Packet /\ Send(p, m, 0)
SetSpeed(p, m) == p \in Served /\ m \in Speed /\ Send(p, m, 1)

(* While the player is closed its m_speed is set at once, for the next     *)
(* stream.                                                                 *)
SetSpeedClosed(p) ==
    /\ p \in Served /\ Speed # {}
    /\ owner.pc = "run" /\ ~m_bStop /\ ~IsOpen(p)
    /\ paused' = [paused EXCEPT ![p] = ~@]
    /\ UNCHANGED <<queue, m_refs, barrierVars, pc, item, m_started, m_packets, owner, m_bStop>>

OpenStream(p) ==
    /\ owner.pc = "run" /\ ~m_bStop /\ ~queue[p].m_bInitialized
    /\ queue' = [queue EXCEPT ![p] = InitQueue(@)]
    /\ pc' = [pc EXCEPT ![p] = "get"]
    /\ m_started' = [m_started EXCEPT ![p] = FALSE]
    /\ m_packets' = [m_packets EXCEPT ![p] = <<>>]
    /\ SetReferences(Less(m_refs, m_packets[p]), reached)
    /\ UNCHANGED <<item, paused, owner, m_bStop>>

(* A new barrier (any free one), which the owner holds while it sends it.  *)
NewBarrier(s, from) ==
    /\ m_refs[s] = 0
    /\ s = CHOOSE free \in Sync : m_refs[free] = 0
    /\ m_refs' = [m_refs EXCEPT ![s] = 1]
    /\ sources' = [sources EXCEPT ![s] = from]
    /\ UNCHANGED <<reached, timeout>>

OpenPlayers == Only(Players, {p \in Player : IsOpen(p)})

(* For the players that are open, and the owner goes on.  Bound: one       *)
(* barrier is kept for the operations that wait.                           *)
BarriersLeft == \E s, t \in Sync : s # t /\ m_refs[s] = 0 /\ m_refs[t] = 0

SynchronizePlayers(s, from) ==
    /\ owner.pc = "run" /\ ~m_bStop /\ BarriersLeft
    /\ NewBarrier(s, from)
    /\ owner' = [Running EXCEPT !.pc = "send", !.sync = s, !.todo = OpenPlayers]
    /\ UNCHANGED <<queue, playerVars, m_bStop>>

(* The queues lose their packets, and the owner waits until the players    *)
(* have nothing in their hands either: an urgent barrier.  FlushBuffers,   *)
(* the hard way, tells them as well to forget what they keep.              *)
FlushFirst(players, hard) ==
    LET p == Head(players)
        told == hard /\ p \in Served /\ IsOpen(p) IN
    /\ queue' = [queue EXCEPT ![p] = FlushPackets(@)]
    /\ SetReferences(Less(m_refs, Messages(Only(queue[p].list, PacketItem))), reached)
    /\ owner' = [Running EXCEPT !.pc = IF told THEN "tell" ELSE "flush",
                                !.todo = IF told THEN players ELSE Tail(players),
                                !.hard = hard]
    /\ UNCHANGED <<playerVars, m_bStop>>

TriggerResync == owner.pc = "run" /\ ~m_bStop /\ FlushFirst(Players, FALSE)

FlushBuffers ==
    /\ owner.pc = "run" /\ ~m_bStop
    /\ Cardinality({f \in Flush : m_refs[f] = 0}) >= Cardinality(Served)
    /\ FlushFirst(Players, TRUE)

FlushNext == owner.pc = "flush" /\ owner.todo # <<>> /\ FlushFirst(owner.todo, owner.hard)

PutFlush(f) ==
    /\ owner.pc = "tell" /\ m_refs[f] = 0
    /\ queue' = [queue EXCEPT ![Head(owner.todo)] = Put(@, f, 1)]
    /\ m_refs' = [m_refs EXCEPT ![f] = 1]
    /\ owner' = [owner EXCEPT !.pc = "flush", !.todo = Tail(@)]
    /\ UNCHANGED <<barrierVars, playerVars, m_bStop>>

SynchronizeFlushed(s) ==
    /\ owner.pc = "flush" /\ owner.todo = <<>>
    /\ NewBarrier(s, SYNCSOURCE_ALL)
    /\ owner' = [Running EXCEPT !.pc = "send", !.sync = s, !.todo = OpenPlayers,
                                !.priority = 1, !.wait = TRUE, !.hard = owner.hard]
    /\ UNCHANGED <<queue, playerVars, m_bStop>>

(* CloseStream: WaitUntilEmpty if the player plays and its buffers are to  *)
(* be played to the end; then the thread is ended.                         *)
WaitUntilEmpty(p, s) ==
    /\ owner.pc = "run" /\ IsOpen(p) /\ ~paused[p]
    /\ NewBarrier(s, SYNCSOURCE_ALL)
    /\ owner' = [Running EXCEPT !.pc = "send", !.sync = s, !.todo = <<p>>,
                                !.wait = TRUE, !.closing = p]
    /\ UNCHANGED <<queue, playerVars, m_bStop>>

CloseStream(p) ==
    /\ owner.pc = "run" /\ IsOpen(p)
    /\ queue' = [queue EXCEPT ![p] = Abort(@)]
    /\ owner' = [Running EXCEPT !.pc = "join", !.closing = p]
    /\ UNCHANGED <<m_refs, barrierVars, playerVars, m_bStop>>

(* One more player gets the barrier: Put(msg->Acquire(), priority).  A     *)
(* queue that is not open would release it at once, so it is not sent to.  *)
SendBarrier ==
    /\ owner.pc = "send" /\ owner.todo # <<>>
    /\ queue' = [queue EXCEPT ![Head(owner.todo)] = Put(@, owner.sync, owner.priority)]
    /\ m_refs' = [m_refs EXCEPT ![owner.sync] = @ + 1]
    /\ owner' = [owner EXCEPT !.todo = Tail(@)]
    /\ UNCHANGED <<barrierVars, playerVars, m_bStop>>

ReleaseSent ==
    /\ owner.pc = "send" /\ owner.todo = <<>> /\ ~owner.wait
    /\ SetReferences(OneLess(owner.sync), reached)
    /\ owner' = Running
    /\ UNCHANGED <<queue, playerVars, m_bStop>>

(* Wait(abort, 0), which waits 100 ms again and again.                     *)
OwnerReaches ==
    /\ owner.pc = "send" /\ owner.todo = <<>> /\ owner.wait
    /\ reached' = [reached EXCEPT ![owner.sync] = @ \cup {Owner}]
    /\ owner' = [owner EXCEPT !.pc = "sync"]
    /\ UNCHANGED <<queue, m_refs, sources, timeout, playerVars, m_bStop>>

AfterWait == IF owner.closing = None THEN Running ELSE [owner EXCEPT !.pc = "abort", !.sync = None]

OwnerPasses ==
    /\ owner.pc = "sync"
    /\ AllReached(owner.sync, reached[owner.sync]) \/ timeout[owner.sync]
    /\ SetReferences(OneLess(owner.sync), reached)
    /\ owner' = AfterWait
    /\ UNCHANGED <<queue, playerVars, m_bStop>>

(* Another thread stops the player.  The owner begins nothing more but to  *)
(* close; if it waits in TriggerResync, it gives up.  (WaitUntilEmpty      *)
(* watches the abort request of the queue, which only the owner makes.)    *)
StoppedWhileWaiting ==
    /\ owner.pc = "sync" /\ owner.closing = None
    /\ m_bStop' = TRUE
    /\ SetReferences(OneLess(owner.sync), reached)
    /\ owner' = Running
    /\ UNCHANGED <<queue, playerVars>>

Emptied ==
    /\ owner.pc = "abort"
    /\ queue' = [queue EXCEPT ![owner.closing] = Abort(@)]
    /\ owner' = [owner EXCEPT !.pc = "join"]
    /\ UNCHANGED <<m_refs, barrierVars, playerVars, m_bStop>>

(* StopThread has waited for the thread, End releases what is left.        *)
(* Fault: the thread is not waited for.                                    *)
NotJoined(p) == TRUE
Joined(p) == pc[p] = "exit"

EndQueue ==
    LET p == owner.closing IN
    /\ owner.pc = "join" /\ Joined(p)
    /\ queue' = [queue EXCEPT ![p] = End(@)]
    /\ SetReferences(Less(m_refs, Messages(queue[p].list)), reached)
    /\ pc' = [pc EXCEPT ![p] = "none"]
    /\ owner' = Running
    /\ UNCHANGED <<item, playStateVars, m_bStop>>

-----------------------------------------------------------------------------
PlayerStep(p) ==
    \/ GetAborted(p) \/ GetMessage(p) \/ GetWaits(p)
    \/ HandleSpeed(p) \/ HandleFlush(p)
    \/ \E count \in Converge \cup {0} : HandlePacket(p, count) \/ ReturnPackets(p, count)
    \/ ReachBarrier(p) \/ PassBarrier(p) \/ ReturnBarrier(p)

(* What the owner does within an operation                                 *)
OwnerStep ==
    \/ FlushNext \/ (\E f \in Flush : PutFlush(f)) \/ (\E s \in Sync : SynchronizeFlushed(s))
    \/ SendBarrier \/ ReleaseSent \/ OwnerReaches \/ OwnerPasses
    \/ Emptied \/ EndQueue

NewOperation ==
    \/ \E p \in Player, m \in Msg : SendPacket(p, m) \/ SetSpeed(p, m)
    \/ \E p \in Player : OpenStream(p) \/ CloseStream(p) \/ SetSpeedClosed(p)
    \/ \E s \in Sync, from \in {SYNCSOURCE_ALL, SYNCSOURCE_AUDIO} : SynchronizePlayers(s, from)
    \/ TriggerResync \/ FlushBuffers
    \/ \E p \in Player, s \in Sync : WaitUntilEmpty(p, s)

Next ==
    \/ \E p \in Player : PlayerStep(p)
    \/ OwnerStep
    \/ NewOperation
    \/ \E s \in Sync : Expire(s)
    \/ StoppedWhileWaiting

(* Every thread is scheduled.  Nothing is assumed of Expire and of stops:  *)
(* a barrier must not need its own timeout.                                *)
Fairness == WF_vars(OwnerStep) /\ \A p \in Player : WF_vars(PlayerStep(p))

Spec == Init /\ [][Next]_vars /\ Fairness

-----------------------------------------------------------------------------
(* Properties                                                              *)

(* Types of the queues, the barriers, the players and the owner. *)
TypeOK ==
    /\ queue \in [Player -> [list : Seq(Item), m_iDataSize : Nat, m_bAbortRequest : BOOLEAN,
                             m_bInitialized : BOOLEAN, m_hEvent : BOOLEAN]]
    /\ m_refs \in [Msg -> Nat]
    /\ sources \in [Sync -> SUBSET SYNCSOURCE_ALL]
    /\ reached \in [Sync -> SUBSET SYNCSOURCE_ALL]
    /\ timeout \in [Sync -> BOOLEAN]
    /\ pc \in [Player -> {"none", "get", "wait", "handle", "sync", "exit"}]
    /\ item \in [Player -> Item \cup {Nothing}]
    /\ paused \in [Player -> BOOLEAN] /\ m_started \in [Player -> BOOLEAN]
    /\ m_packets \in [Player -> Seq(Packet)]
    /\ owner \in [pc : {"run", "flush", "tell", "send", "sync", "abort", "join"},
                  sync : Sync \cup {None}, todo : Seq(Player), priority : {0, 1},
                  wait : BOOLEAN, hard : BOOLEAN, closing : Player \cup {None}]
    /\ m_bStop \in BOOLEAN

(* Where a message is.                                                     *)
Holding(m) ==
    {p \in Player : pMsg(p) = m} \cup {o \in {Owner} : owner.sync = m}

PlacesAt(p, m) ==
    {<<p, "list", i>> : i \in {i \in DOMAIN queue[p].list : queue[p].list[i].msg = m}}
    \cup {<<p, "kept", i>> : i \in {i \in DOMAIN m_packets[p] : m_packets[p][i] = m}}

Places(m) ==
    {<<h, "hands", 0>> : h \in Holding(m)} \cup UNION {PlacesAt(p, m) : p \in Player}

(* The reference count of a message is the number of its places: in the    *)
(* lists, in what the players keep, in their hands and the owner's.  So    *)
(* nobody has a message that is freed, and none is lost when queues are    *)
(* flushed, ended, or get back a barrier or packets.                       *)
RefsAreHolders == \A m \in Msg : m_refs[m] = Cardinality(Places(m))

(* The sizes of the items in a list, added up.                             *)
SumOfSizes(list) ==
    LET sum[i \in 0 .. Len(list)] == IF i = 0 THEN 0 ELSE sum[i - 1] + DataSize(list[i])
    IN  sum[Len(list)]

(* m_iDataSize, by which the owner knows a full or an empty queue, is the  *)
(* size of the packets that count, whatever was flushed or put back.       *)
DataSizeIsSum ==
    \A p \in Player : queue[p].m_iDataSize = SumOfSizes(queue[p].list)

Holders(s) ==
    Holding(s) \cup {p \in Player : Occurrences(Messages(queue[p].list), s) > 0}

Passes(p) == PassBarrier(p) /\ p \in sources[pMsg(p)]

AllAtBarrier(s, by) == timeout[s] \/ m_bStop \/ Holders(s) \subseteq by

(* "Waits until all threads waiting, released the object": counting is as  *)
(* good as asking everybody.  While its time is not over and the owner has *)
(* not given up, a source passes a barrier only when everybody that has a  *)
(* reference to it has reached it, even those that put it back since.      *)
BarrierHolds ==
    [][/\ \A p \in Player : Passes(p) => AllAtBarrier(pMsg(p), Arrived(p)[pMsg(p)])
       /\ OwnerPasses => AllAtBarrier(owner.sync, reached[owner.sync])]_vars

Left(p) == (ToSet(Messages(queue[p].list)) \cup {pMsg(p)}) \ {None}

(* What the owner waits for.  WaitUntilEmpty: the player has taken and     *)
(* handled all that was sent before.  TriggerResync and FlushBuffers:      *)
(* "make sure players are properly flushed", no packet of before is left,  *)
(* in any hands, and after FlushBuffers none is kept to be returned later. *)
NothingLeftWhenWaited ==
    [][OwnerPasses /\ ~timeout[owner.sync] =>
          IF owner.closing # None THEN Left(owner.closing) \subseteq {owner.sync}
          ELSE \A p \in Player :
                 /\ Left(p) \cap Packet = {}
                 /\ owner.hard /\ IsOpen(p) => m_packets[p] = <<>>]_vars

SomebodyPauses == \E p \in Player : IsOpen(p) /\ paused[p]

(* The owner's operations end, without the timeouts of the barriers:       *)
(* TriggerResync in any case, also with paused players and when players    *)
(* wait at different barriers; WaitUntilEmpty if nobody pauses; the        *)
(* threads it joins end.                                                   *)
OwnerReturns ==
    owner.pc # "run" ~> owner.pc = "run" \/ (owner.closing # None /\ SomebodyPauses)

(* Every barrier comes to its end, be it that players wait at different    *)
(* ones, once the owner sends no more urgent messages (which may overtake  *)
(* a barrier for ever) and nobody pauses.                                  *)
BarriersEnd ==
    <>[](owner = Running /\ ~SomebodyPauses) => \A s \in Sync : []<>(m_refs[s] = 0)
=============================================================================
