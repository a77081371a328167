--------------------------- MODULE ActorProtocol ---------------------------
(***************************************************************************)
(* Actor::Protocol and Actor::Message (xbmc/utils/ActorProtocol.cpp) as    *)
(* the audio engine uses them: one port, the clients that send to it, and  *)
(* the thread behind it with the loop of CActiveAESink::Process and        *)
(* CActiveAE::Process.                                                     *)
(*                                                                         *)
(* Messages are recycled.  Who has a pointer to one must release it; one   *)
(* sent synchronously is released by both sides, and the second of them    *)
(* deletes its event and returns it.  A client that waits too long takes   *)
(* an answer that came meanwhile, or sees to it that none is made.         *)
(*                                                                         *)
(* Everything the thread does with a message but answer it, send others or *)
(* keep it for a second look is left out, and so are signals and data.     *)
(***************************************************************************)
EXTENDS Naturals, FiniteSets, Selection

CONSTANTS
    Client,
    Message,    \* bound: all the messages there can be at a time
    NULL,
    MaxQueued,  \* bound: what is sent without waiting only goes to shorter queues
    MaxLost     \* bound: how many messages are forgotten before the thread ends

ASSUME ActorProtocolAssumption ==
    NULL \notin Message /\ MaxQueued \in Nat /\ MaxLost \in Nat

VARIABLES
    message,       \* the fields of each message
    free,          \* in freeMessageQueue, or not made yet
    outMessages, inMessages,
    outEvent,      \* containerOutEvent, the event the thread waits for
    at,            \* where each client is
    msg,           \* the message it sent and waits for, or has received
    retMsg,        \* the answer it has
    thread,        \* where the thread is
    handled,       \* the message the thread has
    dispose,       \* how far Dispose is
    lost           \* messages nobody knows any more

clients == <<at, msg, retMsg>>
queues == <<outMessages, inMessages>>
vars == <<message, free, queues, outEvent, clients, thread, handled, dispose, lost>>

NewMessage ==
    [isSync |-> FALSE, isSyncFini |-> FALSE, isSyncTimeout |-> FALSE,
     replyMessage |-> NULL, event |-> "none"]

SyncMessage == [NewMessage EXCEPT !.isSync = TRUE, !.event = "reset"]

(* One without an event has none that could be deleted; the rest does not  *)
(* matter while it is free, GetMessage sets it all.                        *)
Returned == [NewMessage EXCEPT !.event = "deleted"]

Init ==
    /\ message = [m \in Message |-> Returned]
    /\ free = Message
    /\ outMessages = <<>> /\ inMessages = <<>>
    /\ outEvent = FALSE
    /\ at = [c \in Client |-> "idle"]
    /\ msg = [c \in Client |-> NULL] /\ retMsg = [c \in Client |-> NULL]
    /\ thread = "loop" /\ handled = NULL
    /\ dispose = "no"
    /\ lost = {}

m_bStop == dispose # "no"

-----------------------------------------------------------------------------
(* Messages                                                                *)

(* One that is new and one that is used again cannot be told apart: all    *)
(* fields are set.                                                         *)
Unused == CHOOSE m \in Message : m \in free

GetMessage(fields) ==
    /\ free # {}
    /\ free' = free \ {Unused}
    /\ message' = [message EXCEPT ![Unused] = fields]

(* Fault: whoever is first frees a message that was sent synchronously.    *)
NeverSkips(m) == FALSE
Skips(m) == message[m].isSync /\ ~message[m].isSyncFini

Release(m) ==
    IF Skips(m)
    THEN /\ message' = [message EXCEPT ![m].isSyncFini = TRUE]
         /\ UNCHANGED free
    ELSE /\ message' = [message EXCEPT ![m] = Returned]
         /\ free' = free \cup {m}

Loses(forgotten) ==
    /\ lost' = lost \cup forgotten
    /\ Cardinality(lost') <= MaxLost

-----------------------------------------------------------------------------
(* Clients                                                                 *)

ClientSteps(c, from, to) == at[c] = from /\ at' = [at EXCEPT ![c] = to]

RoomToSend == Len(outMessages) + Len(inMessages) < MaxQueued

(* Nobody sends to a port that is gone, after Dispose.                     *)
SendOutMessageSync(c) ==
    /\ ClientSteps(c, "idle", "sent")
    /\ dispose # "done"
    /\ GetMessage(SyncMessage)
    /\ outMessages' = Append(outMessages, Unused)
    /\ msg' = [msg EXCEPT ![c] = Unused]
    /\ UNCHANGED <<inMessages, outEvent, retMsg, thread, handled, dispose, lost>>

SendOutMessage(c) ==
    /\ ClientSteps(c, "idle", "sent_async")
    /\ RoomToSend /\ dispose # "done"
    /\ GetMessage(NewMessage)
    /\ outMessages' = Append(outMessages, Unused)
    /\ UNCHANGED <<inMessages, outEvent, msg, retMsg, thread, handled, dispose, lost>>

(* Fault: an event that only those see who wait already.                   *)
Pulse == outEvent \/ thread = "waiting"
Raise == TRUE

SetOutEvent(c) ==
    /\ ClientSteps(c, "sent", "waiting") \/ ClientSteps(c, "sent_async", "idle")
    /\ outEvent' = Raise
    /\ UNCHANGED <<message, free, queues, msg, retMsg, thread, handled, dispose, lost>>

WaitReplied(c) ==
    /\ ClientSteps(c, "waiting", "releasing")
    /\ message[msg[c]].event = "set"
    /\ retMsg' = [retMsg EXCEPT ![c] = message[msg[c]].replyMessage]
    /\ message' = [message EXCEPT ![msg[c]].event = "reset"]
    /\ UNCHANGED <<free, queues, outEvent, msg, thread, handled, dispose, lost>>

WaitTimesOut(c) ==
    /\ ClientSteps(c, "waiting", "timed_out")
    /\ message[msg[c]].event # "set"
    /\ UNCHANGED <<message, free, queues, outEvent, msg, retMsg, thread, handled, dispose, lost>>

(* Fault: who is too late does not look for an answer.                     *)
LateAnswerIgnored(m) == NULL
LateAnswer(m) == message[m].replyMessage

TakeAnswerOrGiveUp(c) ==
    /\ ClientSteps(c, "timed_out", "releasing")
    /\ retMsg' = [retMsg EXCEPT ![c] = LateAnswer(msg[c])]
    /\ message' = [message EXCEPT ![msg[c]].isSyncTimeout = retMsg'[c] = NULL]
    /\ UNCHANGED <<free, queues, outEvent, msg, thread, handled, dispose, lost>>

ReleaseSent(c) ==
    /\ \/ ClientSteps(c, "releasing", "answered") /\ retMsg[c] # NULL
       \/ ClientSteps(c, "releasing", "idle") /\ retMsg[c] = NULL
    /\ Release(msg[c])
    /\ msg' = [msg EXCEPT ![c] = NULL]
    /\ UNCHANGED <<queues, outEvent, retMsg, thread, handled, dispose, lost>>

ReleaseAnswer(c) ==
    /\ ClientSteps(c, "answered", "idle")
    /\ Release(retMsg[c])
    /\ retMsg' = [retMsg EXCEPT ![c] = NULL]
    /\ UNCHANGED <<queues, outEvent, msg, thread, handled, dispose, lost>>

ReceiveInMessage(c) ==
    /\ ClientSteps(c, "idle", "received")
    /\ inMessages # <<>>
    /\ msg' = [msg EXCEPT ![c] = Head(inMessages)]
    /\ inMessages' = Tail(inMessages)
    /\ UNCHANGED <<message, free, outMessages, outEvent, retMsg, thread, handled, dispose, lost>>

ReleaseReceived(c) ==
    /\ ClientSteps(c, "received", "idle")
    /\ Release(msg[c])
    /\ msg' = [msg EXCEPT ![c] = NULL]
    /\ UNCHANGED <<queues, outEvent, retMsg, thread, handled, dispose, lost>>

(* CActiveAEStream::Drain sends a buffer back and never releases the       *)
(* message it came with.                                                   *)
ReplyToReceived(c) ==
    /\ ClientSteps(c, "received", "sent_async")
    /\ GetMessage(NewMessage)
    /\ outMessages' = Append(outMessages, Unused)
    /\ Loses({msg[c]})
    /\ msg' = [msg EXCEPT ![c] = NULL]
    /\ UNCHANGED <<inMessages, outEvent, retMsg, thread, handled, dispose>>

-----------------------------------------------------------------------------
(* The thread behind the port                                              *)

ThreadSteps(from, to) == thread = from /\ thread' = to

ReceiveOutMessage ==
    /\ ThreadSteps("loop", "handling")
    /\ ~m_bStop /\ handled = NULL
    /\ outMessages # <<>>
    /\ handled' = Head(outMessages)
    /\ outMessages' = Tail(outMessages)
    /\ UNCHANGED <<message, free, inMessages, outEvent, clients, dispose, lost>>

NothingReceived ==
    /\ ThreadSteps("loop", "not_waiting_yet")
    /\ ~m_bStop /\ handled = NULL
    /\ outMessages = <<>>
    /\ UNCHANGED <<message, free, queues, outEvent, clients, handled, dispose, lost>>

EnterWait ==
    /\ ThreadSteps("not_waiting_yet", "waiting")
    /\ UNCHANGED <<message, free, queues, outEvent, clients, handled, dispose, lost>>

WakeUp ==
    /\ ThreadSteps("waiting", "loop")
    /\ outEvent
    /\ outEvent' = FALSE
    /\ UNCHANGED <<message, free, queues, clients, handled, dispose, lost>>

(* The time is over: the state machine gets a message that says so.        *)
TimesOut ==
    /\ ThreadSteps("waiting", "handling")
    /\ ~outEvent
    /\ GetMessage(NewMessage)
    /\ handled' = Unused
    /\ UNCHANGED <<queues, outEvent, clients, dispose, lost>>

(* m_bStateMachineSelfTrigger: the new state is given the message as well, *)
(* in the next round of the loop.                                          *)
SelfTrigger ==
    /\ ThreadSteps("handling", "loop")
    /\ ~message[handled].isSync
    /\ UNCHANGED <<message, free, queues, outEvent, clients, handled, dispose, lost>>

HandleAgain ==
    /\ ThreadSteps("loop", "handling_again")
    /\ ~m_bStop /\ handled # NULL
    /\ UNCHANGED <<message, free, queues, outEvent, clients, handled, dispose, lost>>

(* PurgeOut: all messages with one signal, DEVICECHANGE, leave the queue;  *)
(* they are not released.                                                  *)
PurgeOut(dropped) ==
    /\ ThreadSteps("handling", "handling_again")
    /\ dropped # {}
    /\ \A m \in dropped : ~message[m].isSync
    /\ outMessages' = Without(outMessages, dropped)
    /\ Loses(dropped)
    /\ UNCHANGED <<message, free, inMessages, outEvent, clients, handled, dispose>>

Handling(to) ==
    \/ ThreadSteps("handling", to)
    \/ ThreadSteps("handling_again", to)

(* Fault: the answer is made whether or not anybody waits for it.          *)
AnyClientWaits(m) == TRUE
StillWaits(m) == ~message[m].isSyncTimeout

(* Reply to a synchronous message: what is done with the lock held.        *)
ReplySync ==
    /\ Handling("replied")
    /\ message[handled].isSync
    /\ StillWaits(handled)
    /\ free # {}
    /\ free' = free \ {Unused}
    /\ message' = [message EXCEPT ![Unused] = NewMessage, ![handled].replyMessage = Unused]
    /\ UNCHANGED <<queues, outEvent, clients, handled, dispose, lost>>

ReplyTooLate ==
    /\ Handling("replied")
    /\ message[handled].isSync
    /\ ~StillWaits(handled)
    /\ UNCHANGED <<message, free, queues, outEvent, clients, handled, dispose, lost>>

ReplySetsEvent ==
    /\ ThreadSteps("replied", "handled")
    /\ message' = [message EXCEPT ![handled].event = "set"]
    /\ UNCHANGED <<free, queues, outEvent, clients, handled, dispose, lost>>

(* Not every message is answered in every state.                           *)
NoReply ==
    /\ Handling("handled")
    /\ UNCHANGED <<message, free, queues, outEvent, clients, handled, dispose, lost>>

(* Reply to any other message sends one the other way; the state machine   *)
(* sends such messages unasked as well.                                    *)
SendInMessage ==
    /\ Handling("handled") \/ (thread = "handled" /\ UNCHANGED thread)
    /\ thread = "handled" \/ ~message[handled].isSync
    /\ RoomToSend
    /\ GetMessage(NewMessage)
    /\ inMessages' = Append(inMessages, Unused)
    /\ UNCHANGED <<outMessages, outEvent, clients, handled, dispose, lost>>

ReleaseHandled ==
    /\ ThreadSteps("handled", "loop")
    /\ Release(handled)
    /\ handled' = NULL
    /\ UNCHANGED <<queues, outEvent, clients, dispose, lost>>

(* The loop ends; a message kept for a second look is forgotten.           *)
Exit ==
    /\ ThreadSteps("loop", "gone")
    /\ m_bStop
    /\ lost' = lost \cup ({handled} \ {NULL})
    /\ handled' = NULL
    /\ UNCHANGED <<message, free, queues, outEvent, clients, dispose>>

-----------------------------------------------------------------------------
(* Dispose: m_bStop, Set, StopThread, Purge                                *)

DisposeSteps(from, to) == dispose = from /\ dispose' = to

StopThread ==
    /\ DisposeSteps("no", "stopping")
    /\ UNCHANGED <<message, free, queues, outEvent, clients, thread, handled, lost>>

SetEventToStop ==
    /\ DisposeSteps("stopping", "joining")
    /\ outEvent' = TRUE
    /\ UNCHANGED <<message, free, queues, clients, thread, handled, lost>>

ThreadEnded ==
    /\ DisposeSteps("joining", "purging")
    /\ thread = "gone"
    /\ UNCHANGED <<message, free, queues, outEvent, clients, thread, handled, lost>>

(* Receive and Release in one: in between nobody but a client that waits   *)
(* for this very message can do anything with it, that is release it.      *)
PurgeOne ==
    /\ dispose = "purging" /\ UNCHANGED dispose
    /\ \/ /\ inMessages # <<>>
          /\ Release(Head(inMessages))
          /\ inMessages' = Tail(inMessages)
          /\ UNCHANGED outMessages
       \/ /\ inMessages = <<>> /\ outMessages # <<>>
          /\ Release(Head(outMessages))
          /\ outMessages' = Tail(outMessages)
          /\ UNCHANGED inMessages
    /\ UNCHANGED <<outEvent, clients, thread, handled, lost>>

Purged ==
    /\ DisposeSteps("purging", "done")
    /\ inMessages = <<>> /\ outMessages = <<>>
    /\ UNCHANGED <<message, free, queues, outEvent, clients, thread, handled, lost>>

-----------------------------------------------------------------------------

Sends(c) == \E m \in free : SendOutMessageSync(c) \/ SendOutMessage(c)

GoesOn(c) ==
    \/ SetOutEvent(c) \/ WaitReplied(c) \/ TakeAnswerOrGiveUp(c)
    \/ ReleaseSent(c) \/ ReleaseAnswer(c)
    \/ ReleaseReceived(c) \/ \E m \in free : ReplyToReceived(c)

ClientStep(c) == Sends(c) \/ GoesOn(c) \/ WaitTimesOut(c) \/ ReceiveInMessage(c)

Runs ==
    \/ ReceiveOutMessage \/ NothingReceived \/ EnterWait \/ WakeUp
    \/ SelfTrigger \/ HandleAgain
    \/ \E dropped \in SUBSET ToSet(outMessages) : PurgeOut(dropped)
    \/ SendInMessage \/ ReplySync \/ ReplyTooLate \/ ReplySetsEvent \/ NoReply
    \/ ReleaseHandled \/ Exit

ThreadStep == Runs \/ TimesOut

Disposes == SetEventToStop \/ ThreadEnded \/ PurgeOne \/ Purged

Next ==
    \/ \E c \in Client : ClientStep(c)
    \/ ThreadStep
    \/ StopThread \/ Disposes

(* All threads run; that of the port need never find its time over.  A      *)
(* client receives now and then, and a state machine sends only so much    *)
(* for one message.                                                        *)
Fairness ==
    /\ \A c \in Client : WF_vars(GoesOn(c) \/ WaitTimesOut(c)) /\ SF_vars(ReceiveInMessage(c))
    /\ WF_vars(Runs) /\ SF_vars(ReleaseHandled)
    /\ WF_vars(Disposes)

Spec == Init /\ [][Next]_vars /\ Fairness

-----------------------------------------------------------------------------
(* Properties                                                              *)

(* Types.                                                                  *)
TypeOK ==
    /\ message \in [Message -> [isSync : BOOLEAN, isSyncFini : BOOLEAN, isSyncTimeout : BOOLEAN,
                                replyMessage : Message \cup {NULL},
                                event : {"none", "reset", "set", "deleted"}]]
    /\ free \subseteq Message /\ lost \subseteq Message
    /\ outMessages \in Seq(Message) /\ inMessages \in Seq(Message)
    /\ outEvent \in BOOLEAN
    /\ at \in [Client -> {"idle", "sent", "sent_async", "waiting", "timed_out", "releasing",
                         "answered", "received"}]
    /\ msg \in [Client -> Message \cup {NULL}] /\ retMsg \in [Client -> Message \cup {NULL}]
    /\ thread \in {"loop", "not_waiting_yet", "waiting", "handling", "handling_again", "replied",
                   "handled", "gone"}
    /\ handled \in Message \cup {NULL}
    /\ dispose \in {"no", "stopping", "joining", "purging", "done"}

(* Who has a pointer to m, each counted as often as it has one: the queues, *)
(* the thread, a client, a client that has not taken its answer yet.        *)
InQueue(q, m) == {i \in DOMAIN q : q[i] = m}
Waits(c) == at[c] \in {"sent", "waiting", "timed_out"}

Holders(m) ==
    UNION { {<<"out", i>> : i \in InQueue(outMessages, m)},
            {<<"in", i>> : i \in InQueue(inMessages, m)},
            {<<"msg", c>> : c \in {c \in Client : msg[c] = m}},
            {<<"ret", c>> : c \in {c \in Client : retMsg[c] = m}},
            {<<"answer", c>> :
               c \in {c \in Client : Waits(c) /\ message[msg[c]].replyMessage = m}},
            {<<"thread", i>> : i \in {i \in {1} : handled = m}},
            {<<"lost", i>> : i \in {i \in {1} : m \in lost}} }

(* A message is free exactly when nobody has a pointer to it; two have one  *)
(* only if it was sent synchronously and none of them released it.  So      *)
(* nobody reads, answers or releases a message that was given to another,   *)
(* and none leaks but where the code forgets one.                           *)
ReferencesCounted ==
    \A m \in Message :
        Cardinality(Holders(m)) = IF m \in free THEN 0 ELSE IF Skips(m) THEN 2 ELSE 1

(* Every message is used again some time, whether it was answered, answered *)
(* too late, purged or never looked at, unless it is lost or was sent to a  *)
(* port that nobody serves any more.                                        *)
MessagesComeBack ==
    \A m \in Message :
        m \notin free ~> m \in free \cup lost \/ dispose = "done"
=============================================================================
