------------------------ MODULE ActorProtocolProofs ------------------------
(***************************************************************************)
(* The references to the messages of a port are counted right, for any     *)
(* number of clients and messages and however many are lost.               *)
(*                                                                         *)
(* A message is sent by at most one client that has not released it, and   *)
(* it is in at most one other place.  Both at a time is what isSync with   *)
(* isSyncFini not set says.  The hard part is the answer: the thread makes *)
(* one only if the client will look for it, and that is known from fields  *)
(* that the two write in turn.                                             *)
(***************************************************************************)
EXTENDS ActorProtocol, SelectionProofs, FiniteSetTheorems

IsSender(c) == at[c] \in {"sent", "waiting", "timed_out", "releasing"}

Sent == {m \in Message : \E c \in Client : IsSender(c) /\ msg[c] = m}
Awaited == {m \in Message : \E c \in Client : Waits(c) /\ msg[c] = m}

(* The places where a message is that is not, or not only, with its sender. *)
Out == ToSet(outMessages)
In == ToSet(inMessages)
Received == {m \in Message : \E c \in Client : at[c] = "received" /\ msg[c] = m}
Taken == {m \in Message : \E c \in Client : retMsg[c] = m}
Answers == {m \in Message : \E c \in Client : Waits(c) /\ message[msg[c]].replyMessage = m}
InHand == {handled} \ {NULL}

Held == Out \cup In \cup Received \cup Taken \cup Answers \cup InHand \cup lost

ClientInv ==
    \A c \in Client :
        /\ at[c] \in {"idle", "sent_async", "answered"} => msg[c] = NULL
        /\ at[c] \notin {"idle", "sent_async", "answered"} => msg[c] \in Message
        /\ at[c] = "answered" => retMsg[c] \in Message
        /\ at[c] \notin {"answered", "releasing"} => retMsg[c] = NULL
        /\ IsSender(c) => message[msg[c]].isSync
        /\ Waits(c) => /\ ~message[msg[c]].isSyncTimeout
                       /\ message[msg[c]].event = "set" => message[msg[c]].replyMessage # NULL

ThreadInv ==
    /\ thread \in {"handling", "handling_again", "replied", "handled"} => handled \in Message
    /\ thread \in {"not_waiting_yet", "waiting", "gone"} => handled = NULL
    /\ thread = "loop" /\ handled # NULL => ~message[handled].isSync
    /\ thread = "replied" => message[handled].isSync

(* Each list of references has a message once.                             *)
OnceEach ==
    /\ Injective(outMessages) /\ Injective(inMessages)
    /\ \A c, d \in Client : c # d /\ msg[c] = msg[d] => msg[c] = NULL
    /\ \A c, d \in Client : c # d /\ retMsg[c] = retMsg[d] => retMsg[c] = NULL
    /\ \A c, d \in Client :
          c # d /\ Waits(c) /\ Waits(d) =>
             message[msg[c]].replyMessage # message[msg[d]].replyMessage
             \/ message[msg[c]].replyMessage = NULL

Unanswered(m) == message[m].replyMessage = NULL /\ message[m].event # "set"

(* What the thread may find a synchronous message to be.                   *)
SyncInv ==
    \A m \in Message :
        message[m].isSync =>
            /\ m \notin In \cup Received \cup Taken \cup Answers \cup lost
            /\ m \in Out => Unanswered(m)
            /\ handled = m /\ thread \in {"handling", "handling_again"} => Unanswered(m)
            /\ m \in Awaited \/ message[m].isSyncTimeout \/ message[m].replyMessage # NULL
            /\ handled = m /\ thread = "replied" =>
                  message[m].isSyncTimeout \/ message[m].replyMessage # NULL

OnePlace ==
    /\ Out \cap (In \cup Received \cup Taken \cup Answers \cup InHand \cup lost) = {}
    /\ In \cap (Received \cup Taken \cup Answers \cup InHand \cup lost) = {}
    /\ Received \cap (Taken \cup Answers \cup InHand \cup lost) = {}
    /\ Taken \cap (Answers \cup InHand \cup lost) = {}
    /\ Answers \cap (InHand \cup lost) = {}
    /\ InHand \cap lost = {}

CountInv ==
    /\ OnePlace
    /\ free = Message \ (Sent \cup Held)
    /\ \A m \in Message : Skips(m) <=> m \in Sent /\ m \in Held
    /\ \A m \in free : ~message[m].isSync

RefInv == TypeOK /\ ClientInv /\ ThreadInv /\ OnceEach /\ SyncInv /\ CountInv

-----------------------------------------------------------------------------
(* Types, and what the operators that several actions share do             *)

Fields == [isSync : BOOLEAN, isSyncFini : BOOLEAN, isSyncTimeout : BOOLEAN,
           replyMessage : Message \cup {NULL}, event : {"none", "reset", "set", "deleted"}]

LEMMA NewFields ==
  /\ NewMessage \in Fields /\ SyncMessage \in Fields /\ Returned \in Fields
  /\ ~NewMessage.isSync /\ ~NewMessage.isSyncFini /\ NewMessage.replyMessage = NULL
  /\ SyncMessage.isSync /\ ~SyncMessage.isSyncFini /\ ~SyncMessage.isSyncTimeout
  /\ SyncMessage.replyMessage = NULL /\ SyncMessage.event = "reset"
  /\ ~Returned.isSync /\ ~Returned.isSyncFini /\ Returned.replyMessage = NULL
BY DEF NewMessage, SyncMessage, Returned, Fields

LEMMA NullIsNoMessage == NULL \notin Message
BY ActorProtocolAssumption

LEMMA Typed ==
  TypeOK <=>
    /\ message \in [Message -> Fields]
    /\ free \subseteq Message /\ lost \subseteq Message
    /\ outMessages \in Seq(Message) /\ inMessages \in Seq(Message)
    /\ outEvent \in BOOLEAN
    /\ at \in [Client -> {"idle", "sent", "sent_async", "waiting", "timed_out", "releasing",
                         "answered", "received"}]
    /\ msg \in [Client -> Message \cup {NULL}] /\ retMsg \in [Client -> Message \cup {NULL}]
    /\ thread \in {"loop", "not_waiting_yet", "waiting", "handling", "handling_again", "replied",
                   "handled", "gone"}
    /\ handled \in Message \cup {NULL}
    /\ dispose \in {"no", "stopping", "joining", "purging", "done"}
BY DEF TypeOK, Fields

(* The message that is taken is one nobody has, and is the only one that   *)
(* changes.                                                                *)
LEMMA GetsMessage ==
  ASSUME TypeOK, NEW fields \in Fields, GetMessage(fields)
  PROVE  /\ Unused \in free /\ Unused \in Message
         /\ free' = free \ {Unused}
         /\ message' \in [Message -> Fields]
         /\ message'[Unused] = fields
         /\ \A m \in Message : m # Unused => message'[m] = message[m]
<1>1. message \in [Message -> Fields] /\ free \subseteq Message
  BY Typed
<1>2. Unused \in free /\ Unused \in Message
  BY <1>1 DEF GetMessage, Unused
<1> HIDE DEF Unused
<1>3. QED BY <1>1, <1>2 DEF GetMessage

(* Released, a message is free, or the other of the two that have it must  *)
(* release it still.                                                       *)
LEMMA Releases ==
  ASSUME TypeOK, NEW m \in Message, Release(m)
  PROVE  /\ message' \in [Message -> Fields] /\ free' \subseteq Message
         /\ \A x \in Message : x # m => message'[x] = message[x]
         /\ Skips(m) => /\ free' = free
                        /\ message'[m].isSync /\ message'[m].isSyncFini
                        /\ message'[m].isSyncTimeout = message[m].isSyncTimeout
                        /\ message'[m].replyMessage = message[m].replyMessage
                        /\ message'[m].event = message[m].event
         /\ ~Skips(m) => free' = free \cup {m} /\ message'[m] = Returned
<1>1. message \in [Message -> Fields] /\ free \subseteq Message
  BY Typed
<1>2. CASE Skips(m)
  <2>1. message' = [message EXCEPT ![m].isSyncFini = TRUE] /\ free' = free
    BY <1>2 DEF Release
  <2>2. message[m].isSync
    BY <1>2 DEF Skips
  <2>3. QED BY <1>1, <1>2, <2>1, <2>2 DEF Fields
<1>3. CASE ~Skips(m)
  <2>1. message' = [message EXCEPT ![m] = Returned] /\ free' = free \cup {m}
    BY <1>3 DEF Release
  <2>2. QED BY <1>1, <1>3, <2>1, NewFields
<1>4. QED BY <1>2, <1>3

LEMMA EventIs ==
  ASSUME TypeOK, NEW m \in Message, NEW e \in {"reset", "set"},
         message' = [message EXCEPT ![m].event = e]
  PROVE  /\ message' \in [Message -> Fields]
         /\ \A x \in Message : x # m => message'[x] = message[x]
         /\ message'[m].isSync = message[m].isSync
         /\ message'[m].isSyncFini = message[m].isSyncFini
         /\ message'[m].isSyncTimeout = message[m].isSyncTimeout
         /\ message'[m].replyMessage = message[m].replyMessage
         /\ message'[m].event = e
BY Typed DEF Fields

LEMMA TimeoutIs ==
  ASSUME TypeOK, NEW m \in Message, NEW b \in BOOLEAN,
         message' = [message EXCEPT ![m].isSyncTimeout = b]
  PROVE  /\ message' \in [Message -> Fields]
         /\ \A x \in Message : x # m => message'[x] = message[x]
         /\ message'[m].isSync = message[m].isSync
         /\ message'[m].isSyncFini = message[m].isSyncFini
         /\ message'[m].isSyncTimeout = b
         /\ message'[m].replyMessage = message[m].replyMessage
         /\ message'[m].event = message[m].event
BY Typed DEF Fields

(* An answer is a message nobody has, too.                                 *)
LEMMA Replies ==
  ASSUME TypeOK, ReplySync, handled \in Message, handled \notin free
  PROVE  /\ Unused \in free /\ Unused \in Message /\ Unused # handled
         /\ free' = free \ {Unused}
         /\ message' \in [Message -> Fields]
         /\ message'[Unused] = NewMessage
         /\ \A x \in Message : x # Unused /\ x # handled => message'[x] = message[x]
         /\ message'[handled].isSync = message[handled].isSync
         /\ message'[handled].isSyncFini = message[handled].isSyncFini
         /\ message'[handled].isSyncTimeout = message[handled].isSyncTimeout
         /\ message'[handled].replyMessage = Unused
         /\ message'[handled].event = message[handled].event
<1>1. message \in [Message -> Fields] /\ free \subseteq Message
  BY Typed
<1>2. Unused \in free /\ Unused \in Message /\ Unused # handled
  BY <1>1 DEF ReplySync, Unused
<1> HIDE DEF Unused
<1>3. /\ message' = [message EXCEPT ![Unused] = NewMessage, ![handled].replyMessage = Unused]
      /\ free' = free \ {Unused}
  BY DEF ReplySync
<1>4. QED BY <1>1, <1>2, <1>3, NewFields DEF Fields

-----------------------------------------------------------------------------
(* Steps by which no message changes hands                                 *)

SamePlaces ==
    /\ Sent' = Sent /\ Awaited' = Awaited
    /\ Out' = Out /\ In' = In /\ Received' = Received /\ Taken' = Taken
    /\ Answers' = Answers /\ InHand' = InHand /\ lost' = lost

(* What a client does with itself does not matter as long as it has the    *)
(* same right to the message it has.                                       *)
SameRoles ==
    \A c \in Client : /\ IsSender(c)' <=> IsSender(c)
                      /\ Waits(c)' <=> Waits(c)
                      /\ at'[c] = "received" <=> at[c] = "received"

(* The thread finds an answer where it may find none only if there is none *)
(* to make, and has replied only if it did or nobody waits.                *)
StillRight ==
    /\ thread' \in {"handling", "handling_again"} =>
          \/ thread \in {"handling", "handling_again"}
          \/ thread = "loop" /\ (handled # NULL => ~message[handled].isSync)
    /\ thread' = "replied" =>
          \/ thread = "replied"
          \/ message[handled].isSyncTimeout \/ message[handled].replyMessage # NULL

LEMMA QuietStep ==
  ASSUME RefInv, SameRoles, StillRight,
         message' = message, free' = free, outMessages' = outMessages, inMessages' = inMessages,
         msg' = msg, retMsg' = retMsg, handled' = handled, lost' = lost
  PROVE  OnceEach' /\ SyncInv' /\ CountInv'
<1>1. Sent' = Sent
  BY DEF SameRoles, Sent
<1>2. Awaited' = Awaited
  BY DEF SameRoles, Awaited
<1>3. Received' = Received
  BY DEF SameRoles, Received
<1>4. Answers' = Answers
  BY DEF SameRoles, Answers
<1>5. Out' = Out /\ In' = In /\ Taken' = Taken /\ InHand' = InHand
  BY DEF Out, In, Taken, InHand
<1>6. SamePlaces
  BY <1>1, <1>2, <1>3, <1>4, <1>5 DEF SamePlaces
<1>7. OnceEach'
  BY DEF RefInv, OnceEach, SameRoles
<1>8. CountInv'
  BY <1>6 DEF RefInv, CountInv, OnePlace, Held, SamePlaces, Skips
<1>9. SyncInv'
  BY <1>6, NullIsNoMessage DEF RefInv, SyncInv, SamePlaces, Unanswered, StillRight
<1>10. QED BY <1>7, <1>8, <1>9

LEMMA SetOutEventKeeps == ASSUME RefInv, NEW c \in Client, SetOutEvent(c) PROVE RefInv'
<1>1. /\ message' = message /\ free' = free /\ lost' = lost /\ handled' = handled
      /\ outMessages' = outMessages /\ inMessages' = inMessages
      /\ msg' = msg /\ retMsg' = retMsg
      /\ thread' = thread /\ dispose' = dispose
  BY DEF SetOutEvent, ClientSteps, Raise, queues, clients
<1>2. TypeOK'
  BY <1>1 DEF RefInv, TypeOK, SetOutEvent, ClientSteps, Raise
<1>3. ClientInv'
  BY <1>1 DEF RefInv, ClientInv, IsSender, Waits, TypeOK, SetOutEvent, ClientSteps, Raise
<1>4. ThreadInv' /\ StillRight
  BY <1>1 DEF RefInv, ThreadInv, StillRight
<1>5. SameRoles
  BY <1>1 DEF SameRoles, IsSender, Waits, RefInv, TypeOK, SetOutEvent, ClientSteps, Raise
<1>6. QED
  BY <1>1, <1>2, <1>3, <1>4, <1>5, QuietStep DEF RefInv

LEMMA WaitTimesOutKeeps == ASSUME RefInv, NEW c \in Client, WaitTimesOut(c) PROVE RefInv'
<1>1. /\ message' = message /\ free' = free /\ lost' = lost /\ handled' = handled
      /\ outMessages' = outMessages /\ inMessages' = inMessages
      /\ msg' = msg /\ retMsg' = retMsg
      /\ thread' = thread /\ dispose' = dispose /\ outEvent' = outEvent
  BY DEF WaitTimesOut, ClientSteps, queues, clients
<1>2. TypeOK'
  BY <1>1 DEF RefInv, TypeOK, WaitTimesOut, ClientSteps
<1>3. ClientInv'
  BY <1>1 DEF RefInv, ClientInv, IsSender, Waits, TypeOK, WaitTimesOut, ClientSteps
<1>4. ThreadInv' /\ StillRight
  BY <1>1 DEF RefInv, ThreadInv, StillRight
<1>5. SameRoles
  BY <1>1 DEF SameRoles, IsSender, Waits, RefInv, TypeOK, WaitTimesOut, ClientSteps
<1>6. QED
  BY <1>1, <1>2, <1>3, <1>4, <1>5, QuietStep DEF RefInv

LEMMA NothingReceivedKeeps == ASSUME RefInv, NothingReceived PROVE RefInv'
<1>1. /\ message' = message /\ free' = free /\ lost' = lost /\ handled' = handled
      /\ outMessages' = outMessages /\ inMessages' = inMessages
      /\ msg' = msg /\ retMsg' = retMsg
      /\ at' = at /\ dispose' = dispose /\ outEvent' = outEvent
  BY DEF NothingReceived, ThreadSteps, queues, clients
<1>2. TypeOK'
  BY <1>1 DEF RefInv, TypeOK, NothingReceived, ThreadSteps
<1>3. ClientInv'
  BY <1>1 DEF RefInv, ClientInv, IsSender, Waits
<1>4. ThreadInv' /\ StillRight
  BY <1>1, NullIsNoMessage DEF RefInv, ThreadInv, StillRight, TypeOK, NothingReceived,
       ThreadSteps
<1>5. SameRoles
  BY <1>1 DEF SameRoles, IsSender, Waits
<1>6. QED
  BY <1>1, <1>2, <1>3, <1>4, <1>5, QuietStep DEF RefInv

LEMMA EnterWaitKeeps == ASSUME RefInv, EnterWait PROVE RefInv'
<1>1. /\ message' = message /\ free' = free /\ lost' = lost /\ handled' = handled
      /\ outMessages' = outMessages /\ inMessages' = inMessages
      /\ msg' = msg /\ retMsg' = retMsg
      /\ at' = at /\ dispose' = dispose /\ outEvent' = outEvent
  BY DEF EnterWait, ThreadSteps, queues, clients
<1>2. TypeOK'
  BY <1>1 DEF RefInv, TypeOK, EnterWait, ThreadSteps
<1>3. ClientInv'
  BY <1>1 DEF RefInv, ClientInv, IsSender, Waits
<1>4. ThreadInv' /\ StillRight
  BY <1>1, NullIsNoMessage DEF RefInv, ThreadInv, StillRight, TypeOK, EnterWait, ThreadSteps
<1>5. SameRoles
  BY <1>1 DEF SameRoles, IsSender, Waits
<1>6. QED
  BY <1>1, <1>2, <1>3, <1>4, <1>5, QuietStep DEF RefInv

LEMMA WakeUpKeeps == ASSUME RefInv, WakeUp PROVE RefInv'
<1>1. /\ message' = message /\ free' = free /\ lost' = lost /\ handled' = handled
      /\ outMessages' = outMessages /\ inMessages' = inMessages
      /\ msg' = msg /\ retMsg' = retMsg
      /\ at' = at /\ dispose' = dispose
  BY DEF WakeUp, ThreadSteps, queues, clients
<1>2. TypeOK'
  BY <1>1 DEF RefInv, TypeOK, WakeUp, ThreadSteps
<1>3. ClientInv'
  BY <1>1 DEF RefInv, ClientInv, IsSender, Waits
<1>4. ThreadInv' /\ StillRight
  BY <1>1, NullIsNoMessage DEF RefInv, ThreadInv, StillRight, TypeOK, WakeUp, ThreadSteps
<1>5. SameRoles
  BY <1>1 DEF SameRoles, IsSender, Waits
<1>6. QED
  BY <1>1, <1>2, <1>3, <1>4, <1>5, QuietStep DEF RefInv

LEMMA SelfTriggerKeeps == ASSUME RefInv, SelfTrigger PROVE RefInv'
<1>1. /\ message' = message /\ free' = free /\ lost' = lost /\ handled' = handled
      /\ outMessages' = outMessages /\ inMessages' = inMessages
      /\ msg' = msg /\ retMsg' = retMsg
      /\ at' = at /\ dispose' = dispose /\ outEvent' = outEvent
  BY DEF SelfTrigger, ThreadSteps, queues, clients
<1>2. TypeOK'
  BY <1>1 DEF RefInv, TypeOK, SelfTrigger, ThreadSteps
<1>3. ClientInv'
  BY <1>1 DEF RefInv, ClientInv, IsSender, Waits
<1>4. ThreadInv' /\ StillRight
  BY <1>1, NullIsNoMessage DEF RefInv, ThreadInv, StillRight, TypeOK, SelfTrigger, ThreadSteps
<1>5. SameRoles
  BY <1>1 DEF SameRoles, IsSender, Waits
<1>6. QED
  BY <1>1, <1>2, <1>3, <1>4, <1>5, QuietStep DEF RefInv

LEMMA HandleAgainKeeps == ASSUME RefInv, HandleAgain PROVE RefInv'
<1>1. /\ message' = message /\ free' = free /\ lost' = lost /\ handled' = handled
      /\ outMessages' = outMessages /\ inMessages' = inMessages
      /\ msg' = msg /\ retMsg' = retMsg
      /\ at' = at /\ dispose' = dispose /\ outEvent' = outEvent
  BY DEF HandleAgain, ThreadSteps, queues, clients
<1>2. TypeOK'
  BY <1>1 DEF RefInv, TypeOK, HandleAgain, ThreadSteps
<1>3. ClientInv'
  BY <1>1 DEF RefInv, ClientInv, IsSender, Waits
<1>4. ThreadInv' /\ StillRight
  BY <1>1, NullIsNoMessage DEF RefInv, ThreadInv, StillRight, TypeOK, HandleAgain, ThreadSteps
<1>5. SameRoles
  BY <1>1 DEF SameRoles, IsSender, Waits
<1>6. QED
  BY <1>1, <1>2, <1>3, <1>4, <1>5, QuietStep DEF RefInv

LEMMA ReplyTooLateKeeps == ASSUME RefInv, ReplyTooLate PROVE RefInv'
<1>1. /\ message' = message /\ free' = free /\ lost' = lost /\ handled' = handled
      /\ outMessages' = outMessages /\ inMessages' = inMessages
      /\ msg' = msg /\ retMsg' = retMsg
      /\ at' = at /\ dispose' = dispose /\ outEvent' = outEvent
  BY DEF ReplyTooLate, ThreadSteps, Handling, StillWaits, queues, clients
<1>2. TypeOK'
  BY <1>1 DEF RefInv, TypeOK, ReplyTooLate, ThreadSteps, Handling, StillWaits
<1>3. ClientInv'
  BY <1>1 DEF RefInv, ClientInv, IsSender, Waits
<1>4. ThreadInv' /\ StillRight
  BY <1>1, NullIsNoMessage DEF RefInv, ThreadInv, StillRight, TypeOK, ReplyTooLate,
       ThreadSteps, Handling, StillWaits
<1>5. SameRoles
  BY <1>1 DEF SameRoles, IsSender, Waits
<1>6. QED
  BY <1>1, <1>2, <1>3, <1>4, <1>5, QuietStep DEF RefInv

LEMMA NoReplyKeeps == ASSUME RefInv, NoReply PROVE RefInv'
<1>1. /\ message' = message /\ free' = free /\ lost' = lost /\ handled' = handled
      /\ outMessages' = outMessages /\ inMessages' = inMessages
      /\ msg' = msg /\ retMsg' = retMsg
      /\ at' = at /\ dispose' = dispose /\ outEvent' = outEvent
  BY DEF NoReply, ThreadSteps, Handling, queues, clients
<1>2. TypeOK'
  BY <1>1 DEF RefInv, TypeOK, NoReply, ThreadSteps, Handling
<1>3. ClientInv'
  BY <1>1 DEF RefInv, ClientInv, IsSender, Waits
<1>4. ThreadInv' /\ StillRight
  BY <1>1, NullIsNoMessage DEF RefInv, ThreadInv, StillRight, TypeOK, NoReply, ThreadSteps,
       Handling
<1>5. SameRoles
  BY <1>1 DEF SameRoles, IsSender, Waits
<1>6. QED
  BY <1>1, <1>2, <1>3, <1>4, <1>5, QuietStep DEF RefInv

LEMMA StopThreadKeeps == ASSUME RefInv, StopThread PROVE RefInv'
<1>1. /\ message' = message /\ free' = free /\ lost' = lost /\ handled' = handled
      /\ outMessages' = outMessages /\ inMessages' = inMessages
      /\ msg' = msg /\ retMsg' = retMsg
      /\ at' = at /\ thread' = thread /\ outEvent' = outEvent
  BY DEF StopThread, DisposeSteps, queues, clients
<1>2. TypeOK'
  BY <1>1 DEF RefInv, TypeOK, StopThread, DisposeSteps
<1>3. ClientInv'
  BY <1>1 DEF RefInv, ClientInv, IsSender, Waits
<1>4. ThreadInv' /\ StillRight
  BY <1>1 DEF RefInv, ThreadInv, StillRight
<1>5. SameRoles
  BY <1>1 DEF SameRoles, IsSender, Waits
<1>6. QED
  BY <1>1, <1>2, <1>3, <1>4, <1>5, QuietStep DEF RefInv

LEMMA SetEventToStopKeeps == ASSUME RefInv, SetEventToStop PROVE RefInv'
<1>1. /\ message' = message /\ free' = free /\ lost' = lost /\ handled' = handled
      /\ outMessages' = outMessages /\ inMessages' = inMessages
      /\ msg' = msg /\ retMsg' = retMsg
      /\ at' = at /\ thread' = thread
  BY DEF SetEventToStop, DisposeSteps, queues, clients
<1>2. TypeOK'
  BY <1>1 DEF RefInv, TypeOK, SetEventToStop, DisposeSteps
<1>3. ClientInv'
  BY <1>1 DEF RefInv, ClientInv, IsSender, Waits
<1>4. ThreadInv' /\ StillRight
  BY <1>1 DEF RefInv, ThreadInv, StillRight
<1>5. SameRoles
  BY <1>1 DEF SameRoles, IsSender, Waits
<1>6. QED
  BY <1>1, <1>2, <1>3, <1>4, <1>5, QuietStep DEF RefInv

LEMMA ThreadEndedKeeps == ASSUME RefInv, ThreadEnded PROVE RefInv'
<1>1. /\ message' = message /\ free' = free /\ lost' = lost /\ handled' = handled
      /\ outMessages' = outMessages /\ inMessages' = inMessages
      /\ msg' = msg /\ retMsg' = retMsg
      /\ at' = at /\ thread' = thread /\ outEvent' = outEvent
  BY DEF ThreadEnded, DisposeSteps, queues, clients
<1>2. TypeOK'
  BY <1>1 DEF RefInv, TypeOK, ThreadEnded, DisposeSteps
<1>3. ClientInv'
  BY <1>1 DEF RefInv, ClientInv, IsSender, Waits
<1>4. ThreadInv' /\ StillRight
  BY <1>1 DEF RefInv, ThreadInv, StillRight
<1>5. SameRoles
  BY <1>1 DEF SameRoles, IsSender, Waits
<1>6. QED
  BY <1>1, <1>2, <1>3, <1>4, <1>5, QuietStep DEF RefInv

LEMMA PurgedKeeps == ASSUME RefInv, Purged PROVE RefInv'
<1>1. /\ message' = message /\ free' = free /\ lost' = lost /\ handled' = handled
      /\ outMessages' = outMessages /\ inMessages' = inMessages
      /\ msg' = msg /\ retMsg' = retMsg
      /\ at' = at /\ thread' = thread /\ outEvent' = outEvent
  BY DEF Purged, DisposeSteps, queues, clients
<1>2. TypeOK'
  BY <1>1 DEF RefInv, TypeOK, Purged, DisposeSteps
<1>3. ClientInv'
  BY <1>1 DEF RefInv, ClientInv, IsSender, Waits
<1>4. ThreadInv' /\ StillRight
  BY <1>1 DEF RefInv, ThreadInv, StillRight
<1>5. SameRoles
  BY <1>1 DEF SameRoles, IsSender, Waits
<1>6. QED
  BY <1>1, <1>2, <1>3, <1>4, <1>5, QuietStep DEF RefInv

-----------------------------------------------------------------------------
(* Steps that take a message nobody has                                    *)

LEMMA FreeIsNowhere ==
  ASSUME RefInv, NEW m \in free
  PROVE  /\ m \in Message /\ m # NULL /\ m \notin Sent /\ m \notin Awaited /\ m \notin Held
         /\ ~message[m].isSync
         /\ \A c \in Client : msg[c] # m /\ retMsg[c] # m
         /\ \A c \in Client : Waits(c) => message[msg[c]].replyMessage # m
<1>1. m \in Message /\ m # NULL /\ m \notin Sent /\ m \notin Held /\ ~message[m].isSync
  BY NullIsNoMessage DEF RefInv, CountInv, TypeOK
<1>2. m \notin Awaited
  BY <1>1 DEF Sent, Awaited, IsSender, Waits
<1>3. \A c \in Client : retMsg[c] # m /\ (Waits(c) => message[msg[c]].replyMessage # m)
  BY <1>1 DEF Held, Taken, Answers
<1>4. \A c \in Client : msg[c] # m
  BY <1>1 DEF Held, Received, Sent, RefInv, ClientInv, TypeOK, IsSender
<1>5. QED BY <1>1, <1>2, <1>3, <1>4

LEMMA SendOutMessageSyncKeeps ==
  ASSUME RefInv, NEW c \in Client, SendOutMessageSync(c) PROVE RefInv'
<1> DEFINE u == Unused
<1>1. /\ at[c] = "idle" /\ at' = [at EXCEPT ![c] = "sent"]
      /\ msg' = [msg EXCEPT ![c] = u] /\ outMessages' = Append(outMessages, u)
      /\ inMessages' = inMessages /\ outEvent' = outEvent /\ retMsg' = retMsg
      /\ thread' = thread /\ handled' = handled /\ dispose' = dispose /\ lost' = lost
  BY DEF SendOutMessageSync, ClientSteps
<1>2. /\ u \in free /\ u \in Message /\ free' = free \ {u}
      /\ message' \in [Message -> Fields] /\ message'[u] = SyncMessage
      /\ \A m \in Message : m # u => message'[m] = message[m]
  BY GetsMessage, NewFields DEF SendOutMessageSync, RefInv
<1> HIDE DEF u
<1>3. TypeOK'
  BY <1>1, <1>2 DEF RefInv, TypeOK, Fields
<1>4. \A d \in Client : d # c => msg'[d] = msg[d] /\ msg[d] # u /\ at'[d] = at[d]
  BY <1>1, <1>2, FreeIsNowhere DEF RefInv, TypeOK
<1>5. msg'[c] = u /\ at'[c] = "sent"
  BY <1>1 DEF RefInv, TypeOK
<1>6. \A d \in Client : d # c =>
         /\ IsSender(d)' <=> IsSender(d)
         /\ Waits(d)' <=> Waits(d)
         /\ Waits(d) => /\ msg[d] \in Message
                        /\ message'[msg'[d]] = message[msg[d]]
  BY <1>2, <1>4 DEF RefInv, ClientInv, IsSender, Waits
<1>7. ~IsSender(c) /\ ~Waits(c) /\ IsSender(c)' /\ Waits(c)'
  BY <1>1, <1>5 DEF IsSender, Waits
<1>8. /\ Sent' = Sent \cup {u} /\ Awaited' = Awaited \cup {u}
      /\ Received' = Received /\ Answers' = Answers
  <2>1. Sent' = Sent \cup {u}
    BY <1>2, <1>4, <1>5, <1>6, <1>7 DEF Sent
  <2>2. Awaited' = Awaited \cup {u}
    BY <1>2, <1>4, <1>5, <1>6, <1>7 DEF Awaited
  <2>3. Received' = Received
    BY <1>1, <1>4, <1>5 DEF Received
  <2>4. Answers' = Answers
    BY <1>2, <1>5, <1>6, <1>7, NewFields, NullIsNoMessage DEF Answers
  <2>5. QED BY <2>1, <2>2, <2>3, <2>4
<1>9. /\ Out' = Out \cup {u}
      /\ In' = In /\ Taken' = Taken /\ InHand' = InHand
  <2>1. Out' = Out \cup {u}
    BY <1>1, <1>2, Appended DEF Out, RefInv, TypeOK
  <2>2. QED BY <1>1, <2>1 DEF In, Taken, InHand
<1>10. ClientInv'
  BY <1>1, <1>2, <1>4, <1>5, <1>6, <1>7, NewFields DEF RefInv, ClientInv, IsSender, TypeOK
<1>11. ThreadInv'
  BY <1>1, <1>2, FreeIsNowhere DEF RefInv, ThreadInv, TypeOK, Held, InHand
<1>12. OnceEach'
  <2>1. Injective(outMessages')
    BY <1>1, <1>2, FreeIsNowhere, AppendedOnce DEF RefInv, OnceEach, Held, Out, TypeOK
  <2>2. QED
    BY <1>1, <1>2, <1>4, <1>5, <1>6, <1>7, <2>1, NewFields, FreeIsNowhere
      DEF RefInv, OnceEach, TypeOK
<1>13. SyncInv'
  BY <1>1, <1>2, <1>8, <1>9, NewFields, FreeIsNowhere DEF RefInv, SyncInv, Unanswered, Held, InHand
<1>14. CountInv'
  BY <1>1, <1>2, <1>8, <1>9, NewFields, FreeIsNowhere
    DEF RefInv, CountInv, OnePlace, Held, Skips, TypeOK
<1>15. QED BY <1>3, <1>10, <1>11, <1>12, <1>13, <1>14 DEF RefInv

LEMMA SendOutMessageKeeps ==
  ASSUME RefInv, NEW c \in Client, SendOutMessage(c) PROVE RefInv'
<1> DEFINE u == Unused
<1>1. /\ at[c] = "idle" /\ at' = [at EXCEPT ![c] = "sent_async"]
      /\ outMessages' = Append(outMessages, u)
      /\ inMessages' = inMessages /\ outEvent' = outEvent /\ msg' = msg /\ retMsg' = retMsg
      /\ thread' = thread /\ handled' = handled /\ dispose' = dispose /\ lost' = lost
  BY DEF SendOutMessage, ClientSteps
<1>2. /\ u \in free /\ u \in Message /\ free' = free \ {u}
      /\ message' \in [Message -> Fields] /\ message'[u] = NewMessage
      /\ \A m \in Message : m # u => message'[m] = message[m]
  BY GetsMessage, NewFields DEF SendOutMessage, RefInv
<1> HIDE DEF u
<1>3. TypeOK'
  BY <1>1, <1>2 DEF RefInv, TypeOK, Fields
<1>4. SameRoles
  BY <1>1 DEF RefInv, TypeOK, SameRoles, IsSender, Waits
<1>5. \A d \in Client : Waits(d) => msg[d] \in Message /\ message'[msg[d]] = message[msg[d]]
  BY <1>2, FreeIsNowhere DEF RefInv, ClientInv, Waits
<1>6. /\ Sent' = Sent /\ Awaited' = Awaited /\ Received' = Received /\ Answers' = Answers
  <2>1. Sent' = Sent
    BY <1>1, <1>4 DEF SameRoles, Sent
  <2>2. Awaited' = Awaited
    BY <1>1, <1>4 DEF SameRoles, Awaited
  <2>3. Received' = Received
    BY <1>1, <1>4 DEF SameRoles, Received
  <2>4. Answers' = Answers
    BY <1>1, <1>4, <1>5 DEF SameRoles, Answers
  <2>5. QED BY <2>1, <2>2, <2>3, <2>4
<1>7. /\ Out' = Out \cup {u}
      /\ In' = In /\ Taken' = Taken /\ InHand' = InHand
  <2>1. Out' = Out \cup {u}
    BY <1>1, <1>2, Appended DEF Out, RefInv, TypeOK
  <2>2. QED BY <1>1, <2>1 DEF In, Taken, InHand
<1>8. ClientInv'
  BY <1>1, <1>2, FreeIsNowhere DEF RefInv, ClientInv, IsSender, Waits, TypeOK
<1>9. ThreadInv'
  BY <1>1, <1>2, FreeIsNowhere DEF RefInv, ThreadInv, TypeOK, Held, InHand
<1>10. OnceEach'
  <2>1. Injective(outMessages')
    BY <1>1, <1>2, FreeIsNowhere, AppendedOnce DEF RefInv, OnceEach, Held, Out, TypeOK
  <2>2. QED BY <1>1, <1>4, <1>5, <2>1 DEF RefInv, OnceEach, SameRoles
<1>11. SyncInv'
  BY <1>1, <1>2, <1>6, <1>7, NewFields, FreeIsNowhere
    DEF RefInv, SyncInv, Unanswered, Held, InHand
<1>12. CountInv'
  BY <1>1, <1>2, <1>6, <1>7, NewFields, FreeIsNowhere
    DEF RefInv, CountInv, OnePlace, Held, Skips, TypeOK
<1>13. QED BY <1>3, <1>8, <1>9, <1>10, <1>11, <1>12 DEF RefInv

LEMMA SendInMessageKeeps ==
  ASSUME RefInv, SendInMessage PROVE RefInv'
<1> DEFINE u == Unused
<1>1. /\ thread \in {"handling", "handling_again", "handled"} /\ thread' = "handled"
      /\ inMessages' = Append(inMessages, u)
      /\ outMessages' = outMessages /\ outEvent' = outEvent /\ at' = at /\ msg' = msg
      /\ retMsg' = retMsg /\ handled' = handled /\ dispose' = dispose /\ lost' = lost
  BY DEF SendInMessage, ThreadSteps, Handling, clients
<1>2. /\ u \in free /\ u \in Message /\ free' = free \ {u}
      /\ message' \in [Message -> Fields] /\ message'[u] = NewMessage
      /\ \A m \in Message : m # u => message'[m] = message[m]
  BY GetsMessage, NewFields DEF SendInMessage, RefInv
<1> HIDE DEF u
<1>3. TypeOK'
  BY <1>1, <1>2 DEF RefInv, TypeOK, Fields
<1>4. SameRoles
  BY <1>1 DEF SameRoles, IsSender, Waits
<1>5. \A d \in Client : Waits(d) => msg[d] \in Message /\ message'[msg[d]] = message[msg[d]]
  BY <1>2, FreeIsNowhere DEF RefInv, ClientInv, Waits
<1>6. /\ Sent' = Sent /\ Awaited' = Awaited /\ Received' = Received /\ Answers' = Answers
  <2>1. Sent' = Sent
    BY <1>1, <1>4 DEF SameRoles, Sent
  <2>2. Awaited' = Awaited
    BY <1>1, <1>4 DEF SameRoles, Awaited
  <2>3. Received' = Received
    BY <1>1, <1>4 DEF SameRoles, Received
  <2>4. Answers' = Answers
    BY <1>1, <1>4, <1>5 DEF SameRoles, Answers
  <2>5. QED BY <2>1, <2>2, <2>3, <2>4
<1>7. /\ In' = In \cup {u}
      /\ Out' = Out /\ Taken' = Taken /\ InHand' = InHand
  <2>1. In' = In \cup {u}
    BY <1>1, <1>2, Appended DEF In, RefInv, TypeOK
  <2>2. QED BY <1>1, <2>1 DEF Out, Taken, InHand
<1>8. ClientInv'
  BY <1>1, <1>2, FreeIsNowhere DEF RefInv, ClientInv, IsSender, Waits
<1>9. ThreadInv'
  BY <1>1 DEF RefInv, ThreadInv
<1>10. OnceEach'
  <2>1. Injective(inMessages')
    BY <1>1, <1>2, FreeIsNowhere, AppendedOnce DEF RefInv, OnceEach, Held, In, TypeOK
  <2>2. QED BY <1>1, <1>4, <1>5, <2>1 DEF RefInv, OnceEach, SameRoles
<1>11. SyncInv'
  BY <1>1, <1>2, <1>6, <1>7, NewFields, FreeIsNowhere
    DEF RefInv, SyncInv, Unanswered, Held, InHand
<1>12. CountInv'
  BY <1>1, <1>2, <1>6, <1>7, NewFields, FreeIsNowhere
    DEF RefInv, CountInv, OnePlace, Held, Skips, TypeOK
<1>13. QED BY <1>3, <1>8, <1>9, <1>10, <1>11, <1>12 DEF RefInv

LEMMA TimesOutKeeps ==
  ASSUME RefInv, TimesOut PROVE RefInv'
<1> DEFINE u == Unused
<1>1. /\ thread = "waiting" /\ thread' = "handling" /\ handled' = u
      /\ outMessages' = outMessages /\ inMessages' = inMessages /\ outEvent' = outEvent
      /\ at' = at /\ msg' = msg /\ retMsg' = retMsg /\ dispose' = dispose /\ lost' = lost
  BY DEF TimesOut, ThreadSteps, clients, queues
<1>2. /\ u \in free /\ u \in Message /\ free' = free \ {u}
      /\ message' \in [Message -> Fields] /\ message'[u] = NewMessage
      /\ \A m \in Message : m # u => message'[m] = message[m]
  BY GetsMessage, NewFields DEF TimesOut, RefInv
<1> HIDE DEF u
<1>3. TypeOK'
  BY <1>1, <1>2 DEF RefInv, TypeOK, Fields
<1>4. SameRoles
  BY <1>1 DEF SameRoles, IsSender, Waits
<1>5. \A d \in Client : Waits(d) => msg[d] \in Message /\ message'[msg[d]] = message[msg[d]]
  BY <1>2, FreeIsNowhere DEF RefInv, ClientInv, Waits
<1>6. /\ Sent' = Sent /\ Awaited' = Awaited /\ Received' = Received /\ Answers' = Answers
  <2>1. Sent' = Sent
    BY <1>1, <1>4 DEF SameRoles, Sent
  <2>2. Awaited' = Awaited
    BY <1>1, <1>4 DEF SameRoles, Awaited
  <2>3. Received' = Received
    BY <1>1, <1>4 DEF SameRoles, Received
  <2>4. Answers' = Answers
    BY <1>1, <1>4, <1>5 DEF SameRoles, Answers
  <2>5. QED BY <2>1, <2>2, <2>3, <2>4
<1>7. /\ InHand = {} /\ InHand' = {u}
      /\ Out' = Out /\ In' = In /\ Taken' = Taken
  BY <1>1, <1>2, NullIsNoMessage DEF RefInv, ThreadInv, Out, In, Taken, InHand
<1>8. ClientInv'
  BY <1>1, <1>2, FreeIsNowhere DEF RefInv, ClientInv, IsSender, Waits
<1>9. ThreadInv'
  BY <1>1, <1>2 DEF ThreadInv
<1>10. OnceEach'
  BY <1>1, <1>4, <1>5 DEF RefInv, OnceEach, SameRoles
<1>11. SyncInv'
  BY <1>1, <1>2, <1>6, <1>7, NewFields, FreeIsNowhere
    DEF RefInv, SyncInv, Unanswered, Held
<1>12. CountInv'
  BY <1>1, <1>2, <1>6, <1>7, NewFields, FreeIsNowhere
    DEF RefInv, CountInv, OnePlace, Held, Skips, TypeOK
<1>13. QED BY <1>3, <1>8, <1>9, <1>10, <1>11, <1>12 DEF RefInv

LEMMA ReplyToReceivedKeeps ==
  ASSUME RefInv, NEW c \in Client, ReplyToReceived(c) PROVE RefInv'
<1> DEFINE u == Unused
           r == msg[c]
<1>1. /\ at[c] = "received" /\ at' = [at EXCEPT ![c] = "sent_async"]
      /\ outMessages' = Append(outMessages, u) /\ lost' = lost \cup {r}
      /\ msg' = [msg EXCEPT ![c] = NULL]
      /\ inMessages' = inMessages /\ outEvent' = outEvent /\ retMsg' = retMsg
      /\ thread' = thread /\ handled' = handled /\ dispose' = dispose
  BY DEF ReplyToReceived, ClientSteps, Loses
<1>2. /\ u \in free /\ u \in Message /\ free' = free \ {u}
      /\ message' \in [Message -> Fields] /\ message'[u] = NewMessage
      /\ \A m \in Message : m # u => message'[m] = message[m]
  BY GetsMessage, NewFields DEF ReplyToReceived, RefInv
<1> HIDE DEF u
<1>3. r \in Message /\ r \in Received /\ r # NULL
  BY <1>1, NullIsNoMessage DEF RefInv, ClientInv, Received
<1>4. \A d \in Client : d # c => msg'[d] = msg[d] /\ msg[d] # r /\ at'[d] = at[d]
  BY <1>1, <1>3 DEF RefInv, OnceEach, TypeOK
<1>5. msg'[c] = NULL /\ at'[c] = "sent_async"
  BY <1>1 DEF RefInv, TypeOK
<1> HIDE DEF r
<1>6. TypeOK'
  BY <1>1, <1>2, <1>3 DEF RefInv, TypeOK, Fields
<1>7. \A d \in Client :
         /\ IsSender(d)' <=> IsSender(d)
         /\ Waits(d)' <=> Waits(d)
         /\ IsSender(d) \/ Waits(d) => d # c
         /\ Waits(d) => msg[d] \in Message /\ message'[msg'[d]] = message[msg[d]]
  BY <1>1, <1>2, <1>4, <1>5, FreeIsNowhere DEF RefInv, ClientInv, IsSender, Waits
<1>8. /\ Sent' = Sent /\ Awaited' = Awaited
      /\ Received' = Received \ {r} /\ Answers' = Answers
  <2>1. Sent' = Sent
    BY <1>4, <1>7 DEF Sent
  <2>2. Awaited' = Awaited
    BY <1>4, <1>7 DEF Awaited
  <2>3. Received' = Received \ {r}
    BY <1>1, <1>4, <1>5 DEF Received, r
  <2>4. Answers' = Answers
    BY <1>4, <1>7 DEF Answers
  <2>5. QED BY <2>1, <2>2, <2>3, <2>4
<1>9. /\ Out' = Out \cup {u}
      /\ In' = In /\ Taken' = Taken /\ InHand' = InHand
  <2>1. Out' = Out \cup {u}
    BY <1>1, <1>2, Appended DEF Out, RefInv, TypeOK
  <2>2. QED BY <1>1, <2>1 DEF In, Taken, InHand
<1>10. ClientInv'
  BY <1>1, <1>2, <1>4, <1>5, FreeIsNowhere DEF RefInv, ClientInv, IsSender, Waits, TypeOK
<1>11. ThreadInv'
  BY <1>1, <1>2, FreeIsNowhere DEF RefInv, ThreadInv, TypeOK, Held, InHand
<1>12. OnceEach'
  <2>1. Injective(outMessages')
    BY <1>1, <1>2, FreeIsNowhere, AppendedOnce DEF RefInv, OnceEach, Held, Out, TypeOK
  <2>2. QED BY <1>1, <1>4, <1>5, <1>7, <2>1 DEF RefInv, OnceEach
<1>13. SyncInv'
  BY <1>1, <1>2, <1>3, <1>8, <1>9, NewFields, FreeIsNowhere
    DEF RefInv, SyncInv, Unanswered, Held, InHand
<1>14. CountInv'
  BY <1>1, <1>2, <1>3, <1>8, <1>9, NewFields, FreeIsNowhere
    DEF RefInv, CountInv, OnePlace, Held, Skips, TypeOK
<1>15. QED BY <1>6, <1>10, <1>11, <1>12, <1>13, <1>14 DEF RefInv

LEMMA ReplySyncKeeps ==
  ASSUME RefInv, ReplySync PROVE RefInv'
<1> DEFINE u == Unused
           h == handled
<1>1. /\ thread \in {"handling", "handling_again"} /\ thread' = "replied"
      /\ message[h].isSync /\ ~message[h].isSyncTimeout
      /\ outMessages' = outMessages /\ inMessages' = inMessages /\ outEvent' = outEvent
      /\ at' = at /\ msg' = msg /\ retMsg' = retMsg /\ handled' = h /\ dispose' = dispose
      /\ lost' = lost
  BY DEF ReplySync, ThreadSteps, Handling, StillWaits, clients, queues
<1>2. h \in Message /\ h \in InHand /\ h \notin free
  BY <1>1, NullIsNoMessage DEF RefInv, ThreadInv, CountInv, Held, InHand
<1>3. /\ u \in free /\ u \in Message /\ u # h /\ free' = free \ {u}
      /\ message' \in [Message -> Fields] /\ message'[u] = NewMessage
      /\ \A m \in Message : m # u /\ m # h => message'[m] = message[m]
      /\ message'[h].isSync = message[h].isSync
      /\ message'[h].isSyncFini = message[h].isSyncFini
      /\ message'[h].isSyncTimeout = message[h].isSyncTimeout
      /\ message'[h].replyMessage = u
      /\ message'[h].event = message[h].event
  BY <1>2, Replies DEF RefInv
<1>4. h \in Awaited /\ Unanswered(h)
  BY <1>1, <1>2 DEF RefInv, SyncInv, Unanswered
<1>5. PICK c \in Client : Waits(c) /\ msg[c] = h
  BY <1>4 DEF Awaited
<1> HIDE DEF u, h
<1>6. TypeOK'
  BY <1>1, <1>2, <1>3 DEF RefInv, TypeOK, Fields
<1>7. SameRoles
  BY <1>1 DEF SameRoles, IsSender, Waits
<1>8. \A d \in Client : d # c => msg[d] # h
  BY <1>2, <1>5, NullIsNoMessage DEF RefInv, OnceEach
<1>9. \A d \in Client : d # c /\ Waits(d) =>
         msg[d] \in Message /\ message'[msg[d]] = message[msg[d]]
  BY <1>3, <1>8, FreeIsNowhere DEF RefInv, ClientInv, Waits
<1>10. message[msg[c]].replyMessage = NULL /\ message'[msg[c]].replyMessage = u /\ u # NULL
  BY <1>3, <1>4, <1>5, FreeIsNowhere DEF Unanswered
<1>11. /\ Sent' = Sent /\ Awaited' = Awaited
       /\ Received' = Received /\ Answers' = Answers \cup {u}
  <2>1. Sent' = Sent
    BY <1>1, <1>7 DEF SameRoles, Sent
  <2>2. Awaited' = Awaited
    BY <1>1, <1>7 DEF SameRoles, Awaited
  <2>3. Received' = Received
    BY <1>1, <1>7 DEF SameRoles, Received
  <2>4. Answers' = Answers \cup {u}
    BY <1>1, <1>3, <1>5, <1>7, <1>9, <1>10, NullIsNoMessage DEF SameRoles, Answers
  <2>5. QED BY <2>1, <2>2, <2>3, <2>4
<1>12. Out' = Out /\ In' = In /\ Taken' = Taken /\ InHand' = InHand
  BY <1>1 DEF Out, In, Taken, InHand, h
<1>13. ClientInv'
  <2>1. ASSUME NEW d \in Client, IsSender(d) PROVE message'[msg[d]].isSync
    <3>1. msg[d] \in Message /\ msg[d] # u /\ message[msg[d]].isSync
      BY <1>3, <2>1, FreeIsNowhere DEF RefInv, ClientInv, IsSender
    <3>2. QED BY <1>3, <3>1
  <2>2. ASSUME NEW d \in Client, Waits(d)
        PROVE  /\ ~message'[msg[d]].isSyncTimeout
               /\ message'[msg[d]].event = "set" => message'[msg[d]].replyMessage # NULL
    <3>1. CASE d = c
      BY <1>1, <1>3, <1>5, <1>10, <3>1
    <3>2. CASE d # c
      BY <1>9, <2>2, <3>2 DEF RefInv, ClientInv
    <3>3. QED BY <3>1, <3>2
  <2>3. ClientInv
    BY DEF RefInv
  <2>4. QED BY <1>1, <2>1, <2>2, <2>3 DEF ClientInv, IsSender, Waits
<1>14. ThreadInv'
  BY <1>1, <1>2, <1>3 DEF ThreadInv
<1>15. OnceEach'
  <2>1. \A d, e \in Client : d # e /\ Waits(d)' /\ Waits(e)' =>
           message'[msg'[d]].replyMessage # message'[msg'[e]].replyMessage
           \/ message'[msg'[d]].replyMessage = NULL
    BY <1>1, <1>3, <1>7, <1>9, <1>10, FreeIsNowhere DEF RefInv, OnceEach, SameRoles
  <2>2. QED BY <1>1, <2>1 DEF RefInv, OnceEach
<1>16. SyncInv'
  BY <1>1, <1>2, <1>3, <1>4, <1>11, <1>12, NewFields, FreeIsNowhere
    DEF RefInv, SyncInv, Unanswered, Held, CountInv, OnePlace
<1>17. CountInv'
  <2>1. \A m \in Message : m # u => message'[m].isSync = message[m].isSync
                                /\ message'[m].isSyncFini = message[m].isSyncFini
    BY <1>3
  <2>2. ~message'[u].isSync /\ u \notin Sent /\ u \notin Held /\ ~message[u].isSync
    BY <1>3, NewFields, FreeIsNowhere
  <2>3. Held' = Held \cup {u} /\ Sent' = Sent /\ free' = free \ {u}
    BY <1>1, <1>3, <1>11, <1>12 DEF Held
  <2>4. OnePlace'
    BY <1>1, <1>11, <1>12, <2>2 DEF RefInv, CountInv, OnePlace, Held
  <2>5. \A m \in Message : Skips(m)' <=> m \in Sent' /\ m \in Held'
    BY <2>1, <2>2, <2>3 DEF RefInv, CountInv, Skips
  <2>6. free' = Message \ (Sent' \cup Held') /\ \A m \in free' : ~message'[m].isSync
    BY <1>3, <2>1, <2>3 DEF RefInv, CountInv, TypeOK
  <2>7. QED BY <2>4, <2>5, <2>6 DEF CountInv
<1>18. QED BY <1>6, <1>13, <1>14, <1>15, <1>16, <1>17 DEF RefInv

LEMMA ReplySetsEventKeeps ==
  ASSUME RefInv, ReplySetsEvent PROVE RefInv'
<1> DEFINE h == handled
<1>1. /\ thread = "replied" /\ thread' = "handled" /\ free' = free
      /\ message' = [message EXCEPT ![h].event = "set"]
      /\ outMessages' = outMessages /\ inMessages' = inMessages /\ outEvent' = outEvent
      /\ at' = at /\ msg' = msg /\ retMsg' = retMsg /\ handled' = h /\ dispose' = dispose
      /\ lost' = lost
  BY DEF ReplySetsEvent, ThreadSteps, clients, queues
<1>2. /\ h \in Message /\ h \in InHand /\ message[h].isSync
      /\ message[h].isSyncTimeout \/ message[h].replyMessage # NULL
  BY <1>1, NullIsNoMessage DEF RefInv, ThreadInv, SyncInv, InHand
<1>3. /\ message' \in [Message -> Fields]
      /\ \A x \in Message : x # h => message'[x] = message[x]
      /\ message'[h].isSync = message[h].isSync
      /\ message'[h].isSyncFini = message[h].isSyncFini
      /\ message'[h].isSyncTimeout = message[h].isSyncTimeout
      /\ message'[h].replyMessage = message[h].replyMessage
      /\ message'[h].event = "set"
  BY <1>1, <1>2, EventIs DEF RefInv
<1> HIDE DEF h
<1>4. TypeOK'
  BY <1>1, <1>2, <1>3 DEF RefInv, TypeOK, Fields, h
<1>5. SameRoles
  BY <1>1 DEF SameRoles, IsSender, Waits
<1>6. \A m \in Message : /\ message'[m].isSync = message[m].isSync
                         /\ message'[m].isSyncFini = message[m].isSyncFini
                         /\ message'[m].isSyncTimeout = message[m].isSyncTimeout
                         /\ message'[m].replyMessage = message[m].replyMessage
  BY <1>3
<1>7. \A d \in Client : Waits(d) => msg[d] \in Message
  BY DEF RefInv, ClientInv, Waits
<1>8. /\ Sent' = Sent /\ Awaited' = Awaited /\ Received' = Received /\ Answers' = Answers
  <2>1. Sent' = Sent
    BY <1>1, <1>5 DEF SameRoles, Sent
  <2>2. Awaited' = Awaited
    BY <1>1, <1>5 DEF SameRoles, Awaited
  <2>3. Received' = Received
    BY <1>1, <1>5 DEF SameRoles, Received
  <2>4. Answers' = Answers
    BY <1>1, <1>5, <1>6, <1>7 DEF SameRoles, Answers
  <2>5. QED BY <2>1, <2>2, <2>3, <2>4
<1>9. Out' = Out /\ In' = In /\ Taken' = Taken /\ InHand' = InHand
  BY <1>1 DEF Out, In, Taken, InHand, h
<1>10. ClientInv'
  BY <1>1, <1>2, <1>3 DEF RefInv, ClientInv, IsSender, Waits
<1>11. ThreadInv'
  BY <1>1, <1>2 DEF ThreadInv
<1>12. OnceEach'
  BY <1>1, <1>5, <1>6, <1>7 DEF RefInv, OnceEach, SameRoles
<1>13. SyncInv'
  BY <1>1, <1>2, <1>3, <1>8, <1>9 DEF RefInv, SyncInv, CountInv, OnePlace, Unanswered, h
<1>14. CountInv'
  BY <1>1, <1>6, <1>8, <1>9 DEF RefInv, CountInv, OnePlace, Held, Skips, TypeOK
<1>15. QED BY <1>4, <1>10, <1>11, <1>12, <1>13, <1>14 DEF RefInv

-----------------------------------------------------------------------------
(* A client takes its answer                                               *)

LEMMA WaitRepliedKeeps ==
  ASSUME RefInv, NEW c \in Client, WaitReplied(c) PROVE RefInv'
<1> DEFINE s == msg[c]
           a == message[s].replyMessage
<1>1. /\ at[c] = "waiting" /\ at' = [at EXCEPT ![c] = "releasing"]
      /\ message[s].event = "set" /\ message' = [message EXCEPT ![s].event = "reset"]
      /\ retMsg' = [retMsg EXCEPT ![c] = a]
      /\ free' = free /\ outMessages' = outMessages /\ inMessages' = inMessages
      /\ outEvent' = outEvent /\ msg' = msg
      /\ thread' = thread /\ handled' = handled /\ dispose' = dispose /\ lost' = lost
  BY DEF WaitReplied, ClientSteps, queues
<1>2. /\ s \in Message /\ message[s].isSync /\ s \in Awaited /\ s \in Sent
      /\ Waits(c) /\ retMsg[c] = NULL
  BY <1>1 DEF RefInv, ClientInv, IsSender, Waits, Awaited, Sent
<1>3. a # NULL /\ a \in Message /\ a \in Answers
  BY <1>1, <1>2 DEF RefInv, ClientInv, TypeOK, Answers
<1>4. /\ message' \in [Message -> Fields]
      /\ \A x \in Message : x # s => message'[x] = message[x]
      /\ message'[s].isSync = message[s].isSync
      /\ message'[s].isSyncFini = message[s].isSyncFini
      /\ message'[s].isSyncTimeout = message[s].isSyncTimeout
      /\ message'[s].replyMessage = a
      /\ message'[s].event = "reset"
  BY <1>1, <1>2, EventIs DEF RefInv
<1>5. \A m \in Message : /\ message'[m].isSync = message[m].isSync
                         /\ message'[m].isSyncFini = message[m].isSyncFini
                         /\ message'[m].isSyncTimeout = message[m].isSyncTimeout
                         /\ message'[m].replyMessage = message[m].replyMessage
                         /\ message'[m].event = "set" => message[m].event = "set"
  BY <1>4
<1>6. \A d \in Client : d # c => /\ at'[d] = at[d] /\ retMsg'[d] = retMsg[d]
                                 /\ msg[d] # s
                                 /\ Waits(d) => message[msg[d]].replyMessage # a
  BY <1>1, <1>2, <1>3, NullIsNoMessage DEF RefInv, OnceEach, TypeOK
<1>7. at'[c] = "releasing" /\ retMsg'[c] = a
  BY <1>1 DEF RefInv, TypeOK
<1>8. \A d \in Client : Waits(d) => msg[d] \in Message
  BY DEF RefInv, ClientInv, Waits
<1> HIDE DEF s, a
<1>9. TypeOK'
  BY <1>1, <1>3, <1>4 DEF RefInv, TypeOK, Fields
<1>10. \A d \in Client : /\ IsSender(d)' <=> IsSender(d)
                         /\ Waits(d)' <=> Waits(d) /\ d # c
                         /\ at'[d] = "received" <=> at[d] = "received"
  BY <1>1, <1>6, <1>7 DEF IsSender, Waits
<1>11. /\ Sent' = Sent /\ Awaited' = Awaited \ {s}
       /\ Received' = Received /\ Answers' = Answers \ {a}
  <2>1. Sent' = Sent
    BY <1>1, <1>10 DEF Sent
  <2>2. Awaited' = Awaited \ {s}
    BY <1>1, <1>6, <1>10 DEF Awaited, s
  <2>3. Received' = Received
    BY <1>1, <1>10 DEF Received
  <2>4. Answers' = Answers \ {a}
    BY <1>1, <1>5, <1>6, <1>8, <1>10 DEF Answers, s, a
  <2>5. QED BY <2>1, <2>2, <2>3, <2>4
<1>12. Taken' = Taken \cup {a}
  BY <1>2, <1>3, <1>6, <1>7, NullIsNoMessage DEF Taken
<1>13. Out' = Out /\ In' = In /\ InHand' = InHand
  BY <1>1 DEF Out, In, InHand
<1>14. ClientInv'
  BY <1>1, <1>2, <1>3, <1>5, <1>6, <1>7, <1>8, <1>10
    DEF RefInv, ClientInv, IsSender, Waits, TypeOK
<1>15. ThreadInv'
  BY <1>1, <1>5 DEF RefInv, ThreadInv, TypeOK
<1>16. OnceEach'
  <2>1. \A d \in Client : d # c => retMsg[d] # a
    BY <1>3 DEF RefInv, CountInv, OnePlace, Taken
  <2>2. QED BY <1>1, <1>5, <1>6, <1>7, <1>8, <1>10, <2>1 DEF RefInv, OnceEach
<1>17. SyncInv'
  BY <1>1, <1>2, <1>3, <1>4, <1>5, <1>11, <1>12, <1>13
    DEF RefInv, SyncInv, Unanswered, a
<1>18. CountInv'
  BY <1>1, <1>3, <1>5, <1>11, <1>12, <1>13 DEF RefInv, CountInv, OnePlace, Held, Skips, TypeOK
<1>19. QED BY <1>9, <1>14, <1>15, <1>16, <1>17, <1>18 DEF RefInv

LEMMA TakeAnswerOrGiveUpKeeps ==
  ASSUME RefInv, NEW c \in Client, TakeAnswerOrGiveUp(c) PROVE RefInv'
<1> DEFINE s == msg[c]
           a == message[s].replyMessage
<1>1. /\ at[c] = "timed_out" /\ at' = [at EXCEPT ![c] = "releasing"]
      /\ retMsg' = [retMsg EXCEPT ![c] = a]
      /\ message' = [message EXCEPT ![s].isSyncTimeout = retMsg'[c] = NULL]
      /\ free' = free /\ outMessages' = outMessages /\ inMessages' = inMessages
      /\ outEvent' = outEvent /\ msg' = msg
      /\ thread' = thread /\ handled' = handled /\ dispose' = dispose /\ lost' = lost
  BY DEF TakeAnswerOrGiveUp, ClientSteps, LateAnswer, queues
<1>2. /\ s \in Message /\ message[s].isSync /\ s \in Awaited /\ s \in Sent
      /\ Waits(c) /\ retMsg[c] = NULL
  BY <1>1 DEF RefInv, ClientInv, IsSender, Waits, Awaited, Sent
<1>3. a \in Message \cup {NULL} /\ (a # NULL => a \in Answers)
  BY <1>1, <1>2 DEF RefInv, ClientInv, TypeOK, Answers
<1>4. at'[c] = "releasing" /\ retMsg'[c] = a
  BY <1>1 DEF RefInv, TypeOK
<1> DEFINE givenUp == a = NULL
<1>5. /\ message' \in [Message -> Fields]
      /\ \A x \in Message : x # s => message'[x] = message[x]
      /\ message'[s].isSync = message[s].isSync
      /\ message'[s].isSyncFini = message[s].isSyncFini
      /\ message'[s].isSyncTimeout = givenUp
      /\ message'[s].replyMessage = message[s].replyMessage
      /\ message'[s].event = message[s].event
  <2>1. message' = [message EXCEPT ![s].isSyncTimeout = givenUp] /\ givenUp \in BOOLEAN
    BY <1>1, <1>4
  <2> HIDE DEF givenUp
  <2>2. QED BY <1>2, <2>1, TimeoutIs DEF RefInv
<1>6. \A m \in Message : /\ message'[m].isSync = message[m].isSync
                         /\ message'[m].isSyncFini = message[m].isSyncFini
                         /\ message'[m].replyMessage = message[m].replyMessage
                         /\ message'[m].event = message[m].event
  BY <1>5
<1>7. \A d \in Client : d # c => /\ at'[d] = at[d] /\ retMsg'[d] = retMsg[d]
                                 /\ msg[d] # s
                                 /\ Waits(d) => message[msg[d]].replyMessage # a \/ a = NULL
  BY <1>1, <1>2, <1>3, NullIsNoMessage DEF RefInv, OnceEach, TypeOK
<1>8. \A d \in Client : Waits(d) => msg[d] \in Message
  BY DEF RefInv, ClientInv, Waits
<1> HIDE DEF s, a, givenUp
<1>9. TypeOK'
  BY <1>1, <1>3, <1>5 DEF RefInv, TypeOK, Fields
<1>10. \A d \in Client : /\ IsSender(d)' <=> IsSender(d)
                         /\ Waits(d)' <=> Waits(d) /\ d # c
                         /\ at'[d] = "received" <=> at[d] = "received"
  BY <1>1, <1>4, <1>7 DEF IsSender, Waits
<1>11. /\ Sent' = Sent /\ Awaited' = Awaited \ {s}
       /\ Received' = Received /\ Answers' = Answers \ {a}
  <2>1. Sent' = Sent
    BY <1>1, <1>10 DEF Sent
  <2>2. Awaited' = Awaited \ {s}
    BY <1>1, <1>7, <1>10 DEF Awaited, s
  <2>3. Received' = Received
    BY <1>1, <1>10 DEF Received
  <2>4. Answers' = Answers \ {a}
    BY <1>1, <1>6, <1>7, <1>8, <1>10, NullIsNoMessage DEF Answers, s, a
  <2>5. QED BY <2>1, <2>2, <2>3, <2>4
<1>12. Taken' = Taken \cup ({a} \ {NULL})
  BY <1>2, <1>3, <1>4, <1>7, NullIsNoMessage DEF Taken
<1>13. Out' = Out /\ In' = In /\ InHand' = InHand
  BY <1>1 DEF Out, In, InHand
<1>14. ClientInv'
  BY <1>1, <1>2, <1>3, <1>4, <1>5, <1>6, <1>7, <1>8, <1>10
    DEF RefInv, ClientInv, IsSender, Waits, TypeOK
<1>15. ThreadInv'
  BY <1>1, <1>6 DEF RefInv, ThreadInv, TypeOK
<1>16. OnceEach'
  <2>1. \A d \in Client : d # c => retMsg[d] # a \/ a = NULL
    BY <1>3 DEF RefInv, CountInv, OnePlace, Taken
  <2>2. QED BY <1>1, <1>4, <1>6, <1>7, <1>8, <1>10, <2>1 DEF RefInv, OnceEach
<1>17. SyncInv'
  <2>1. message'[s].isSyncTimeout \/ message'[s].replyMessage # NULL
    BY <1>5, <1>6 DEF a, givenUp
  <2>2. \A m \in Message : m # s => message'[m].isSyncTimeout = message[m].isSyncTimeout
    BY <1>5
  <2>3. QED
    BY <1>1, <1>3, <1>6, <1>11, <1>12, <1>13, <2>1, <2>2
      DEF RefInv, SyncInv, Unanswered
<1>18. CountInv'
  BY <1>1, <1>3, <1>6, <1>11, <1>12, <1>13, NullIsNoMessage
    DEF RefInv, CountInv, OnePlace, Held, Skips, TypeOK
<1>19. QED BY <1>9, <1>14, <1>15, <1>16, <1>17, <1>18 DEF RefInv

-----------------------------------------------------------------------------
(* Messages are released                                                   *)

LEMMA ReleaseSentKeeps ==
  ASSUME RefInv, NEW c \in Client, ReleaseSent(c) PROVE RefInv'
<1> DEFINE s == msg[c]
<1>1. /\ at[c] = "releasing" /\ msg' = [msg EXCEPT ![c] = NULL] /\ Release(s)
      /\ \/ at' = [at EXCEPT ![c] = "answered"] /\ retMsg[c] # NULL
         \/ at' = [at EXCEPT ![c] = "idle"] /\ retMsg[c] = NULL
      /\ outMessages' = outMessages /\ inMessages' = inMessages
      /\ outEvent' = outEvent /\ retMsg' = retMsg
      /\ thread' = thread /\ handled' = handled /\ dispose' = dispose /\ lost' = lost
  BY DEF ReleaseSent, ClientSteps, queues
<1>2. s \in Message /\ message[s].isSync /\ s \in Sent /\ s # NULL
  BY <1>1, NullIsNoMessage DEF RefInv, ClientInv, IsSender, Sent
<1>3. Skips(s) <=> s \in Held
  BY <1>2 DEF RefInv, CountInv
<1>4. /\ message' \in [Message -> Fields] /\ free' \subseteq Message
      /\ \A x \in Message : x # s => message'[x] = message[x]
      /\ Skips(s) => /\ free' = free
                     /\ message'[s].isSync /\ message'[s].isSyncFini
                     /\ message'[s].isSyncTimeout = message[s].isSyncTimeout
                     /\ message'[s].replyMessage = message[s].replyMessage
                     /\ message'[s].event = message[s].event
      /\ ~Skips(s) => free' = free \cup {s} /\ message'[s] = Returned
  BY <1>1, <1>2, Releases DEF RefInv
<1>5. \A d \in Client : d # c => msg'[d] = msg[d] /\ msg[d] # s /\ at'[d] = at[d]
  BY <1>1, <1>2 DEF RefInv, OnceEach, TypeOK
<1>6. msg'[c] = NULL /\ at'[c] \in {"answered", "idle"}
  BY <1>1 DEF RefInv, TypeOK
<1>7. s \notin Awaited
  BY <1>1, <1>5 DEF Awaited, Waits
<1> HIDE DEF s
<1>8. TypeOK'
  BY <1>1, <1>4 DEF RefInv, TypeOK, Fields
<1>9. \A d \in Client :
         /\ IsSender(d)' <=> IsSender(d) /\ d # c
         /\ Waits(d)' <=> Waits(d)
         /\ Waits(d) => d # c /\ msg[d] \in Message /\ message'[msg'[d]] = message[msg[d]]
         /\ at'[d] = "received" <=> at[d] = "received" /\ d # c
         /\ at[d] = "received" => d # c
  BY <1>1, <1>4, <1>5, <1>6 DEF RefInv, ClientInv, IsSender, Waits
<1>10. /\ Sent' = Sent \ {s} /\ Awaited' = Awaited
       /\ Received' = Received /\ Answers' = Answers
  <2>1. Sent' = Sent \ {s}
    BY <1>5, <1>9 DEF Sent, s
  <2>2. Awaited' = Awaited
    BY <1>5, <1>9 DEF Awaited
  <2>3. Received' = Received
    BY <1>5, <1>9 DEF Received
  <2>4. Answers' = Answers
    BY <1>5, <1>9 DEF Answers
  <2>5. QED BY <2>1, <2>2, <2>3, <2>4
<1>11. Out' = Out /\ In' = In /\ Taken' = Taken /\ InHand' = InHand
  BY <1>1 DEF Out, In, Taken, InHand
<1>12. ClientInv'
  BY <1>1, <1>4, <1>5, <1>6, <1>9 DEF RefInv, ClientInv, IsSender, Waits, TypeOK
<1>13. ThreadInv'
  BY <1>1, <1>3, <1>4, NullIsNoMessage DEF RefInv, ThreadInv, TypeOK, Held, InHand, Skips
<1>14. OnceEach'
  BY <1>1, <1>5, <1>6, <1>9 DEF RefInv, OnceEach
<1>15. SyncInv'
  BY <1>1, <1>2, <1>4, <1>7, <1>10, <1>11, NewFields DEF RefInv, SyncInv, Unanswered
<1>16. CountInv'
  <2>1. Held' = Held /\ OnePlace'
    BY <1>1, <1>10, <1>11 DEF RefInv, CountInv, OnePlace, Held
  <2>2. \A m \in Message : m # s => (Skips(m)' <=> Skips(m))
    BY <1>4 DEF Skips
  <2>3. \A m \in Message : m = s => ~Skips(m)'
    BY <1>4, NewFields DEF Skips
  <2>4. \A m \in Message : Skips(m)' <=> m \in Sent' /\ m \in Held'
    BY <1>10, <2>1, <2>2, <2>3 DEF RefInv, CountInv
  <2>5. free' = Message \ (Sent' \cup Held')
    BY <1>2, <1>3, <1>4, <1>10, <2>1 DEF RefInv, CountInv
  <2>6. \A m \in free' : ~message'[m].isSync
    BY <1>2, <1>4, NewFields DEF RefInv, CountInv, TypeOK
  <2>7. QED BY <2>1, <2>4, <2>5, <2>6 DEF CountInv
<1>17. QED BY <1>8, <1>12, <1>13, <1>14, <1>15, <1>16 DEF RefInv

LEMMA ReleaseAnswerKeeps ==
  ASSUME RefInv, NEW c \in Client, ReleaseAnswer(c) PROVE RefInv'
<1> DEFINE r == retMsg[c]
<1>1. /\ at[c] = "answered" /\ retMsg' = [retMsg EXCEPT ![c] = NULL] /\ Release(r)
      /\ at' = [at EXCEPT ![c] = "idle"]
      /\ outMessages' = outMessages /\ inMessages' = inMessages
      /\ outEvent' = outEvent /\ msg' = msg
      /\ thread' = thread /\ handled' = handled /\ dispose' = dispose /\ lost' = lost
  BY DEF ReleaseAnswer, ClientSteps, queues
<1>2. r \in Message /\ r \in Taken /\ r # NULL
  BY <1>1, NullIsNoMessage DEF RefInv, ClientInv, Taken
<1>3. ~message[r].isSync /\ ~Skips(r) /\ r \notin Sent
  BY <1>2 DEF RefInv, SyncInv, CountInv, Skips, Held
<1>4. /\ message' \in [Message -> Fields]
      /\ \A x \in Message : x # r => message'[x] = message[x]
      /\ free' = free \cup {r} /\ message'[r] = Returned
  BY <1>1, <1>2, <1>3, Releases DEF RefInv
<1>5. \A d \in Client : d # c => retMsg'[d] = retMsg[d] /\ retMsg[d] # r /\ at'[d] = at[d]
  BY <1>1, <1>2 DEF RefInv, OnceEach, TypeOK
<1>6. retMsg'[c] = NULL /\ at'[c] = "idle"
  BY <1>1 DEF RefInv, TypeOK
<1> HIDE DEF r
<1>7. TypeOK'
  BY <1>1, <1>2, <1>4 DEF RefInv, TypeOK, Fields
<1>8. SameRoles
  BY <1>1, <1>5, <1>6 DEF SameRoles, IsSender, Waits
<1>9. \A d \in Client : IsSender(d) =>
         msg[d] \in Message /\ msg[d] \in Sent /\ message'[msg[d]] = message[msg[d]]
  BY <1>3, <1>4 DEF RefInv, ClientInv, IsSender, Sent
<1>10. /\ Sent' = Sent /\ Awaited' = Awaited /\ Received' = Received /\ Answers' = Answers
  <2>1. Sent' = Sent
    BY <1>1, <1>8 DEF SameRoles, Sent
  <2>2. Awaited' = Awaited
    BY <1>1, <1>8 DEF SameRoles, Awaited
  <2>3. Received' = Received
    BY <1>1, <1>8 DEF SameRoles, Received
  <2>4. Answers' = Answers
    BY <1>1, <1>8, <1>9 DEF SameRoles, Answers, IsSender, Waits
  <2>5. QED BY <2>1, <2>2, <2>3, <2>4
<1>11. Taken' = Taken \ {r}
  BY <1>5, <1>6, NullIsNoMessage DEF Taken, r
<1>12. Out' = Out /\ In' = In /\ InHand' = InHand
  BY <1>1 DEF Out, In, InHand
<1>13. ClientInv'
  BY <1>1, <1>5, <1>6, <1>8, <1>9 DEF RefInv, ClientInv, IsSender, Waits, TypeOK
<1>14. ThreadInv'
  BY <1>1, <1>2, <1>4 DEF RefInv, ThreadInv, TypeOK, CountInv, OnePlace, InHand
<1>15. OnceEach'
  BY <1>1, <1>5, <1>6, <1>8, <1>9 DEF RefInv, OnceEach, SameRoles, IsSender, Waits
<1>16. SyncInv'
  BY <1>1, <1>2, <1>4, <1>10, <1>11, <1>12, NewFields DEF RefInv, SyncInv, Unanswered
<1>17. CountInv'
  BY <1>1, <1>2, <1>3, <1>4, <1>10, <1>11, <1>12, NewFields
    DEF RefInv, CountInv, OnePlace, Held, Skips, TypeOK
<1>18. QED BY <1>7, <1>13, <1>14, <1>15, <1>16, <1>17 DEF RefInv

LEMMA ReleaseReceivedKeeps ==
  ASSUME RefInv, NEW c \in Client, ReleaseReceived(c) PROVE RefInv'
<1> DEFINE r == msg[c]
<1>1. /\ at[c] = "received" /\ msg' = [msg EXCEPT ![c] = NULL] /\ Release(r)
      /\ at' = [at EXCEPT ![c] = "idle"]
      /\ outMessages' = outMessages /\ inMessages' = inMessages
      /\ outEvent' = outEvent /\ retMsg' = retMsg
      /\ thread' = thread /\ handled' = handled /\ dispose' = dispose /\ lost' = lost
  BY DEF ReleaseReceived, ClientSteps, queues
<1>2. r \in Message /\ r \in Received /\ r # NULL
  BY <1>1, NullIsNoMessage DEF RefInv, ClientInv, Received
<1>3. ~message[r].isSync /\ ~Skips(r) /\ r \notin Sent
  BY <1>2 DEF RefInv, SyncInv, CountInv, Skips, Held
<1>4. /\ message' \in [Message -> Fields]
      /\ \A x \in Message : x # r => message'[x] = message[x]
      /\ free' = free \cup {r} /\ message'[r] = Returned
  BY <1>1, <1>2, <1>3, Releases DEF RefInv
<1>5. \A d \in Client : d # c => msg'[d] = msg[d] /\ msg[d] # r /\ at'[d] = at[d]
  BY <1>1, <1>2 DEF RefInv, OnceEach, TypeOK
<1>6. msg'[c] = NULL /\ at'[c] = "idle"
  BY <1>1 DEF RefInv, TypeOK
<1> HIDE DEF r
<1>7. TypeOK'
  BY <1>1, <1>2, <1>4 DEF RefInv, TypeOK, Fields
<1>8. \A d \in Client :
         /\ IsSender(d)' <=> IsSender(d)
         /\ Waits(d)' <=> Waits(d)
         /\ IsSender(d) => d # c /\ msg[d] \in Message /\ message'[msg'[d]] = message[msg[d]]
         /\ Waits(d) => IsSender(d)
  BY <1>1, <1>4, <1>5, <1>6 DEF RefInv, ClientInv, IsSender, Waits
<1>9. /\ Sent' = Sent /\ Awaited' = Awaited
      /\ Received' = Received \ {r} /\ Answers' = Answers
  <2>1. Sent' = Sent
    BY <1>5, <1>8 DEF Sent
  <2>2. Awaited' = Awaited
    BY <1>5, <1>8 DEF Awaited
  <2>3. Received' = Received \ {r}
    BY <1>1, <1>5, <1>6 DEF Received, r
  <2>4. Answers' = Answers
    BY <1>5, <1>8 DEF Answers
  <2>5. QED BY <2>1, <2>2, <2>3, <2>4
<1>10. Out' = Out /\ In' = In /\ Taken' = Taken /\ InHand' = InHand
  BY <1>1 DEF Out, In, Taken, InHand
<1>11. ClientInv'
  BY <1>1, <1>5, <1>6, <1>8 DEF RefInv, ClientInv, TypeOK
<1>12. ThreadInv'
  BY <1>1, <1>2, <1>4 DEF RefInv, ThreadInv, TypeOK, CountInv, OnePlace, InHand
<1>13. OnceEach'
  BY <1>1, <1>5, <1>6, <1>8 DEF RefInv, OnceEach
<1>14. SyncInv'
  BY <1>1, <1>2, <1>4, <1>9, <1>10, NewFields DEF RefInv, SyncInv, Unanswered
<1>15. CountInv'
  BY <1>1, <1>2, <1>3, <1>4, <1>9, <1>10, NewFields
    DEF RefInv, CountInv, OnePlace, Held, Skips, TypeOK
<1>16. QED BY <1>7, <1>11, <1>12, <1>13, <1>14, <1>15 DEF RefInv

(* A release that leaves the clients alone.                                *)
LEMMA ReleaseOfHeld ==
  ASSUME RefInv, NEW m \in Held, m \in Message, Release(m), m \notin Answers,
         at' = at, msg' = msg, retMsg' = retMsg
  PROVE  /\ message' \in [Message -> Fields]
         /\ \A x \in Message : x # m => message'[x] = message[x]
         /\ m \in Sent => /\ free' = free
                          /\ message'[m].isSync /\ message'[m].isSyncFini
                          /\ message'[m].isSyncTimeout = message[m].isSyncTimeout
                          /\ message'[m].replyMessage = message[m].replyMessage
                          /\ message'[m].event = message[m].event
         /\ m \notin Sent => free' = free \cup {m} /\ message'[m] = Returned
         /\ Sent' = Sent /\ Awaited' = Awaited /\ Received' = Received
         /\ Taken' = Taken /\ Answers' = Answers
         /\ ClientInv'
         /\ \A c, d \in Client :
               c # d /\ Waits(c)' /\ Waits(d)' =>
                  message'[msg'[c]].replyMessage # message'[msg'[d]].replyMessage
                  \/ message'[msg'[c]].replyMessage = NULL
<1>1. Skips(m) <=> m \in Sent
  BY DEF RefInv, CountInv
<1>2. /\ message' \in [Message -> Fields]
      /\ \A x \in Message : x # m => message'[x] = message[x]
      /\ m \in Sent => /\ free' = free
                       /\ message'[m].isSync /\ message'[m].isSyncFini
                       /\ message'[m].isSyncTimeout = message[m].isSyncTimeout
                       /\ message'[m].replyMessage = message[m].replyMessage
                       /\ message'[m].event = message[m].event
      /\ m \notin Sent => free' = free \cup {m} /\ message'[m] = Returned
  BY <1>1, Releases DEF RefInv
<1>3. SameRoles
  BY DEF SameRoles, IsSender, Waits
<1>4. \A d \in Client : IsSender(d) =>
         /\ msg[d] \in Message /\ msg[d] \in Sent
         /\ message'[msg[d]].isSync
         /\ message'[msg[d]].isSyncTimeout = message[msg[d]].isSyncTimeout
         /\ message'[msg[d]].replyMessage = message[msg[d]].replyMessage
         /\ message'[msg[d]].event = message[msg[d]].event
  BY <1>2 DEF RefInv, ClientInv, IsSender, Sent
<1>5. \A d \in Client : Waits(d) => IsSender(d)
  BY DEF Waits, IsSender
<1>6. Sent' = Sent
  BY <1>3 DEF SameRoles, Sent
<1>7. Awaited' = Awaited
  BY <1>3 DEF SameRoles, Awaited
<1>8. Received' = Received /\ Taken' = Taken
  BY DEF Received, Taken
<1>9. Answers' = Answers
  BY <1>3, <1>4, <1>5 DEF SameRoles, Answers
<1>10. ClientInv'
  BY <1>3, <1>4, <1>5 DEF RefInv, ClientInv, SameRoles
<1>11. \A c, d \in Client :
         c # d /\ Waits(c)' /\ Waits(d)' =>
            message'[msg'[c]].replyMessage # message'[msg'[d]].replyMessage
            \/ message'[msg'[c]].replyMessage = NULL
  BY <1>3, <1>4, <1>5 DEF RefInv, OnceEach, SameRoles
<1>12. QED BY <1>2, <1>6, <1>7, <1>8, <1>9, <1>10, <1>11

(* What is left of the invariant when a message is released that was held  *)
(* in one place and now is in none.                                        *)
LEMMA HeldNoMore ==
  ASSUME RefInv, NEW m \in Message, m \in Held, Held' = Held \ {m}, Sent' = Sent, OnePlace',
         message' \in [Message -> Fields],
         \A x \in Message : x # m => message'[x] = message[x],
         m \in Sent => free' = free /\ message'[m].isSyncFini,
         m \notin Sent => free' = free \cup {m} /\ message'[m] = Returned
  PROVE  CountInv'
<1>1. \A x \in Message : x # m => (Skips(x)' <=> Skips(x))
  BY DEF Skips
<1>2. ~Skips(m)'
  BY NewFields DEF Skips
<1>3. \A x \in Message : Skips(x)' <=> x \in Sent' /\ x \in Held'
  BY <1>1, <1>2 DEF RefInv, CountInv
<1>4. free' = Message \ (Sent' \cup Held')
  BY DEF RefInv, CountInv
<1>5. \A x \in free' : ~message'[x].isSync
  BY NewFields DEF RefInv, CountInv, TypeOK
<1>6. QED BY <1>3, <1>4, <1>5 DEF CountInv

LEMMA ReleaseHandledKeeps ==
  ASSUME RefInv, ReleaseHandled PROVE RefInv'
<1> DEFINE h == handled
<1>1. /\ thread = "handled" /\ thread' = "loop" /\ Release(h) /\ handled' = NULL
      /\ outMessages' = outMessages /\ inMessages' = inMessages
      /\ outEvent' = outEvent /\ at' = at /\ msg' = msg /\ retMsg' = retMsg
      /\ dispose' = dispose /\ lost' = lost
  BY DEF ReleaseHandled, ThreadSteps, clients, queues
<1>2. h \in Message /\ InHand = {h} /\ h \in Held /\ h \notin Answers
  BY <1>1, NullIsNoMessage DEF RefInv, ThreadInv, CountInv, OnePlace, Held, InHand
<1> HIDE DEF h
<1>3. /\ message' \in [Message -> Fields]
      /\ \A x \in Message : x # h => message'[x] = message[x]
      /\ h \in Sent => /\ free' = free
                       /\ message'[h].isSync /\ message'[h].isSyncFini
                       /\ message'[h].isSyncTimeout = message[h].isSyncTimeout
                       /\ message'[h].replyMessage = message[h].replyMessage
                       /\ message'[h].event = message[h].event
      /\ h \notin Sent => free' = free \cup {h} /\ message'[h] = Returned
      /\ Sent' = Sent /\ Awaited' = Awaited /\ Received' = Received
      /\ Taken' = Taken /\ Answers' = Answers
      /\ ClientInv'
      /\ \A c, d \in Client :
            c # d /\ Waits(c)' /\ Waits(d)' =>
               message'[msg'[c]].replyMessage # message'[msg'[d]].replyMessage
               \/ message'[msg'[c]].replyMessage = NULL
  BY <1>1, <1>2, ReleaseOfHeld
<1>4. InHand' = {} /\ Out' = Out /\ In' = In
  BY <1>1 DEF InHand, Out, In
<1>5. TypeOK'
  BY <1>1, <1>2, <1>3 DEF RefInv, TypeOK, Fields
<1>6. ThreadInv'
  BY <1>1 DEF ThreadInv
<1>7. OnceEach'
  BY <1>1, <1>3 DEF RefInv, OnceEach
<1>8. SyncInv'
  <2> SUFFICES ASSUME NEW m \in Message, message'[m].isSync
               PROVE  /\ m \notin In \cup Received \cup Taken \cup Answers \cup lost
                      /\ m \in Out => Unanswered(m)'
                      /\ m \in Awaited \/ message'[m].isSyncTimeout
                                     \/ message'[m].replyMessage # NULL
    BY <1>1, <1>3, <1>4, NullIsNoMessage DEF SyncInv
  <2>1. CASE m = h
    <3>1. h \in Sent /\ message[h].isSync
      BY <1>3, <2>1, NewFields DEF RefInv, ClientInv, Sent
    <3>2. QED BY <1>2, <1>3, <2>1, <3>1 DEF RefInv, SyncInv, Unanswered
  <2>2. CASE m # h
    BY <1>3, <2>2 DEF RefInv, SyncInv, Unanswered
  <2>3. QED BY <2>1, <2>2
<1>9. CountInv'
  <2>1. Held' = Held \ {h} /\ OnePlace'
    BY <1>1, <1>2, <1>3, <1>4 DEF RefInv, CountInv, OnePlace, Held
  <2>2. QED BY <1>2, <1>3, <2>1, HeldNoMore
<1>10. QED BY <1>3, <1>5, <1>6, <1>7, <1>8, <1>9 DEF RefInv

LEMMA PurgeInMessageKeeps ==
  ASSUME RefInv, inMessages # <<>>, Release(Head(inMessages)), inMessages' = Tail(inMessages),
         outMessages' = outMessages, outEvent' = outEvent, at' = at, msg' = msg,
         retMsg' = retMsg, thread' = thread, handled' = handled, lost' = lost,
         dispose' = dispose
  PROVE  RefInv'
<1> DEFINE h == Head(inMessages)
<1>1. /\ h \in Message /\ inMessages' \in Seq(Message)
      /\ In = {h} \cup In' /\ Injective(inMessages') /\ h \notin In'
  BY Beheaded DEF RefInv, TypeOK, OnceEach, In
<1>2. h \in In /\ h \in Held /\ h \notin Answers
  BY <1>1 DEF RefInv, CountInv, OnePlace, Held
<1>3. ~message[h].isSync /\ h \notin Sent
  BY <1>1, <1>2 DEF RefInv, SyncInv, CountInv, Skips
<1> HIDE DEF h
<1>4. /\ message' \in [Message -> Fields]
      /\ \A x \in Message : x # h => message'[x] = message[x]
      /\ free' = free \cup {h} /\ message'[h] = Returned
      /\ Sent' = Sent /\ Awaited' = Awaited /\ Received' = Received
      /\ Taken' = Taken /\ Answers' = Answers
      /\ ClientInv'
      /\ \A c, d \in Client :
            c # d /\ Waits(c)' /\ Waits(d)' =>
               message'[msg'[c]].replyMessage # message'[msg'[d]].replyMessage
               \/ message'[msg'[c]].replyMessage = NULL
  BY <1>1, <1>2, <1>3, ReleaseOfHeld DEF h
<1>5. InHand' = InHand /\ Out' = Out /\ h \notin InHand
  BY <1>2 DEF InHand, Out, RefInv, CountInv, OnePlace
<1>6. TypeOK'
  BY <1>1, <1>4 DEF RefInv, TypeOK, Fields
<1>7. ThreadInv'
  BY <1>1, <1>4, <1>5, NullIsNoMessage DEF RefInv, ThreadInv, InHand, TypeOK
<1>8. OnceEach'
  BY <1>1, <1>4 DEF RefInv, OnceEach
<1>9. SyncInv'
  BY <1>1, <1>4, <1>5, NewFields DEF RefInv, SyncInv, Unanswered
<1>10. CountInv'
  <2>1. Held' = Held \ {h} /\ OnePlace'
    BY <1>1, <1>2, <1>4, <1>5 DEF RefInv, CountInv, OnePlace, Held
  <2>2. QED BY <1>1, <1>2, <1>3, <1>4, <2>1, HeldNoMore
<1>11. QED BY <1>4, <1>6, <1>7, <1>8, <1>9, <1>10 DEF RefInv

LEMMA PurgeOutMessageKeeps ==
  ASSUME RefInv, outMessages # <<>>, Release(Head(outMessages)),
         outMessages' = Tail(outMessages), inMessages' = inMessages, outEvent' = outEvent,
         at' = at, msg' = msg, retMsg' = retMsg, thread' = thread, handled' = handled,
         lost' = lost, dispose' = dispose
  PROVE  RefInv'
<1> DEFINE h == Head(outMessages)
<1>1. /\ h \in Message /\ outMessages' \in Seq(Message)
      /\ Out = {h} \cup Out' /\ Injective(outMessages') /\ h \notin Out'
  BY Beheaded DEF RefInv, TypeOK, OnceEach, Out
<1>2. h \in Out /\ h \in Held /\ h \notin Answers
  BY <1>1 DEF RefInv, CountInv, OnePlace, Held
<1> HIDE DEF h
<1>3. /\ message' \in [Message -> Fields]
      /\ \A x \in Message : x # h => message'[x] = message[x]
      /\ h \in Sent => /\ free' = free
                       /\ message'[h].isSync /\ message'[h].isSyncFini
                       /\ message'[h].isSyncTimeout = message[h].isSyncTimeout
                       /\ message'[h].replyMessage = message[h].replyMessage
                       /\ message'[h].event = message[h].event
      /\ h \notin Sent => free' = free \cup {h} /\ message'[h] = Returned
      /\ Sent' = Sent /\ Awaited' = Awaited /\ Received' = Received
      /\ Taken' = Taken /\ Answers' = Answers
      /\ ClientInv'
      /\ \A c, d \in Client :
            c # d /\ Waits(c)' /\ Waits(d)' =>
               message'[msg'[c]].replyMessage # message'[msg'[d]].replyMessage
               \/ message'[msg'[c]].replyMessage = NULL
  BY <1>1, <1>2, ReleaseOfHeld DEF h
<1>4. InHand' = InHand /\ In' = In /\ h \notin InHand
  BY <1>2 DEF InHand, In, RefInv, CountInv, OnePlace
<1>5. TypeOK'
  BY <1>1, <1>3 DEF RefInv, TypeOK, Fields
<1>6. ThreadInv'
  BY <1>1, <1>3, <1>4, NullIsNoMessage DEF RefInv, ThreadInv, InHand, TypeOK
<1>7. OnceEach'
  BY <1>1, <1>3 DEF RefInv, OnceEach
<1>8. SyncInv'
  <2>1. h \in Sent => message[h].isSync
    BY DEF RefInv, ClientInv, Sent
  <2>2. QED
    BY <1>1, <1>3, <1>4, <2>1, NewFields, NullIsNoMessage
      DEF RefInv, SyncInv, Unanswered, InHand
<1>9. CountInv'
  <2>1. Held' = Held \ {h} /\ OnePlace'
    BY <1>1, <1>2, <1>3, <1>4 DEF RefInv, CountInv, OnePlace, Held
  <2>2. QED BY <1>1, <1>2, <1>3, <2>1, HeldNoMore
<1>10. QED BY <1>3, <1>5, <1>6, <1>7, <1>8, <1>9 DEF RefInv

LEMMA PurgeOneKeeps == ASSUME RefInv, PurgeOne PROVE RefInv'
<1>1. /\ outEvent' = outEvent /\ at' = at /\ msg' = msg /\ retMsg' = retMsg
      /\ thread' = thread /\ handled' = handled /\ lost' = lost /\ dispose' = dispose
  BY DEF PurgeOne, clients
<1>2. \/ /\ inMessages # <<>> /\ Release(Head(inMessages))
         /\ inMessages' = Tail(inMessages) /\ outMessages' = outMessages
      \/ /\ outMessages # <<>> /\ Release(Head(outMessages))
         /\ outMessages' = Tail(outMessages) /\ inMessages' = inMessages
  BY DEF PurgeOne
<1>3. QED BY <1>1, <1>2, PurgeInMessageKeeps, PurgeOutMessageKeeps

-----------------------------------------------------------------------------
(* Messages are received or lost                                           *)

LEMMA ReceiveOutMessageKeeps ==
  ASSUME RefInv, ReceiveOutMessage PROVE RefInv'
<1> DEFINE h == Head(outMessages)
<1>1. /\ thread = "loop" /\ thread' = "handling" /\ handled = NULL /\ handled' = h
      /\ outMessages # <<>> /\ outMessages' = Tail(outMessages)
      /\ message' = message /\ free' = free /\ inMessages' = inMessages /\ outEvent' = outEvent
      /\ at' = at /\ msg' = msg /\ retMsg' = retMsg /\ lost' = lost /\ dispose' = dispose
  BY DEF ReceiveOutMessage, ThreadSteps, clients
<1>2. /\ h \in Message /\ outMessages' \in Seq(Message)
      /\ Out = {h} \cup Out' /\ Injective(outMessages') /\ h \notin Out'
  BY <1>1, Beheaded DEF RefInv, TypeOK, OnceEach, Out
<1> HIDE DEF h
<1>3. SameRoles
  BY <1>1 DEF SameRoles, IsSender, Waits
<1>4. /\ Sent' = Sent /\ Awaited' = Awaited /\ Received' = Received /\ Answers' = Answers
  <2>1. Sent' = Sent
    BY <1>1, <1>3 DEF SameRoles, Sent
  <2>2. Awaited' = Awaited
    BY <1>1, <1>3 DEF SameRoles, Awaited
  <2>3. Received' = Received
    BY <1>1, <1>3 DEF SameRoles, Received
  <2>4. Answers' = Answers
    BY <1>1, <1>3 DEF SameRoles, Answers
  <2>5. QED BY <2>1, <2>2, <2>3, <2>4
<1>5. InHand = {} /\ InHand' = {h} /\ In' = In /\ Taken' = Taken
  BY <1>1, <1>2, NullIsNoMessage DEF InHand, In, Taken
<1>6. TypeOK'
  BY <1>1, <1>2 DEF RefInv, TypeOK
<1>7. ClientInv'
  BY <1>1, <1>3 DEF RefInv, ClientInv, SameRoles
<1>8. ThreadInv'
  BY <1>1, <1>2 DEF ThreadInv
<1>9. OnceEach'
  BY <1>1, <1>2, <1>3 DEF RefInv, OnceEach, SameRoles
<1>10. SyncInv'
  BY <1>1, <1>2, <1>4, <1>5 DEF RefInv, SyncInv, Unanswered
<1>11. CountInv'
  <2>1. Held' = Held /\ OnePlace'
    BY <1>1, <1>2, <1>4, <1>5 DEF RefInv, CountInv, OnePlace, Held
  <2>2. QED BY <1>1, <1>4, <2>1 DEF RefInv, CountInv, Skips
<1>12. QED BY <1>6, <1>7, <1>8, <1>9, <1>10, <1>11 DEF RefInv

LEMMA ReceiveInMessageKeeps ==
  ASSUME RefInv, NEW c \in Client, ReceiveInMessage(c) PROVE RefInv'
<1> DEFINE h == Head(inMessages)
<1>1. /\ at[c] = "idle" /\ at' = [at EXCEPT ![c] = "received"]
      /\ inMessages # <<>> /\ inMessages' = Tail(inMessages) /\ msg' = [msg EXCEPT ![c] = h]
      /\ message' = message /\ free' = free /\ outMessages' = outMessages
      /\ outEvent' = outEvent /\ retMsg' = retMsg
      /\ thread' = thread /\ handled' = handled /\ dispose' = dispose /\ lost' = lost
  BY DEF ReceiveInMessage, ClientSteps
<1>2. /\ h \in Message /\ inMessages' \in Seq(Message)
      /\ In = {h} \cup In' /\ Injective(inMessages') /\ h \notin In'
  BY <1>1, Beheaded DEF RefInv, TypeOK, OnceEach, In
<1> HIDE DEF h
<1>3. h \in In /\ ~message[h].isSync /\ h \notin Sent /\ h \notin Received
  BY <1>2 DEF RefInv, SyncInv, CountInv, Skips, OnePlace, Held
<1>4. \A d \in Client : d # c => msg'[d] = msg[d] /\ at'[d] = at[d]
  BY <1>1 DEF RefInv, TypeOK
<1>5. msg'[c] = h /\ at'[c] = "received"
  BY <1>1 DEF RefInv, TypeOK
<1>6. \A d \in Client : msg[d] # h
  BY <1>2, <1>3, NullIsNoMessage DEF RefInv, ClientInv, TypeOK, IsSender, Sent, Received
<1>7. TypeOK'
  BY <1>1, <1>2 DEF RefInv, TypeOK
<1>8. \A d \in Client :
         /\ IsSender(d)' <=> IsSender(d)
         /\ Waits(d)' <=> Waits(d)
         /\ IsSender(d) \/ Waits(d) => d # c
  BY <1>1, <1>4, <1>5 DEF IsSender, Waits
<1>9. /\ Sent' = Sent /\ Awaited' = Awaited
      /\ Received' = Received \cup {h} /\ Answers' = Answers
  <2>1. Sent' = Sent
    BY <1>4, <1>8 DEF Sent
  <2>2. Awaited' = Awaited
    BY <1>4, <1>8 DEF Awaited
  <2>3. Received' = Received \cup {h}
    BY <1>1, <1>2, <1>4, <1>5 DEF Received
  <2>4. Answers' = Answers
    BY <1>1, <1>4, <1>8 DEF Answers
  <2>5. QED BY <2>1, <2>2, <2>3, <2>4
<1>10. Out' = Out /\ Taken' = Taken /\ InHand' = InHand
  BY <1>1 DEF Out, Taken, InHand
<1>11. ClientInv'
  BY <1>1, <1>2, <1>4, <1>5, <1>8 DEF RefInv, ClientInv, TypeOK
<1>12. ThreadInv'
  BY <1>1 DEF RefInv, ThreadInv
<1>13. OnceEach'
  BY <1>1, <1>2, <1>4, <1>5, <1>6, <1>8 DEF RefInv, OnceEach
<1>14. SyncInv'
  BY <1>1, <1>2, <1>3, <1>9, <1>10 DEF RefInv, SyncInv, Unanswered
<1>15. CountInv'
  <2>1. Held' = Held /\ OnePlace'
    BY <1>1, <1>2, <1>9, <1>10 DEF RefInv, CountInv, OnePlace, Held
  <2>2. QED BY <1>1, <1>9, <2>1 DEF RefInv, CountInv, Skips
<1>16. QED BY <1>7, <1>11, <1>12, <1>13, <1>14, <1>15 DEF RefInv

LEMMA PurgeOutKeeps ==
  ASSUME RefInv, NEW dropped \in SUBSET ToSet(outMessages), PurgeOut(dropped) PROVE RefInv'
<1>1. /\ thread = "handling" /\ thread' = "handling_again"
      /\ \A m \in dropped : ~message[m].isSync
      /\ outMessages' = Without(outMessages, dropped) /\ lost' = lost \cup dropped
      /\ message' = message /\ free' = free /\ inMessages' = inMessages /\ outEvent' = outEvent
      /\ at' = at /\ msg' = msg /\ retMsg' = retMsg /\ handled' = handled
      /\ dispose' = dispose
  BY DEF PurgeOut, ThreadSteps, Loses, clients
<1>2. /\ outMessages' \in Seq(Message) /\ Injective(outMessages')
      /\ Out' = Out \ dropped /\ dropped \subseteq Out
  BY <1>1, WithoutProperties DEF RefInv, TypeOK, OnceEach, Out
<1>3. dropped \subseteq Message
  BY <1>2, ElementOfSeq DEF RefInv, TypeOK, Out, ToSet
<1>4. SameRoles
  BY <1>1 DEF SameRoles, IsSender, Waits
<1>5. /\ Sent' = Sent /\ Awaited' = Awaited /\ Received' = Received /\ Answers' = Answers
  <2>1. Sent' = Sent
    BY <1>1, <1>4 DEF SameRoles, Sent
  <2>2. Awaited' = Awaited
    BY <1>1, <1>4 DEF SameRoles, Awaited
  <2>3. Received' = Received
    BY <1>1, <1>4 DEF SameRoles, Received
  <2>4. Answers' = Answers
    BY <1>1, <1>4 DEF SameRoles, Answers
  <2>5. QED BY <2>1, <2>2, <2>3, <2>4
<1>6. In' = In /\ Taken' = Taken /\ InHand' = InHand
  BY <1>1 DEF In, Taken, InHand
<1>7. TypeOK'
  BY <1>1, <1>2, <1>3 DEF RefInv, TypeOK
<1>8. ClientInv'
  BY <1>1, <1>4 DEF RefInv, ClientInv, SameRoles
<1>9. ThreadInv'
  BY <1>1 DEF RefInv, ThreadInv
<1>10. OnceEach'
  BY <1>1, <1>2, <1>4 DEF RefInv, OnceEach, SameRoles
<1>11. SyncInv'
  BY <1>1, <1>2, <1>5, <1>6 DEF RefInv, SyncInv, Unanswered
<1>12. CountInv'
  <2>1. Held' = Held /\ OnePlace'
    BY <1>1, <1>2, <1>5, <1>6 DEF RefInv, CountInv, OnePlace, Held
  <2>2. QED BY <1>1, <1>5, <2>1 DEF RefInv, CountInv, Skips
<1>13. QED BY <1>7, <1>8, <1>9, <1>10, <1>11, <1>12 DEF RefInv

LEMMA ExitKeeps == ASSUME RefInv, Exit PROVE RefInv'
<1>1. /\ thread = "loop" /\ thread' = "gone" /\ handled' = NULL
      /\ lost' = lost \cup InHand
      /\ message' = message /\ free' = free /\ outMessages' = outMessages
      /\ inMessages' = inMessages /\ outEvent' = outEvent
      /\ at' = at /\ msg' = msg /\ retMsg' = retMsg /\ dispose' = dispose
  BY DEF Exit, ThreadSteps, InHand, clients, queues
<1>2. InHand \subseteq Message /\ \A m \in InHand : ~message[m].isSync
  BY <1>1 DEF RefInv, ThreadInv, TypeOK, InHand
<1>3. SameRoles
  BY <1>1 DEF SameRoles, IsSender, Waits
<1>4. /\ Sent' = Sent /\ Awaited' = Awaited /\ Received' = Received /\ Answers' = Answers
  <2>1. Sent' = Sent
    BY <1>1, <1>3 DEF SameRoles, Sent
  <2>2. Awaited' = Awaited
    BY <1>1, <1>3 DEF SameRoles, Awaited
  <2>3. Received' = Received
    BY <1>1, <1>3 DEF SameRoles, Received
  <2>4. Answers' = Answers
    BY <1>1, <1>3 DEF SameRoles, Answers
  <2>5. QED BY <2>1, <2>2, <2>3, <2>4
<1>5. Out' = Out /\ In' = In /\ Taken' = Taken /\ InHand' = {}
  BY <1>1 DEF Out, In, Taken, InHand
<1>6. TypeOK'
  BY <1>1, <1>2 DEF RefInv, TypeOK
<1>7. ClientInv'
  BY <1>1, <1>3 DEF RefInv, ClientInv, SameRoles
<1>8. ThreadInv'
  BY <1>1 DEF ThreadInv
<1>9. OnceEach'
  BY <1>1, <1>3 DEF RefInv, OnceEach, SameRoles
<1>10. SyncInv'
  BY <1>1, <1>2, <1>4, <1>5, NullIsNoMessage DEF RefInv, SyncInv, Unanswered
<1>11. CountInv'
  <2>1. Held' = Held /\ OnePlace'
    BY <1>1, <1>4, <1>5 DEF RefInv, CountInv, OnePlace, Held
  <2>2. QED BY <1>1, <1>4, <2>1 DEF RefInv, CountInv, Skips
<1>12. QED BY <1>6, <1>7, <1>8, <1>9, <1>10, <1>11 DEF RefInv

-----------------------------------------------------------------------------
(* The invariant, and what follows                                         *)

LEMMA InitRefInv == Init => RefInv
<1> SUFFICES ASSUME Init PROVE RefInv
  OBVIOUS
<1>1. ToSet(<<>>) = {} /\ Injective(<<>>)
  BY DEF ToSet, Injective
<1>2. Out = {} /\ In = {} /\ InHand = {}
  BY <1>1 DEF Init, Out, In, InHand
<1>3. Sent = {} /\ Awaited = {} /\ Received = {} /\ Answers = {} /\ Taken = {}
  BY NullIsNoMessage DEF Init, Sent, Awaited, Received, Answers, Taken, IsSender, Waits
<1>4. TypeOK
  <2>1. message \in [Message -> Fields]
    BY NewFields DEF Init
  <2>2. at \in [Client -> {"idle", "sent", "sent_async", "waiting", "timed_out", "releasing",
                          "answered", "received"}]
    BY DEF Init
  <2>3. msg \in [Client -> Message \cup {NULL}] /\ retMsg \in [Client -> Message \cup {NULL}]
    BY DEF Init
  <2>4. /\ free \subseteq Message /\ lost \subseteq Message
        /\ outMessages \in Seq(Message) /\ inMessages \in Seq(Message)
        /\ outEvent \in BOOLEAN
    <3>1. free \subseteq Message /\ lost \subseteq Message /\ outEvent \in BOOLEAN
      BY DEF Init
    <3>2. outMessages \in Seq(Message) /\ inMessages \in Seq(Message)
      <4>1. outMessages = <<>> /\ inMessages = <<>>
        BY DEF Init
      <4>2. QED BY <4>1
    <3>3. QED BY <3>1, <3>2
  <2>5. /\ thread \in {"loop", "not_waiting_yet", "waiting", "handling", "handling_again",
                       "replied", "handled", "gone"}
        /\ handled \in Message \cup {NULL}
        /\ dispose \in {"no", "stopping", "joining", "purging", "done"}
    BY DEF Init
  <2>6. QED BY <2>1, <2>2, <2>3, <2>4, <2>5, Typed
<1>5. ClientInv /\ ThreadInv /\ OnceEach
  BY <1>1 DEF Init, ClientInv, ThreadInv, OnceEach, IsSender, Waits
<1>6. SyncInv /\ CountInv
  BY <1>2, <1>3, NewFields DEF Init, SyncInv, CountInv, OnePlace, Held, Skips
<1>7. QED BY <1>4, <1>5, <1>6 DEF RefInv

LEMMA StutterKeeps == ASSUME RefInv, UNCHANGED vars PROVE RefInv'
<1>1. /\ message' = message /\ free' = free /\ outMessages' = outMessages
      /\ inMessages' = inMessages /\ outEvent' = outEvent /\ at' = at /\ msg' = msg
      /\ retMsg' = retMsg /\ thread' = thread /\ handled' = handled /\ dispose' = dispose
      /\ lost' = lost
  BY DEF vars, queues, clients
<1>2. SameRoles /\ StillRight
  BY <1>1 DEF SameRoles, StillRight, IsSender, Waits
<1>3. TypeOK' /\ ClientInv' /\ ThreadInv'
  BY <1>1 DEF RefInv, TypeOK, ClientInv, ThreadInv, IsSender, Waits
<1>4. QED BY <1>1, <1>2, <1>3, QuietStep DEF RefInv

LEMMA RefInvStep == RefInv /\ [Next]_vars => RefInv'
<1> SUFFICES ASSUME RefInv, [Next]_vars PROVE RefInv'
  OBVIOUS
<1>1. ASSUME NEW c \in Client, ClientStep(c) PROVE RefInv'
  <2>1. CASE SendOutMessageSync(c) BY <2>1, SendOutMessageSyncKeeps
  <2>2. CASE SendOutMessage(c) BY <2>2, SendOutMessageKeeps
  <2>3. CASE SetOutEvent(c) BY <2>3, SetOutEventKeeps
  <2>4. CASE WaitReplied(c) BY <2>4, WaitRepliedKeeps
  <2>5. CASE WaitTimesOut(c) BY <2>5, WaitTimesOutKeeps
  <2>6. CASE TakeAnswerOrGiveUp(c) BY <2>6, TakeAnswerOrGiveUpKeeps
  <2>7. CASE ReleaseSent(c) BY <2>7, ReleaseSentKeeps
  <2>8. CASE ReleaseAnswer(c) BY <2>8, ReleaseAnswerKeeps
  <2>9. CASE ReceiveInMessage(c) BY <2>9, ReceiveInMessageKeeps
  <2>10. CASE ReleaseReceived(c) BY <2>10, ReleaseReceivedKeeps
  <2>11. CASE ReplyToReceived(c) BY <2>11, ReplyToReceivedKeeps
  <2>12. QED
    BY <1>1, <2>1, <2>2, <2>3, <2>4, <2>5, <2>6, <2>7, <2>8, <2>9, <2>10, <2>11
      DEF ClientStep, Sends, GoesOn
<1>2. CASE ThreadStep
  <2>1. CASE ReceiveOutMessage BY <2>1, ReceiveOutMessageKeeps
  <2>2. CASE NothingReceived BY <2>2, NothingReceivedKeeps
  <2>3. CASE EnterWait BY <2>3, EnterWaitKeeps
  <2>4. CASE WakeUp BY <2>4, WakeUpKeeps
  <2>5. CASE TimesOut BY <2>5, TimesOutKeeps
  <2>6. CASE SelfTrigger BY <2>6, SelfTriggerKeeps
  <2>7. CASE HandleAgain BY <2>7, HandleAgainKeeps
  <2>8. CASE \E dropped \in SUBSET ToSet(outMessages) : PurgeOut(dropped)
    BY <2>8, PurgeOutKeeps
  <2>9. CASE ReplySync BY <2>9, ReplySyncKeeps
  <2>10. CASE ReplyTooLate BY <2>10, ReplyTooLateKeeps
  <2>11. CASE ReplySetsEvent BY <2>11, ReplySetsEventKeeps
  <2>12. CASE NoReply BY <2>12, NoReplyKeeps
  <2>13. CASE SendInMessage BY <2>13, SendInMessageKeeps
  <2>14. CASE ReleaseHandled BY <2>14, ReleaseHandledKeeps
  <2>15. CASE Exit BY <2>15, ExitKeeps
  <2>16. QED
    BY <1>2, <2>1, <2>2, <2>3, <2>4, <2>5, <2>6, <2>7, <2>8, <2>9, <2>10, <2>11, <2>12,
       <2>13, <2>14, <2>15 DEF ThreadStep, Runs
<1>3. CASE StopThread BY <1>3, StopThreadKeeps
<1>4. CASE Disposes
  BY <1>4, SetEventToStopKeeps, ThreadEndedKeeps, PurgeOneKeeps, PurgedKeeps DEF Disposes
<1>5. CASE UNCHANGED vars BY <1>5, StutterKeeps
<1>6. QED BY <1>1, <1>2, <1>3, <1>4, <1>5 DEF Next

(* A set all of whose elements are the same has at most one.               *)
LEMMA AtMostOne ==
  ASSUME NEW S, \A x, y \in S : x = y
  PROVE  IsFiniteSet(S) /\ Cardinality(S) = IF S = {} THEN 0 ELSE 1
<1>1. CASE S = {}
  BY <1>1, FS_EmptySet
<1>2. CASE S # {}
  <2>1. PICK x : x \in S
    BY <1>2
  <2>2. S = {x}
    BY <2>1
  <2>3. IsFiniteSet(S) /\ Cardinality(S) = 1
    BY <2>2, FS_Singleton
  <2>4. QED BY <1>2, <2>3
<1>3. QED BY <1>1, <1>2

(* Who holds a message, by the place it is in.                             *)
SentBy(m) == {<<"msg", c>> : c \in {c \in Client : IsSender(c) /\ msg[c] = m}}
OutAt(m) == {<<"out", i>> : i \in InQueue(outMessages, m)}
InAt(m) == {<<"in", i>> : i \in InQueue(inMessages, m)}
ReceivedBy(m) == {<<"msg", c>> : c \in {c \in Client : at[c] = "received" /\ msg[c] = m}}
TakenBy(m) == {<<"ret", c>> : c \in {c \in Client : retMsg[c] = m}}
AnswerTo(m) ==
    {<<"answer", c>> : c \in {c \in Client : Waits(c) /\ message[msg[c]].replyMessage = m}}
InHandOf(m) == {<<"thread", i>> : i \in {i \in {1} : handled = m}}
LostAt(m) == {<<"lost", i>> : i \in {i \in {1} : m \in lost}}

HeldAt(m) ==
    OutAt(m) \cup InAt(m) \cup ReceivedBy(m) \cup TakenBy(m) \cup AnswerTo(m)
    \cup InHandOf(m) \cup LostAt(m)

LEMMA HoldersSplit ==
  ASSUME RefInv, NEW m \in Message
  PROVE  Holders(m) = SentBy(m) \cup HeldAt(m) /\ SentBy(m) \cap HeldAt(m) = {}
<1> DEFINE byMsg == {<<"msg", c>> : c \in {c \in Client : msg[c] = m}}
<1>1. Holders(m) = OutAt(m) \cup InAt(m) \cup byMsg \cup TakenBy(m) \cup AnswerTo(m)
                   \cup InHandOf(m) \cup LostAt(m)
  BY DEF Holders, OutAt, InAt, TakenBy, AnswerTo, InHandOf, LostAt
<1>2. \A c \in Client : msg[c] = m => IsSender(c) \/ at[c] = "received"
  BY NullIsNoMessage DEF RefInv, ClientInv, TypeOK, IsSender
<1>3. byMsg = SentBy(m) \cup ReceivedBy(m)
  BY <1>2 DEF SentBy, ReceivedBy
<1>4. SentBy(m) \cap ReceivedBy(m) = {}
  BY DEF SentBy, ReceivedBy, IsSender
<1>5. SentBy(m) \cap (OutAt(m) \cup InAt(m) \cup TakenBy(m) \cup AnswerTo(m)
                       \cup InHandOf(m) \cup LostAt(m)) = {}
  BY DEF SentBy, OutAt, InAt, TakenBy, AnswerTo, InHandOf, LostAt
<1> HIDE DEF byMsg
<1>6. QED BY <1>1, <1>3, <1>4, <1>5 DEF HeldAt

LEMMA SentByOne ==
  ASSUME RefInv, NEW m \in Message
  PROVE  /\ \A x, y \in SentBy(m) : x = y
         /\ SentBy(m) # {} <=> m \in Sent
<1>1. \A c, d \in Client : msg[c] = m /\ msg[d] = m => c = d
  BY NullIsNoMessage DEF RefInv, OnceEach
<1>2. QED BY <1>1 DEF SentBy, Sent

LEMMA HeldAtOne ==
  ASSUME RefInv, NEW m \in Message
  PROVE  /\ \A x, y \in HeldAt(m) : x = y
         /\ HeldAt(m) # {} <=> m \in Held
<1>1. m # NULL
  BY NullIsNoMessage
<1>2. (\A x, y \in OutAt(m) : x = y) /\ (OutAt(m) # {} <=> m \in Out)
  BY DEF RefInv, OnceEach, OutAt, InQueue, Injective, Out, ToSet
<1>3. (\A x, y \in InAt(m) : x = y) /\ (InAt(m) # {} <=> m \in In)
  BY DEF RefInv, OnceEach, InAt, InQueue, Injective, In, ToSet
<1>4. (\A x, y \in ReceivedBy(m) : x = y) /\ (ReceivedBy(m) # {} <=> m \in Received)
  <2>1. \A c, d \in Client : msg[c] = m /\ msg[d] = m => c = d
    BY <1>1 DEF RefInv, OnceEach
  <2>2. QED BY <2>1 DEF ReceivedBy, Received
<1>5. (\A x, y \in TakenBy(m) : x = y) /\ (TakenBy(m) # {} <=> m \in Taken)
  <2>1. \A c, d \in Client : retMsg[c] = m /\ retMsg[d] = m => c = d
    BY <1>1 DEF RefInv, OnceEach
  <2>2. QED BY <2>1 DEF TakenBy, Taken
<1>6. (\A x, y \in AnswerTo(m) : x = y) /\ (AnswerTo(m) # {} <=> m \in Answers)
  <2>1. \A c, d \in Client :
           /\ Waits(c) /\ message[msg[c]].replyMessage = m
           /\ Waits(d) /\ message[msg[d]].replyMessage = m
           => c = d
    BY <1>1 DEF RefInv, OnceEach
  <2>2. QED BY <2>1 DEF AnswerTo, Answers
<1>7. (\A x, y \in InHandOf(m) : x = y) /\ (InHandOf(m) # {} <=> m \in InHand)
  BY <1>1 DEF InHandOf, InHand
<1>8. (\A x, y \in LostAt(m) : x = y) /\ (LostAt(m) # {} <=> m \in lost)
  BY DEF LostAt
<1>9. HeldAt(m) # {} <=> m \in Held
  BY <1>2, <1>3, <1>4, <1>5, <1>6, <1>7, <1>8 DEF HeldAt, Held
<1>10. ASSUME NEW x \in HeldAt(m), NEW y \in HeldAt(m) PROVE x = y
  BY <1>2, <1>3, <1>4, <1>5, <1>6, <1>7, <1>8 DEF HeldAt, RefInv, CountInv, OnePlace
<1>11. QED BY <1>9, <1>10

LEMMA CountedIfInv == RefInv => ReferencesCounted
<1> SUFFICES ASSUME RefInv, NEW m \in Message
             PROVE  Cardinality(Holders(m)) = IF m \in free THEN 0 ELSE IF Skips(m) THEN 2 ELSE 1
  BY DEF ReferencesCounted
<1> DEFINE S == SentBy(m)
           H == HeldAt(m)
<1>1. IsFiniteSet(S) /\ Cardinality(S) = IF m \in Sent THEN 1 ELSE 0
  BY SentByOne, AtMostOne
<1>2. IsFiniteSet(H) /\ Cardinality(H) = IF m \in Held THEN 1 ELSE 0
  BY HeldAtOne, AtMostOne
<1>3. Holders(m) = S \cup H /\ S \cap H = {}
  BY HoldersSplit
<1> HIDE DEF S, H
<1>4. Cardinality(S \cup H) = Cardinality(S) + Cardinality(H) - Cardinality(S \cap H)
  BY <1>1, <1>2, FS_Union
<1>5. Cardinality(Holders(m)) = Cardinality(S) + Cardinality(H)
  <2>1. Cardinality(S \cap H) = 0
    BY <1>3, FS_EmptySet
  <2>2. QED BY <1>1, <1>2, <1>3, <1>4, <2>1
<1>6. /\ m \in free <=> m \notin Sent /\ m \notin Held
      /\ Skips(m) <=> m \in Sent /\ m \in Held
  BY DEF RefInv, CountInv
<1>7. QED BY <1>1, <1>2, <1>5, <1>6

(* A message is free exactly when nobody has a pointer to it, has two       *)
(* holders while it was sent synchronously and neither side released it,    *)
(* and one otherwise, whatever the number of clients and messages.          *)
THEOREM ReferencesCorrect == Spec => []ReferencesCounted
<1>1. Init => RefInv
  BY InitRefInv
<1>2. RefInv /\ [Next]_vars => RefInv'
  BY RefInvStep
<1>3. RefInv => ReferencesCounted
  BY CountedIfInv
<1>4. QED BY <1>1, <1>2, <1>3, PTL DEF Spec
=============================================================================
