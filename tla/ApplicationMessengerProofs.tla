--------------------- MODULE ApplicationMessengerProofs ---------------------
(***************************************************************************)
(* The pointers in a message are good as long as anybody has it, and       *)
(* nothing is queued after Cleanup: for any number of threads, messages    *)
(* and nested dialogs.                                                     *)
(***************************************************************************)
EXTENDS ApplicationMessenger, SequenceTheorems, TLAPS

Place == {"idle", "queueing", "before wait", "waiting", "gone"}
Level == [at : {"begin", "window", "messages", "render"},
          message : Messages \cup {NULL}, open : BOOLEAN]

TypeOK ==
    /\ m_vecMessages \in Seq(Messages) /\ m_vecWindowMessages \in Seq(Messages)
    /\ m_critSection \in Thread \cup {NULL} /\ g_graphicsContext \in Thread \cup {NULL}
    /\ m_bStop \in BOOLEAN
    /\ at \in [Thread -> Place]
    /\ message \in [Thread -> Messages \cup {NULL}]
    /\ restore \in [Thread -> BOOLEAN] /\ signaled \in [Thread -> BOOLEAN]
    /\ levels \in Seq(Level)
    /\ stop \in {"no", "cancel jobs", "cleanup", "unload", "done"}

(* The lock is with the thread that queues; what that thread has in hand   *)
(* is its own.                                                             *)
Queueing == \A t \in Thread : at[t] = "queueing" <=> m_critSection = t
OwnMessage ==
    \A t \in Thread :
        at[t] = "queueing" => message[t] # NULL /\ message[t].from = t /\ ~signaled[t]

(* Nobody was told of an answer he does not wait for.                      *)
NotTold == \A t \in Thread : at[t] = "idle" => ~signaled[t]

(* A loop inside another runs for a message of the outer one.              *)
OuterBusy == \A i \in 1 .. Len(levels) - 1 : levels[i].message # NULL

(* Stop has begun exactly when messages are refused.                       *)
StopRefuses == m_bStop <=> stop # "no"

(* The last that was about to queue when Stop began is done by Cleanup.    *)
NobodyQueues == stop \in {"unload", "done"} => m_critSection = NULL

ControlInv ==
    /\ TypeOK /\ Queueing /\ OwnMessage /\ NotTold /\ OuterBusy /\ StopRefuses
    /\ NobodyQueues /\ NothingAfterCleanup

(* A message whose sender waits, and is where it says.                     *)
Good(m) ==
    m.wait => /\ m.from \in Thread
              /\ at[m.from] \in {"before wait", "waiting"}
              /\ message[m.from] = m
              /\ ~signaled[m.from]

Hand == [i \in DOMAIN levels |-> levels[i].message]

(* Two messages in two places are not of one waiting thread.               *)
Same(a, b) == a # NULL /\ b # NULL /\ a.wait /\ b.wait /\ a.from = b.from
Alone(p) == \A i, j \in DOMAIN p : i # j => ~Same(p[i], p[j])
Apart(p, q) == \A i \in DOMAIN p, j \in DOMAIN q : ~Same(p[i], q[j])
AllGood(p) == \A i \in DOMAIN p : p[i] # NULL => Good(p[i])

OncePending ==
    /\ Alone(m_vecMessages) /\ Alone(m_vecWindowMessages) /\ Alone(Hand)
    /\ Apart(m_vecMessages, m_vecWindowMessages)
    /\ Apart(m_vecMessages, Hand) /\ Apart(m_vecWindowMessages, Hand)
AllWaitedFor == AllGood(m_vecMessages) /\ AllGood(m_vecWindowMessages) /\ AllGood(Hand)

WaitInv == OncePending /\ AllWaitedFor

-----------------------------------------------------------------------------
(* What the steps of the application thread do to its loops                *)

(* Nothing but where the innermost loop is, or whether a dialog is open. *)
SameHand ==
    /\ levels' \in Seq(Level) /\ Len(levels') = Len(levels)
    /\ \A i \in 1 .. Len(levels) : levels'[i].message = levels[i].message

(* The innermost of the loops that go on has another message, or none.     *)
LastHand(n, m) ==
    /\ levels' \in Seq(Level) /\ Len(levels') = n
    /\ \A i \in 1 .. n - 1 : levels'[i].message = levels[i].message
    /\ levels'[n].message = m

LEMMA NewLevelInside ==
  ASSUME NEW s \in Seq(Level), NEW i \in 1 .. Len(s), NEW l \in Level
  PROVE  /\ [s EXCEPT ![i] = l] \in Seq(Level)
         /\ Len([s EXCEPT ![i] = l]) = Len(s)
         /\ [s EXCEPT ![i] = l][i] = l
         /\ \A k \in 1 .. Len(s) : k # i => [s EXCEPT ![i] = l][k] = s[k]
OBVIOUS

LEMMA GoesKeepsHand ==
  ASSUME levels \in Seq(Level), NEW from,
         NEW to \in {"begin", "window", "messages", "render"}, Goes(from, to)
  PROVE  SameHand
<1> DEFINE l == [levels[Len(levels)] EXCEPT !.at = to]
<1>1. Len(levels) \in 1 .. Len(levels) /\ levels' = [levels EXCEPT ![Len(levels)] = l]
  BY DEF Goes, Depth
<1>2. levels[Len(levels)] \in Level
  BY <1>1
<1>3. l \in Level /\ l.message = levels[Len(levels)].message
  BY <1>2 DEF Level
<1> HIDE DEF l
<1>4. QED BY <1>1, <1>3, NewLevelInside DEF SameHand

LEMMA CloseKeepsHand ==
  ASSUME levels \in Seq(Level), NEW i \in 1 .. Depth, CloseDialog(i)
  PROVE  SameHand
<1> DEFINE l == [levels[i] EXCEPT !.open = FALSE]
<1>1. i \in 1 .. Len(levels) /\ levels' = [levels EXCEPT ![i] = l]
  BY DEF CloseDialog, Depth
<1>2. levels[i] \in Level
  BY <1>1
<1>3. l \in Level /\ l.message = levels[i].message
  BY <1>2 DEF Level
<1> HIDE DEF l
<1>4. QED BY <1>1, <1>3, NewLevelInside DEF SameHand

LEMMA LastMessage ==
  ASSUME NEW s \in Seq(Level), s # << >>, NEW m \in Messages \cup {NULL},
         levels' = [s EXCEPT ![Len(s)].message = m],
         \A k \in 1 .. Len(s) : s[k] = levels[k]
  PROVE  LastHand(Len(s), m)
<1> DEFINE l == [s[Len(s)] EXCEPT !.message = m]
<1>1. Len(s) \in 1 .. Len(s) /\ levels' = [s EXCEPT ![Len(s)] = l]
  OBVIOUS
<1>2. s[Len(s)] \in Level
  BY <1>1
<1>3. l \in Level /\ l.message = m
  BY <1>2 DEF Level
<1> HIDE DEF l
<1>4. levels' \in Seq(Level) /\ Len(levels') = Len(s) /\ levels'[Len(s)] = l
  BY <1>1, <1>3, NewLevelInside
<1>5. \A k \in 1 .. Len(s) - 1 : levels'[k] = s[k]
  BY <1>1, <1>3, NewLevelInside
<1>6. QED BY <1>3, <1>4, <1>5 DEF LastHand

LEMMA HandledEmpties ==
  ASSUME TypeOK, NEW n \in 1 .. Depth, NEW stack,
         stack = SubSeq(levels, 1, n), Handled(stack)
  PROVE  /\ LastHand(n, NULL)
         /\ UNCHANGED <<at, message, restore>>
         /\ signaled' \in [Thread -> BOOLEAN]
         /\ \A t \in Thread :
              signaled'[t] = (signaled[t] \/ (levels[n].message.wait /\ levels[n].message.from = t))
<1>1. /\ stack \in Seq(Level) /\ Len(stack) = n /\ stack # << >>
      /\ \A k \in 1 .. n : stack[k] = levels[k]
  <2>1. levels \in Seq(Level) /\ n \in 1 .. Len(levels)
    BY DEF TypeOK, Depth
  <2>2. \A k \in 1 .. n : levels[k] \in Level
    BY <2>1
  <2>3. QED BY <2>1, <2>2, SubSeqProperties
<1>2. Last(stack) = levels[n]
  BY <1>1 DEF Last
<1>3. LastHand(n, NULL)
  BY <1>1, LastMessage DEF Handled
<1>4. signaled' = [t \in Thread |-> signaled[t] \/ t \in Waiters({levels[n].message})]
  BY <1>2 DEF Handled, SetEvents
<1>5. \A t : t \in Waiters({levels[n].message}) <=>
                 (levels[n].message.wait /\ levels[n].message.from = t)
  BY DEF Waiters
<1>6. \A t \in Thread :
         signaled'[t] = (signaled[t] \/ (levels[n].message.wait /\ levels[n].message.from = t))
  BY <1>4, <1>5, Zenon
<1>7. signaled' \in [Thread -> BOOLEAN]
  BY <1>4, Zenon DEF TypeOK
<1>8. QED BY <1>3, <1>6, <1>7 DEF Handled

-----------------------------------------------------------------------------
(* Who may queue, and when: ControlInv                                     *)

LEMMA InitControlInv == Init => ControlInv
<1> SUFFICES ASSUME Init PROVE ControlInv
  OBVIOUS
<1>1. NewLevel \in Level
  BY DEF NewLevel, Level
<1>2. levels \in Seq(Level)
  BY <1>1 DEF Init
<1>3. TypeOK
  <2>1. m_vecMessages \in Seq(Messages) /\ m_vecWindowMessages \in Seq(Messages)
    BY DEF Init
  <2>2. /\ at \in [Thread -> Place] /\ message \in [Thread -> Messages \cup {NULL}]
        /\ restore \in [Thread -> BOOLEAN] /\ signaled \in [Thread -> BOOLEAN]
    BY DEF Init, Place
  <2>3. QED BY <1>2, <2>1, <2>2 DEF Init, TypeOK
<1>4. QED
  BY <1>3, ApplicationMessengerAssumption
  DEF Init, ControlInv, Queueing, OwnMessage, NotTold, OuterBusy, StopRefuses, NobodyQueues,
      NothingAfterCleanup

(* Messages go to the end of their queue.                                  *)
LEMMA PushTypes ==
  ASSUME TypeOK, NEW m \in Messages, Push(m)
  PROVE  m_vecMessages' \in Seq(Messages) /\ m_vecWindowMessages' \in Seq(Messages)
<1>1. m_vecMessages \in Seq(Messages) /\ m_vecWindowMessages \in Seq(Messages)
  BY DEF TypeOK
<1>2. \A q \in Seq(Messages) : Append(q, m) \in Seq(Messages)
  BY AppendProperties
<1>3. QED BY <1>1, <1>2, Zenon DEF Push

LEMMA ThreadControlInv ==
  ASSUME ControlInv, NEW t \in Thread, ThreadStep(t) PROVE ControlInv'
<1> USE ApplicationMessengerAssumption
<1>i. /\ TypeOK /\ Queueing /\ OwnMessage /\ NotTold /\ OuterBusy /\ StopRefuses
      /\ NobodyQueues /\ NothingAfterCleanup
  BY DEF ControlInv
<1>k. UNCHANGED <<levels, stop, m_bStop>>
  BY DEF ThreadStep, EnterGraphics, LeaveGraphics, Sends, SendMessage, GoesOn, Queued, Wait, Returns
<1>o. OuterBusy' /\ StopRefuses'
  BY <1>i, <1>k DEF OuterBusy, StopRefuses
<1>1. CASE EnterGraphics(t) \/ LeaveGraphics(t)
  <2>1. TypeOK'
    BY <1>i, <1>1 DEF EnterGraphics, LeaveGraphics, TypeOK, queues, threads
  <2>2. QED
    BY <1>i, <1>o, <1>1, <2>1 DEF EnterGraphics, LeaveGraphics, queues, threads, ControlInv,
                                  Queueing, OwnMessage,
                            NotTold, NobodyQueues, NothingAfterCleanup
<1>2. ASSUME NEW kind \in Kind, NEW wait \in BOOLEAN, SendMessage(t, kind, wait) PROVE ControlInv'
  <2> DEFINE m == [from |-> t, kind |-> kind, wait |-> wait]
  <2>1. m \in Messages
    BY DEF Messages
  <2>2. m.from = t
    OBVIOUS
  <2> HIDE DEF m
  <2>3. /\ at[t] = "idle" /\ at' = [at EXCEPT ![t] = "queueing"]
        /\ message' = [message EXCEPT ![t] = m]
        /\ m_critSection = NULL /\ m_critSection' = t /\ ~m_bStop
        /\ UNCHANGED <<queues, g_graphicsContext, restore, signaled>>
    BY <1>2 DEF SendMessage, ThreadSteps, Refuses, m
  <2>4. TypeOK'
    BY <1>i, <1>k, <2>1, <2>3 DEF TypeOK, Place, queues
  <2>5. Queueing'
    BY <1>i, <2>3 DEF Queueing, TypeOK
  <2>6. m # NULL
    BY <2>1
  <2>7. OwnMessage' /\ NotTold'
    BY <1>i, <2>2, <2>3, <2>6 DEF OwnMessage, NotTold, TypeOK
  <2>8. stop' = "no"
    BY <1>i, <1>k, <2>3 DEF StopRefuses
  <2>9. QED BY <1>o, <2>4, <2>5, <2>7, <2>8 DEF ControlInv, NobodyQueues, NothingAfterCleanup
<1>3. CASE Queued(t)
  <2>1. /\ at[t] = "queueing"
        /\ \E l \in {"before wait", "idle"} : at' = [at EXCEPT ![t] = l]
        /\ message' = message \/ message' = [message EXCEPT ![t] = NULL]
        /\ Push(message[t]) /\ m_critSection' = NULL
        /\ UNCHANGED <<g_graphicsContext, restore, signaled>>
    BY <1>3 DEF Queued, ThreadSteps
  <2>2. message[t] \in Messages
    BY <1>i, <2>1 DEF OwnMessage, TypeOK
  <2>3. TypeOK'
    BY <1>i, <1>k, <2>1, <2>2, PushTypes DEF TypeOK, Place
  <2>4. m_critSection = t
    BY <1>i, <2>1 DEF Queueing
  <2>5. Queueing'
    BY <1>i, <2>1, <2>4 DEF Queueing, TypeOK
  <2>6. OwnMessage' /\ NotTold'
    BY <1>i, <2>1 DEF OwnMessage, NotTold, TypeOK
  <2>7. stop \notin {"unload", "done"}
    BY <1>i, <2>4 DEF NobodyQueues
  <2>8. QED BY <1>k, <1>o, <2>3, <2>5, <2>6, <2>7 DEF ControlInv, NobodyQueues, NothingAfterCleanup
<1>4. CASE Wait(t)
  <2>1. /\ at[t] = "before wait" /\ at' = [at EXCEPT ![t] = "waiting"]
        /\ restore' \in [Thread -> BOOLEAN]
        /\ g_graphicsContext' \in {NULL, g_graphicsContext}
        /\ UNCHANGED <<queues, m_critSection, message, signaled>>
    BY <1>i, <1>4 DEF Wait, ThreadSteps, WithoutGraphics, TypeOK
  <2>2. TypeOK'
    BY <1>i, <1>k, <2>1 DEF TypeOK, Place, queues
  <2>3. QED BY <1>i, <1>k, <1>o, <2>1, <2>2
            DEF ControlInv, queues, Queueing, OwnMessage, NotTold, NobodyQueues,
                NothingAfterCleanup, TypeOK
<1>5. CASE Returns(t)
  <2>1. /\ at[t] = "waiting" /\ at' = [at EXCEPT ![t] = "idle"]
        /\ restore' \in [Thread -> BOOLEAN]
        /\ g_graphicsContext' \in {t, g_graphicsContext}
        /\ message' = [message EXCEPT ![t] = NULL]
        /\ signaled' = [signaled EXCEPT ![t] = FALSE]
        /\ UNCHANGED <<queues, m_critSection>>
    BY <1>i, <1>5 DEF Returns, ThreadSteps, TypeOK
  <2>2. TypeOK'
    BY <1>i, <1>k, <2>1 DEF TypeOK, Place, queues
  <2>3. QED BY <1>i, <1>k, <1>o, <2>1, <2>2
            DEF ControlInv, queues, Queueing, OwnMessage, NotTold, NobodyQueues,
                NothingAfterCleanup, TypeOK
<1>6. QED BY <1>1, <1>2, <1>3, <1>4, <1>5 DEF ThreadStep, Sends, GoesOn

(* Steps that only move the innermost loop, or give it a message.          *)
Moves ==
    \/ Begin \/ WindowMessagesDone \/ MessagesDone \/ Render
    \/ \E i \in 1 .. Depth : CloseDialog(i)

LEMMA MovesKeep ==
  ASSUME TypeOK, Moves
  PROVE  SameHand /\ UNCHANGED <<queues, locks, m_bStop, sent, threads, stop>>
<1> USE DEF Moves
<1>1. levels \in Seq(Level)
  BY DEF TypeOK
<1>2. UNCHANGED <<queues, locks, m_bStop, sent, threads, stop>>
  BY DEF Begin, WindowMessagesDone, MessagesDone, Render, CloseDialog
<1>3. SameHand
  <2>1. CASE \E i \in 1 .. Depth : CloseDialog(i)
    BY <1>1, <2>1, CloseKeepsHand
  <2>2. CASE Begin
    BY <1>1, <2>2, GoesKeepsHand DEF Begin
  <2>3. CASE WindowMessagesDone
    BY <1>1, <2>3, GoesKeepsHand DEF WindowMessagesDone
  <2>4. CASE MessagesDone
    BY <1>1, <2>4, GoesKeepsHand DEF MessagesDone
  <2>5. CASE Render
    BY <1>1, <2>5, GoesKeepsHand DEF Render
  <2>6. QED BY <2>1, <2>2, <2>3, <2>4, <2>5
<1>4. QED BY <1>2, <1>3

LEMMA TakeWindowMoves ==
  ASSUME TypeOK, TakeWindowMessage
  PROVE  /\ m_vecWindowMessages # << >> /\ m_vecWindowMessages' = Tail(m_vecWindowMessages)
         /\ Depth > 0 /\ levels[Depth].message = NULL
         /\ LastHand(Depth, Head(m_vecWindowMessages))
         /\ UNCHANGED <<m_vecMessages, locks, m_bStop, sent, threads, stop>>
<1>1. levels \in Seq(Level) /\ m_vecWindowMessages \in Seq(Messages)
  BY DEF TypeOK
<1>2. Head(m_vecWindowMessages) \in Messages
  BY <1>1, HeadTailProperties DEF TakeWindowMessage
<1>3. levels # << >> /\ levels' = [levels EXCEPT ![Len(levels)].message = Head(m_vecWindowMessages)]
  BY <1>1 DEF TakeWindowMessage, Depth
<1>4. LastHand(Len(levels), Head(m_vecWindowMessages))
  BY <1>1, <1>2, <1>3, LastMessage
<1>5. QED BY <1>4 DEF TakeWindowMessage, Taken, Depth, Here

LEMMA TakeMoves ==
  ASSUME TypeOK, TakeMessage
  PROVE  /\ m_vecMessages # << >> /\ m_vecMessages' = Tail(m_vecMessages)
         /\ Depth > 0 /\ levels[Depth].message = NULL
         /\ LastHand(Depth, Head(m_vecMessages))
         /\ UNCHANGED <<m_vecWindowMessages, locks, m_bStop, sent, threads, stop>>
<1>1. levels \in Seq(Level) /\ m_vecMessages \in Seq(Messages)
  BY DEF TypeOK
<1>2. Head(m_vecMessages) \in Messages
  BY <1>1, HeadTailProperties DEF TakeMessage
<1>3. levels # << >> /\ levels' = [levels EXCEPT ![Len(levels)].message = Head(m_vecMessages)]
  BY <1>1 DEF TakeMessage, Depth
<1>4. LastHand(Len(levels), Head(m_vecMessages))
  BY <1>1, <1>2, <1>3, LastMessage
<1>5. QED BY <1>4 DEF TakeMessage, Taken, Depth, Here

(* A message is done; the loop that was run for it, if any, is left.       *)
Finishes == HandleQuick \/ DialogEnds \/ StopReturns

LEMMA FinishesEmpties ==
  ASSUME TypeOK, OuterBusy, Finishes
  PROVE  \E n \in 1 .. Depth :
           /\ n >= Depth - 1 /\ levels[n].message # NULL
           /\ LastHand(n, NULL)
           /\ n = Depth - 1 => DialogEnds
           /\ UNCHANGED <<queues, locks, m_bStop, at, message, restore>>
           /\ stop' = stop \/ (stop = "unload" /\ stop' = "done")
           /\ signaled' \in [Thread -> BOOLEAN]
           /\ \A t \in Thread :
                signaled'[t] =
                  (signaled[t] \/ (levels[n].message.wait /\ levels[n].message.from = t))
<1>0. levels \in Seq(Level)
  BY DEF TypeOK
<1>1. levels \in Seq(Level) /\ Depth \in Nat /\ Depth = Len(levels)
  BY <1>0 DEF Depth
<1>2. UNCHANGED <<queues, locks, m_bStop>> /\ (stop' = stop \/ (stop = "unload" /\ stop' = "done"))
  BY DEF Finishes, HandleQuick, DialogEnds, StopReturns
<1>3. CASE HandleQuick \/ StopReturns
  <2>1. Depth > 0 /\ Here.message # NULL /\ Handled(levels)
    BY <1>3 DEF HandleQuick, StopReturns, Handles
  <2>2. levels = SubSeq(levels, 1, Depth)
    BY <1>1
  <2>3. Depth \in 1 .. Depth /\ levels[Depth].message # NULL
    BY <1>1, <2>1 DEF Here
  <2>4. QED BY <1>1, <1>2, <2>1, <2>2, <2>3, HandledEmpties
<1>4. CASE DialogEnds
  <2>1. Depth - 1 \in 1 .. Depth /\ Outer = SubSeq(levels, 1, Depth - 1) /\ Handled(Outer)
    BY <1>1, <1>4 DEF DialogEnds, Outer
  <2>2. levels[Depth - 1].message # NULL
    BY <1>1, <2>1 DEF OuterBusy
  <2>3. /\ LastHand(Depth - 1, NULL)
        /\ UNCHANGED <<at, message, restore>>
        /\ signaled' \in [Thread -> BOOLEAN]
        /\ \A t \in Thread :
             signaled'[t] = (signaled[t] \/ (/\ levels[Depth - 1].message.wait
                                            /\ levels[Depth - 1].message.from = t))
    BY <2>1, HandledEmpties
  <2>4. Depth - 1 >= Depth - 1
    BY <1>1
  <2>5. QED BY <1>2, <1>4, <2>1, <2>2, <2>3, <2>4, Zenon
<1>5. QED BY <1>3, <1>4 DEF Finishes

LEMMA OpenGrows ==
  ASSUME TypeOK, OpenDialog
  PROVE  /\ Depth > 0 /\ levels[Depth].message # NULL
         /\ LastHand(Depth + 1, NULL)
         /\ UNCHANGED <<queues, locks, m_bStop, sent, threads, stop>>
<1>1. levels \in Seq(Level) /\ NewLevel \in Level /\ NewLevel.message = NULL
  BY DEF TypeOK, NewLevel, Level
<1>2. levels' = Append(levels, NewLevel) /\ Depth > 0 /\ levels[Depth].message # NULL
  BY DEF OpenDialog, Handles, Here
<1>3. QED BY <1>1, <1>2, AppendProperties DEF LastHand, OpenDialog, Depth

-----------------------------------------------------------------------------
(* Where messages are: WaitInv                                             *)

(* The last of a row is new: one appended, or another message in hand.     *)
LEMMA NewLast ==
  ASSUME NEW p, NEW r, NEW n \in Nat, DOMAIN r = 1 .. n,
         \A i \in 1 .. n - 1 : i \in DOMAIN p /\ r[i] = p[i]
  PROVE  /\ Alone(p) /\ (\A i \in 1 .. n - 1 : ~Same(p[i], r[n])) => Alone(r)
         /\ \A q : Apart(p, q) /\ (\A j \in DOMAIN q : ~Same(r[n], q[j])) => Apart(r, q)
<1>1. ASSUME Alone(p), \A i \in 1 .. n - 1 : ~Same(p[i], r[n]) PROVE Alone(r)
  <2>1. ASSUME NEW i \in 1 .. n, NEW j \in 1 .. n, i # j PROVE ~Same(r[i], r[j])
    <3>1. CASE i # n /\ j # n
      BY <1>1, <2>1, <3>1 DEF Alone
    <3>2. CASE i = n
      BY <1>1, <2>1, <3>2 DEF Same
    <3>3. CASE j = n
      BY <1>1, <2>1, <3>3
    <3>4. QED BY <3>1, <3>2, <3>3
  <2>2. QED BY <2>1 DEF Alone
<1>2. ASSUME NEW q, Apart(p, q), \A j \in DOMAIN q : ~Same(r[n], q[j]) PROVE Apart(r, q)
  BY <1>2 DEF Apart
<1>3. QED BY <1>1, <1>2

LEMMA WithoutFirst ==
  ASSUME NEW p \in Seq(Messages), p # << >>
  PROVE  /\ Alone(p) => /\ Alone(Tail(p))
                        /\ \A i \in DOMAIN Tail(p) : ~Same(Head(p), Tail(p)[i])
         /\ \A q : Apart(p, q) => /\ Apart(Tail(p), q)
                                  /\ \A j \in DOMAIN q : ~Same(Head(p), q[j])
<1>1. /\ DOMAIN Tail(p) = 1 .. Len(p) - 1 /\ DOMAIN p = 1 .. Len(p) /\ Len(p) \in Nat \ {0}
      /\ \A i \in 1 .. Len(p) - 1 : Tail(p)[i] = p[i + 1]
  OBVIOUS
<1>2. Head(p) = p[1]
  OBVIOUS
<1>3. \A i \in 1 .. Len(p) - 1 : i + 1 \in 1 .. Len(p) /\ i + 1 # 1
  BY <1>1
<1>4. \A i, j \in 1 .. Len(p) - 1 : i # j => i + 1 # j + 1
  OBVIOUS
<1>5. Alone(p) => /\ Alone(Tail(p))
                  /\ \A i \in DOMAIN Tail(p) : ~Same(Head(p), Tail(p)[i])
  BY <1>1, <1>2, <1>3, <1>4 DEF Alone
<1>6. QED BY <1>1, <1>2, <1>3, <1>5 DEF Apart

LEMMA ApartSymmetric == ASSUME NEW p, NEW q PROVE Apart(p, q) <=> Apart(q, p)
BY DEF Apart, Same

(* Those who wait go on waiting for the same message.                      *)
Waiting(t) == at[t] \in {"before wait", "waiting"} /\ ~signaled[t]
KeepsWaiting(t) == Waiting(t) => Waiting(t)' /\ message'[t] = message[t]

LEMMA StaysGood ==
  ASSUME NEW m, Good(m), m.wait => KeepsWaiting(m.from)
  PROVE  Good(m)'
BY DEF Good, KeepsWaiting, Waiting

LEMMA SameHandIsHand == ASSUME levels \in Seq(Level), SameHand PROVE Hand' = Hand
<1>1. DOMAIN levels = 1 .. Len(levels) /\ DOMAIN levels' = 1 .. Len(levels)
  BY DEF SameHand
<1>2. QED BY <1>1 DEF SameHand, Hand

LEMMA StayWaitInv ==
  ASSUME WaitInv, UNCHANGED queues, Hand' = Hand, \A t \in Thread : KeepsWaiting(t)
  PROVE  WaitInv'
<1>1. UNCHANGED <<m_vecMessages, m_vecWindowMessages>>
  BY DEF queues
<1>2. OncePending'
  BY <1>1 DEF WaitInv, OncePending
<1>3. \A m : Good(m) => Good(m)'
  BY StaysGood DEF Good
<1>4. AllWaitedFor'
  <2>1. AllGood(m_vecMessages)' 
    BY <1>1, <1>3 DEF WaitInv, AllWaitedFor, AllGood, Good
  <2>2. AllGood(m_vecWindowMessages)' 
    BY <1>1, <1>3 DEF WaitInv, AllWaitedFor, AllGood, Good
  <2>3. AllGood(Hand)' 
    BY <1>3 DEF WaitInv, AllWaitedFor, AllGood, Good
  <2>4. QED BY <2>1, <2>2, <2>3 DEF AllWaitedFor
<1>5. QED BY <1>2, <1>4 DEF WaitInv

(* A new message is of somebody of whom nothing is pending yet.            *)
LEMMA PushWaitInv ==
  ASSUME TypeOK, WaitInv, NEW m \in Messages, Push(m), Hand' = Hand,
         \A t \in Thread : KeepsWaiting(t),
         m.wait => m.from \in Thread /\ ~Waiting(m.from),
         Good(m)'
  PROVE  WaitInv'
<1>1. \A x : x # NULL /\ Good(x) => ~Same(x, m) /\ ~Same(m, x)
  BY DEF Same, Good, Waiting
<1>2. \A x : Good(x) => Good(x)'
  BY StaysGood DEF Good
<1>3. ASSUME NEW p, AllGood(p)
      PROVE  /\ \A i \in DOMAIN p : ~Same(p[i], m) /\ ~Same(m, p[i])
             /\ \A i \in DOMAIN p : p[i] # NULL => Good(p[i])'
  BY <1>1, <1>2, <1>3 DEF AllGood, Same
<1>4. ASSUME NEW p \in Seq(Messages), AllGood(p), Alone(p)
      PROVE  /\ Alone(Append(p, m))
             /\ \A q : Apart(p, q) /\ AllGood(q) => Apart(Append(p, m), q)
             /\ \A i \in DOMAIN Append(p, m) : Append(p, m)[i] # NULL => Good(Append(p, m)[i])'
  <2> DEFINE r == Append(p, m)
  <2>1. /\ DOMAIN r = 1 .. Len(p) + 1 /\ Len(p) + 1 \in Nat /\ r[Len(p) + 1] = m
        /\ \A i \in 1 .. Len(p) : i \in DOMAIN p /\ r[i] = p[i]
    OBVIOUS
  <2>2. \A i \in 1 .. Len(p) + 1 : i = Len(p) + 1 \/ i \in 1 .. Len(p)
    OBVIOUS
  <2>3. Len(p) + 1 - 1 = Len(p)
    OBVIOUS
  <2> HIDE DEF r
  <2>4. Alone(r) /\ \A q : Apart(p, q) /\ (\A j \in DOMAIN q : ~Same(m, q[j])) => Apart(r, q)
    BY <1>3, <1>4, <2>1, <2>3, NewLast
  <2>5. \A q : Apart(p, q) /\ AllGood(q) => Apart(r, q)
    BY <1>3, <2>4
  <2>6. \A i \in DOMAIN r : r[i] # NULL => Good(r[i])'
    BY <1>3, <1>4, <2>1, <2>2
  <2>7. QED BY <2>4, <2>5, <2>6 DEF r
<1>5. /\ m_vecMessages \in Seq(Messages) /\ m_vecWindowMessages \in Seq(Messages)
      /\ OncePending /\ AllWaitedFor
  BY DEF TypeOK, WaitInv
<1>6. AllGood(Hand)'
  BY <1>3, <1>5 DEF AllWaitedFor, AllGood
<1>7. CASE m_vecMessages' = Append(m_vecMessages, m) /\ m_vecWindowMessages' = m_vecWindowMessages
  <2>1. OncePending'
    BY <1>4, <1>5, <1>7 DEF OncePending, AllWaitedFor
  <2>2. AllGood(m_vecMessages)'
    BY <1>4, <1>5, <1>7 DEF OncePending, AllWaitedFor, AllGood
  <2>3. AllGood(m_vecWindowMessages)'
    BY <1>3, <1>5, <1>7 DEF AllWaitedFor, AllGood
  <2>4. QED BY <1>6, <2>1, <2>2, <2>3 DEF WaitInv, AllWaitedFor
<1>8. CASE m_vecWindowMessages' = Append(m_vecWindowMessages, m) /\ m_vecMessages' = m_vecMessages
  <2>1. OncePending'
    BY <1>4, <1>5, <1>8, ApartSymmetric DEF OncePending, AllWaitedFor
  <2>2. AllGood(m_vecWindowMessages)'
    BY <1>4, <1>5, <1>8 DEF OncePending, AllWaitedFor, AllGood
  <2>3. AllGood(m_vecMessages)'
    BY <1>3, <1>5, <1>8 DEF AllWaitedFor, AllGood
  <2>4. QED BY <1>6, <2>1, <2>2, <2>3 DEF WaitInv, AllWaitedFor
<1>9. QED BY <1>7, <1>8 DEF Push

(* What LastHand says of the row of messages in hand.                      *)
LEMMA HandOfLast ==
  ASSUME levels \in Seq(Level), NEW n \in 1 .. Len(levels) + 1, NEW m, LastHand(n, m)
  PROVE  /\ DOMAIN Hand' = 1 .. n /\ Hand'[n] = m
         /\ \A i \in 1 .. n - 1 : i \in DOMAIN Hand /\ Hand'[i] = Hand[i]
<1>1. DOMAIN levels = 1 .. Len(levels) /\ DOMAIN levels' = 1 .. n
  BY DEF LastHand
<1>2. \A i \in 1 .. n - 1 : i \in 1 .. Len(levels) /\ i \in 1 .. n
  OBVIOUS
<1>3. n \in 1 .. n
  OBVIOUS
<1>4. QED BY <1>1, <1>2, <1>3 DEF LastHand, Hand

(* The first of a queue is given to a loop that has no message.            *)
LEMMA TakenWaitInv ==
  ASSUME NEW p \in Seq(Messages), p # << >>, NEW q, levels \in Seq(Level),
         Len(levels) > 0, LastHand(Len(levels), Head(p)),
         Alone(p), Apart(p, q), Apart(p, Hand), Alone(Hand), Apart(q, Hand),
         AllGood(p), AllGood(Hand)
  PROVE  /\ Alone(Tail(p)) /\ Apart(Tail(p), q) /\ Apart(Tail(p), Hand') /\ Alone(Hand')
         /\ Apart(q, Hand') /\ AllGood(Tail(p))
         /\ \A i \in DOMAIN Hand' : Hand'[i] # NULL => Good(Hand'[i])
<1> DEFINE n == Len(levels)
<1>1. n \in Nat /\ n \in 1 .. Len(levels) + 1
  OBVIOUS
<1>2. /\ DOMAIN Hand' = 1 .. n /\ Hand'[n] = Head(p)
      /\ \A i \in 1 .. n - 1 : i \in DOMAIN Hand /\ Hand'[i] = Hand[i]
  BY <1>1, HandOfLast
<1>3. /\ Alone(Tail(p)) /\ \A i \in DOMAIN Tail(p) : ~Same(Head(p), Tail(p)[i])
      /\ Apart(Tail(p), q) /\ \A j \in DOMAIN q : ~Same(Head(p), q[j])
      /\ Apart(Tail(p), Hand) /\ \A j \in DOMAIN Hand : ~Same(Head(p), Hand[j])
  BY WithoutFirst
<1>4. Alone(Hand')
  <2>1. \A i \in 1 .. n - 1 : ~Same(Hand[i], Hand'[n])
    BY <1>2, <1>3 DEF Same
  <2>2. QED BY <1>1, <1>2, <2>1, NewLast
<1>5. Apart(Hand', q) /\ Apart(Hand', Tail(p))
  <2>1. Apart(Hand, q) /\ Apart(Hand, Tail(p))
    BY <1>3, ApartSymmetric
  <2>2. \A j \in DOMAIN q : ~Same(Hand'[n], q[j])
    BY <1>2, <1>3
  <2>3. \A j \in DOMAIN Tail(p) : ~Same(Hand'[n], Tail(p)[j])
    BY <1>2, <1>3
  <2> HIDE DEF n
  <2>4. \A x : Apart(Hand, x) /\ (\A j \in DOMAIN x : ~Same(Hand'[n], x[j])) => Apart(Hand', x)
    BY <1>1, <1>2, NewLast
  <2>5. QED BY <2>1, <2>2, <2>3, <2>4
<1>6. AllGood(Tail(p)) /\ Good(Head(p))
  <2>1. /\ \A i \in DOMAIN Tail(p) : i + 1 \in DOMAIN p /\ Tail(p)[i] = p[i + 1]
        /\ 1 \in DOMAIN p /\ Head(p) = p[1] /\ p[1] \in Messages
    OBVIOUS
  <2>2. QED BY <2>1, ApplicationMessengerAssumption DEF AllGood
<1>7. \A i \in DOMAIN Hand' : Hand'[i] # NULL => Good(Hand'[i])
  <2>1. \A i \in 1 .. n : i = n \/ i \in 1 .. n - 1
    OBVIOUS
  <2>2. QED BY <1>2, <1>6, <2>1 DEF AllGood
<1>8. QED BY <1>3, <1>4, <1>5, <1>6, <1>7, ApartSymmetric

(* A message leaves the hand of its loop, and whoever waited for it is told: *)
(* nobody else is, because nobody waits for two.                           *)
LEMMA FinishedWaitInv ==
  ASSUME TypeOK, WaitInv, NEW n \in 1 .. Len(levels), NEW done, done = Hand[n], done # NULL,
         LastHand(n, NULL), UNCHANGED <<queues, at, message>>,
         \A t \in Thread : signaled'[t] = (signaled[t] \/ (done.wait /\ done.from = t))
  PROVE  WaitInv'
<1>a. levels \in Seq(Level)
  BY DEF TypeOK
<1>0. /\ levels \in Seq(Level) /\ n \in DOMAIN Hand /\ OncePending /\ AllWaitedFor
      /\ UNCHANGED <<m_vecMessages, m_vecWindowMessages>>
  BY <1>a DEF WaitInv, Hand, queues
<1>1. n \in Nat /\ n \in 1 .. Len(levels) + 1
  BY <1>0
<1>2. /\ DOMAIN Hand' = 1 .. n /\ Hand'[n] = NULL
      /\ \A i \in 1 .. n - 1 : i \in DOMAIN Hand /\ Hand'[i] = Hand[i]
  BY <1>0, <1>1, HandOfLast
<1>3. /\ Alone(Hand') /\ Apart(Hand', m_vecMessages) /\ Apart(Hand', m_vecWindowMessages)
  <2>1. \A x : ~Same(NULL, x) /\ ~Same(x, NULL)
    BY DEF Same
  <2>2. Alone(Hand) /\ Apart(Hand, m_vecMessages) /\ Apart(Hand, m_vecWindowMessages)
    BY <1>0, ApartSymmetric DEF OncePending
  <2>3. QED BY <1>1, <1>2, <2>1, <2>2, NewLast
<1>4. OncePending'
  BY <1>0, <1>3, ApartSymmetric DEF OncePending
<1>5. ASSUME NEW x, x # NULL, Good(x), ~Same(x, done) PROVE Good(x)'
  BY <1>5 DEF Good, Same
<1>6. AllGood(m_vecMessages)'
  <2>1. \A i \in DOMAIN m_vecMessages : ~Same(m_vecMessages[i], done)
    BY <1>0 DEF OncePending, Apart
  <2>2. QED BY <1>0, <1>5, <2>1 DEF AllWaitedFor, AllGood
<1>7. AllGood(m_vecWindowMessages)'
  <2>1. \A i \in DOMAIN m_vecWindowMessages : ~Same(m_vecWindowMessages[i], done)
    BY <1>0 DEF OncePending, Apart
  <2>2. QED BY <1>0, <1>5, <2>1 DEF AllWaitedFor, AllGood
<1>8. AllGood(Hand)'
  <2>1. \A i \in 1 .. n - 1 : i \in DOMAIN Hand /\ i # n
    BY <1>2
  <2>2. \A i \in 1 .. n - 1 : ~Same(Hand[i], done)
    BY <1>0, <2>1 DEF OncePending, Alone
  <2>3. \A i \in 1 .. n : i = n \/ i \in 1 .. n - 1
    BY <1>1
  <2>4. ASSUME NEW i \in 1 .. n, Hand'[i] # NULL PROVE Good(Hand[i])'
    <3>1. i \in 1 .. n - 1
      BY <1>2, <2>3, <2>4
    <3>2. Hand'[i] = Hand[i] /\ Good(Hand[i])
      BY <1>0, <1>2, <2>4, <3>1 DEF AllWaitedFor, AllGood
    <3>3. QED BY <1>5, <2>2, <2>4, <3>1, <3>2
  <2>5. QED BY <1>2, <2>4 DEF AllGood
<1>9. QED BY <1>4, <1>6, <1>7, <1>8 DEF WaitInv, AllWaitedFor

(* A dialog begins with nothing in hand.                                   *)
LEMMA OpenedWaitInv ==
  ASSUME TypeOK, WaitInv, LastHand(Len(levels) + 1, NULL), UNCHANGED <<queues, threads>>
  PROVE  WaitInv'
<1> DEFINE n == Len(levels) + 1
<1>0. /\ levels \in Seq(Level) /\ OncePending /\ AllWaitedFor
      /\ UNCHANGED <<m_vecMessages, m_vecWindowMessages, at, message, signaled>>
  BY DEF TypeOK, WaitInv, queues, threads
<1>1. n \in Nat /\ n \in 1 .. Len(levels) + 1
  BY <1>0
<1>2. /\ DOMAIN Hand' = 1 .. n /\ Hand'[n] = NULL
      /\ \A i \in 1 .. n - 1 : i \in DOMAIN Hand /\ Hand'[i] = Hand[i]
  BY <1>0, <1>1, HandOfLast
<1>3. /\ Alone(Hand') /\ Apart(Hand', m_vecMessages) /\ Apart(Hand', m_vecWindowMessages)
  <2>1. \A x : ~Same(NULL, x) /\ ~Same(x, NULL)
    BY DEF Same
  <2>2. Alone(Hand) /\ Apart(Hand, m_vecMessages) /\ Apart(Hand, m_vecWindowMessages)
    BY <1>0, ApartSymmetric DEF OncePending
  <2>3. QED BY <1>1, <1>2, <2>1, <2>2, NewLast
<1>4. OncePending'
  BY <1>0, <1>3, ApartSymmetric DEF OncePending
<1>5. \A x : Good(x) => Good(x)'
  BY <1>0 DEF Good
<1>6. AllGood(Hand)'
  <2>1. \A i \in 1 .. n : i = n \/ i \in 1 .. n - 1
    BY <1>1
  <2>2. QED BY <1>0, <1>2, <1>5, <2>1 DEF AllWaitedFor, AllGood
<1>7. QED BY <1>0, <1>4, <1>5, <1>6 DEF WaitInv, AllWaitedFor, AllGood

(* Cleanup tells all whose messages are queued.                            *)
LEMMA CleanupWaitInv == ASSUME TypeOK, WaitInv, Cleanup PROVE WaitInv'
<1>0. /\ m_vecMessages' = << >> /\ m_vecWindowMessages' = << >> /\ Hand' = Hand
      /\ UNCHANGED <<at, message>> /\ OncePending /\ AllWaitedFor
      /\ signaled \in [Thread -> BOOLEAN]
  BY DEF Cleanup, Hand, WaitInv, TypeOK
<1>1. OncePending'
  BY <1>0 DEF OncePending, Alone, Apart
<1>2. ASSUME NEW i \in DOMAIN Hand, Hand[i] # NULL PROVE Good(Hand[i])'
  <2>1. Good(Hand[i])
    BY <1>0, <1>2 DEF AllWaitedFor, AllGood
  <2>2. ASSUME Hand[i].wait
        PROVE  Hand[i].from \notin Waiters(ToSet(m_vecMessages) \cup ToSet(m_vecWindowMessages))
    <3>1. SUFFICES ASSUME NEW m \in ToSet(m_vecMessages) \cup ToSet(m_vecWindowMessages),
                          m.wait, m.from = Hand[i].from
                   PROVE  FALSE
      BY DEF Waiters
    <3>2. m \in Messages
      <4>1. m_vecMessages \in Seq(Messages) /\ m_vecWindowMessages \in Seq(Messages)
        BY DEF TypeOK
      <4>2. QED BY <3>1, <4>1 DEF ToSet
    <3>3. Same(m, Hand[i])
      BY <1>2, <2>2, <3>1, <3>2, ApplicationMessengerAssumption DEF Same
    <3>4. QED BY <1>0, <3>1, <3>3 DEF OncePending, Apart, ToSet
  <2>3. signaled' = [t \in Thread |-> signaled[t]
                       \/ t \in Waiters(ToSet(m_vecMessages) \cup ToSet(m_vecWindowMessages))]
    BY DEF Cleanup, SetEvents
  <2>4. QED BY <1>0, <2>1, <2>2, <2>3 DEF Good
<1>3. AllGood(Hand)'
  BY <1>0, <1>2 DEF AllGood
<1>4. AllGood(m_vecMessages)' /\ AllGood(m_vecWindowMessages)'
  BY <1>0 DEF AllGood
<1>5. QED BY <1>1, <1>3, <1>4 DEF WaitInv, AllWaitedFor

-----------------------------------------------------------------------------
(* Both together                                                           *)

IInv == ControlInv /\ WaitInv

LEMMA InitIInv == Init => IInv
<1> SUFFICES ASSUME Init PROVE IInv
  OBVIOUS
<1>1. /\ m_vecMessages = << >> /\ m_vecWindowMessages = << >>
      /\ DOMAIN levels = 1 .. 1 /\ levels[1].message = NULL
  BY DEF Init, NewLevel
<1>2. DOMAIN Hand = 1 .. 1 /\ \A i \in DOMAIN Hand : Hand[i] = NULL
  BY <1>1 DEF Hand
<1>3. WaitInv
  BY <1>1, <1>2 DEF WaitInv, OncePending, AllWaitedFor, Alone, Apart, AllGood, Same
<1>4. QED BY <1>3, InitControlInv DEF IInv

LEMMA ThreadWaitInv ==
  ASSUME IInv, NEW t \in Thread, ThreadStep(t) PROVE WaitInv'
<1>i. /\ ControlInv /\ WaitInv /\ TypeOK /\ Queueing /\ OwnMessage
      /\ at \in [Thread -> Place] /\ message \in [Thread -> Messages \cup {NULL}]
      /\ signaled \in [Thread -> BOOLEAN]
  BY DEF IInv, ControlInv, TypeOK
<1>h. Hand' = Hand
  BY DEF ThreadStep, EnterGraphics, LeaveGraphics, Sends, SendMessage, GoesOn, Queued, Wait, Returns,
         Hand
<1>1. CASE EnterGraphics(t) \/ LeaveGraphics(t)
  <2>1. UNCHANGED <<queues, at, message, signaled>>
    BY <1>1 DEF EnterGraphics, LeaveGraphics, threads
  <2>2. QED BY <1>i, <1>h, <2>1, StayWaitInv DEF KeepsWaiting, Waiting
<1>2. CASE Sends(t)
  <2>1. /\ at[t] = "idle" /\ at' = [at EXCEPT ![t] = "queueing"]
        /\ \E m : message' = [message EXCEPT ![t] = m]
        /\ UNCHANGED <<queues, signaled>>
    BY <1>2 DEF Sends, SendMessage, ThreadSteps
  <2>2. \A u \in Thread : KeepsWaiting(u)
    BY <1>i, <2>1 DEF KeepsWaiting, Waiting
  <2>3. QED BY <1>i, <1>h, <2>1, <2>2, StayWaitInv
<1>3. CASE Queued(t)
  <2>1. /\ at[t] = "queueing" /\ message[t] \in Messages /\ message[t].from = t /\ ~signaled[t]
        /\ Push(message[t]) /\ UNCHANGED signaled
    BY <1>i, <1>3 DEF Queued, ThreadSteps, OwnMessage
  <2>2. \/ at' = [at EXCEPT ![t] = "before wait"] /\ message' = message
        \/ at' = [at EXCEPT ![t] = "idle"] /\ ~message[t].wait
           /\ message' = [message EXCEPT ![t] = NULL]
    BY <1>3 DEF Queued, ThreadSteps
  <2>3. \A u \in Thread : KeepsWaiting(u)
    BY <1>i, <2>1, <2>2 DEF KeepsWaiting, Waiting
  <2> DEFINE m == message[t]
  <2>4. m.wait => at'[t] = "before wait" /\ message'[t] = message[t]
    BY <1>i, <2>2
  <2>5. m.wait => m.from \in Thread /\ ~Waiting(m.from)
    BY <2>1 DEF Waiting
  <2>6. ASSUME NEW x, x = message[t] PROVE Good(x)'
    BY <2>1, <2>4, <2>6 DEF Good
  <2>7. PICK x \in Messages : x = message[t]
    BY <2>1
  <2>8. QED BY <1>i, <1>h, <2>1, <2>3, <2>5, <2>6, <2>7, PushWaitInv
<1>4. CASE Wait(t)
  <2>1. /\ at[t] = "before wait" /\ at' = [at EXCEPT ![t] = "waiting"]
        /\ UNCHANGED <<queues, message, signaled>>
    BY <1>4 DEF Wait, ThreadSteps
  <2>2. \A u \in Thread : KeepsWaiting(u)
    BY <1>i, <2>1 DEF KeepsWaiting, Waiting
  <2>3. QED BY <1>i, <1>h, <2>1, <2>2, StayWaitInv
<1>5. CASE Returns(t)
  <2>1. /\ signaled[t] /\ at' = [at EXCEPT ![t] = "idle"]
        /\ message' = [message EXCEPT ![t] = NULL]
        /\ signaled' = [signaled EXCEPT ![t] = FALSE]
        /\ UNCHANGED queues
    BY <1>5 DEF Returns, ThreadSteps, Answered
  <2>2. \A u \in Thread : KeepsWaiting(u)
    BY <1>i, <2>1 DEF KeepsWaiting, Waiting
  <2>3. QED BY <1>i, <1>h, <2>1, <2>2, StayWaitInv
<1>6. QED BY <1>1, <1>2, <1>3, <1>4, <1>5 DEF ThreadStep, GoesOn

(* What a step of the application thread leaves alone.                     *)
LEMMA SameControl ==
  ASSUME ControlInv, levels' \in Seq(Level), OuterBusy',
         m_vecMessages' \in Seq(Messages), m_vecWindowMessages' \in Seq(Messages),
         UNCHANGED <<m_critSection, g_graphicsContext, at, message, restore, m_bStop>>,
         signaled' \in [Thread -> BOOLEAN],
         \A t \in Thread : at[t] \in {"idle", "queueing"} => signaled'[t] = signaled[t],
         stop' = stop \/ (stop = "unload" /\ stop' = "done"),
         stop \in {"unload", "done"} => UNCHANGED <<m_vecMessages, m_vecWindowMessages>>
  PROVE  ControlInv'
<1> USE DEF ControlInv
<1>1. TypeOK'
  BY DEF TypeOK
<1>2. Queueing' /\ OwnMessage' /\ NotTold'
  BY DEF Queueing, OwnMessage, NotTold
<1>3. stop' = "no" <=> stop = "no"
  OBVIOUS
<1>4. stop' \in {"unload", "done"} <=> stop \in {"unload", "done"}
  OBVIOUS
<1>5. StopRefuses' /\ NobodyQueues' /\ NothingAfterCleanup'
  BY <1>3, <1>4 DEF StopRefuses, NobodyQueues, NothingAfterCleanup
<1>6. QED BY <1>1, <1>2, <1>5

LEMMA MovesInv == ASSUME IInv, Moves PROVE IInv'
<1>i. ControlInv /\ WaitInv /\ TypeOK /\ OuterBusy /\ levels \in Seq(Level)
  BY DEF IInv, ControlInv, TypeOK
<1>1. SameHand /\ UNCHANGED <<queues, locks, m_bStop, sent, threads, stop>>
  BY <1>i, MovesKeep
<1>2. OuterBusy' /\ levels' \in Seq(Level)
  BY <1>i, <1>1 DEF SameHand, OuterBusy
<1>3. ControlInv'
  BY <1>i, <1>1, <1>2, SameControl DEF queues, locks, threads, TypeOK
<1>4. WaitInv'
  BY <1>i, <1>1, SameHandIsHand, StayWaitInv DEF threads, KeepsWaiting, Waiting
<1>5. QED BY <1>3, <1>4 DEF IInv

LEMMA TakesInv == ASSUME IInv, TakeWindowMessage \/ TakeMessage PROVE IInv'
<1>i. /\ ControlInv /\ WaitInv /\ OncePending /\ AllWaitedFor /\ TypeOK /\ OuterBusy
      /\ NothingAfterCleanup
  BY DEF IInv, ControlInv, WaitInv
<1>j. levels \in Seq(Level) /\ m_vecMessages \in Seq(Messages) /\ m_vecWindowMessages \in Seq(Messages)
  BY <1>i DEF TypeOK
<1>k. \A q \in Seq(Messages) : q # << >> => Tail(q) \in Seq(Messages)
  BY HeadTailProperties
<1>1. CASE TakeWindowMessage
  <2>1. /\ m_vecWindowMessages # << >> /\ m_vecWindowMessages' = Tail(m_vecWindowMessages)
        /\ Depth > 0 /\ LastHand(Depth, Head(m_vecWindowMessages))
        /\ UNCHANGED <<m_vecMessages, locks, m_bStop, sent, threads, stop>>
    BY <1>i, <1>1, TakeWindowMoves
  <2>2. OuterBusy' /\ levels' \in Seq(Level)
    BY <1>i, <2>1 DEF LastHand, OuterBusy, Depth
  <2>3. ControlInv'
    BY <1>i, <1>j, <1>k, <2>1, <2>2, SameControl DEF locks, threads, NothingAfterCleanup, TypeOK
  <2>4. /\ Alone(m_vecWindowMessages)' /\ Apart(m_vecWindowMessages, m_vecMessages)'
        /\ Apart(m_vecWindowMessages, Hand)' /\ Alone(Hand)' /\ Apart(m_vecMessages, Hand)'
        /\ AllGood(Tail(m_vecWindowMessages))
        /\ \A i \in DOMAIN Hand' : Hand'[i] # NULL => Good(Hand'[i])
    BY <1>i, <1>j, <2>1, TakenWaitInv, ApartSymmetric DEF OncePending, AllWaitedFor, Depth
  <2>5. OncePending'
    BY <1>i, <2>1, <2>4, ApartSymmetric DEF OncePending
  <2>6. \A x : Good(x) => Good(x)'
    BY <2>1 DEF Good, threads
  <2>7. AllGood(m_vecMessages)' /\ AllGood(m_vecWindowMessages)' /\ AllGood(Hand)'
    BY <1>i, <2>1, <2>4, <2>6 DEF AllWaitedFor, AllGood
  <2>8. QED BY <2>3, <2>5, <2>7 DEF IInv, WaitInv, AllWaitedFor
<1>2. CASE TakeMessage
  <2>1. /\ m_vecMessages # << >> /\ m_vecMessages' = Tail(m_vecMessages)
        /\ Depth > 0 /\ LastHand(Depth, Head(m_vecMessages))
        /\ UNCHANGED <<m_vecWindowMessages, locks, m_bStop, sent, threads, stop>>
    BY <1>i, <1>2, TakeMoves
  <2>2. OuterBusy' /\ levels' \in Seq(Level)
    BY <1>i, <2>1 DEF LastHand, OuterBusy, Depth
  <2>3. ControlInv'
    BY <1>i, <1>j, <1>k, <2>1, <2>2, SameControl DEF locks, threads, NothingAfterCleanup, TypeOK
  <2>4. /\ Alone(m_vecMessages)' /\ Apart(m_vecMessages, m_vecWindowMessages)'
        /\ Apart(m_vecMessages, Hand)' /\ Alone(Hand)' /\ Apart(m_vecWindowMessages, Hand)'
        /\ AllGood(Tail(m_vecMessages))
        /\ \A i \in DOMAIN Hand' : Hand'[i] # NULL => Good(Hand'[i])
    BY <1>i, <1>j, <2>1, TakenWaitInv, ApartSymmetric DEF OncePending, AllWaitedFor, Depth
  <2>5. OncePending'
    BY <1>i, <2>1, <2>4 DEF OncePending
  <2>6. \A x : Good(x) => Good(x)'
    BY <2>1 DEF Good, threads
  <2>7. AllGood(m_vecMessages)' /\ AllGood(m_vecWindowMessages)' /\ AllGood(Hand)'
    BY <1>i, <2>1, <2>4, <2>6 DEF AllWaitedFor, AllGood
  <2>8. QED BY <2>3, <2>5, <2>7 DEF IInv, WaitInv, AllWaitedFor
<1>3. QED BY <1>1, <1>2

LEMMA FinishesInv == ASSUME IInv, Finishes PROVE IInv'
<1>i. ControlInv /\ WaitInv /\ AllWaitedFor /\ TypeOK /\ OuterBusy
  BY DEF IInv, ControlInv, WaitInv
<1>j. levels \in Seq(Level)
  BY <1>i DEF TypeOK
<1>1. PICK n \in 1 .. Depth :
        /\ levels[n].message # NULL /\ LastHand(n, NULL)
        /\ UNCHANGED <<queues, locks, m_bStop, at, message, restore>>
        /\ stop' = stop \/ (stop = "unload" /\ stop' = "done")
        /\ signaled' \in [Thread -> BOOLEAN]
        /\ \A t \in Thread :
             signaled'[t] = (signaled[t] \/ (levels[n].message.wait /\ levels[n].message.from = t))
  BY <1>i, FinishesEmpties
<1>2. n \in 1 .. Len(levels) /\ n \in DOMAIN Hand /\ Hand[n] = levels[n].message
  BY <1>j, <1>1 DEF Depth, Hand
<1>3. WaitInv'
  BY <1>i, <1>1, <1>2, FinishedWaitInv
<1>4. Good(Hand[n])
  BY <1>i, <1>1, <1>2 DEF AllWaitedFor, AllGood
<1>5. \A t \in Thread : at[t] \in {"idle", "queueing"} => signaled'[t] = signaled[t]
  BY <1>1, <1>2, <1>4, <1>i DEF Good, TypeOK
<1>6. OuterBusy' /\ levels' \in Seq(Level)
  BY <1>i, <1>j, <1>1, <1>2 DEF LastHand, OuterBusy
<1>7. ControlInv'
  BY <1>i, <1>1, <1>5, <1>6, SameControl DEF queues, locks, TypeOK
<1>8. QED BY <1>3, <1>7 DEF IInv

LEMMA OpensInv == ASSUME IInv, OpenDialog PROVE IInv'
<1>i. ControlInv /\ WaitInv /\ TypeOK /\ OuterBusy
  BY DEF IInv, ControlInv
<1>j. levels \in Seq(Level)
  BY <1>i DEF TypeOK
<1>1. /\ Depth > 0 /\ levels[Depth].message # NULL
      /\ LastHand(Depth + 1, NULL)
      /\ UNCHANGED <<queues, locks, m_bStop, sent, threads, stop>>
  BY <1>i, OpenGrows
<1>2. OuterBusy' /\ levels' \in Seq(Level)
  BY <1>i, <1>j, <1>1 DEF LastHand, OuterBusy, Depth
<1>3. ControlInv'
  BY <1>i, <1>1, <1>2, SameControl DEF queues, locks, threads, TypeOK
<1>4. WaitInv'
  BY <1>i, <1>1, OpenedWaitInv DEF Depth
<1>5. QED BY <1>3, <1>4 DEF IInv

LEMMA PostsInv == ASSUME IInv, NEW kind \in Kind, PostMessage(kind) PROVE IInv'
<1>i. ControlInv /\ WaitInv /\ TypeOK /\ OuterBusy /\ StopRefuses
  BY DEF IInv, ControlInv
<1> DEFINE m == [from |-> Application, kind |-> kind, wait |-> FALSE]
<1>1. m \in Messages /\ m.wait = FALSE
  BY DEF Messages
<1>2. Push(m) /\ ~m_bStop /\ UNCHANGED <<locks, m_bStop, threads, levels, stop>>
  BY DEF PostMessage, Refuses
<1> HIDE DEF m
<1>3. m_vecMessages' \in Seq(Messages) /\ m_vecWindowMessages' \in Seq(Messages)
  BY <1>i, <1>1, <1>2, PushTypes
<1>4. ControlInv'
  <2>1. OuterBusy' /\ stop = "no"
    BY <1>i, <1>2 DEF OuterBusy, StopRefuses
  <2>2. levels' \in Seq(Level) /\ signaled' \in [Thread -> BOOLEAN]
    BY <1>i, <1>2 DEF TypeOK, threads
  <2>3. QED BY <1>i, <1>2, <1>3, <2>1, <2>2, SameControl DEF locks, threads
<1>5. WaitInv'
  <2>1. Hand' = Hand /\ \A t \in Thread : KeepsWaiting(t)
    BY <1>2 DEF Hand, KeepsWaiting, Waiting, threads
  <2>2. PICK x \in Messages : x = m
    BY <1>1
  <2>3. ~x.wait /\ Good(x)'
    BY <1>1, <2>2 DEF Good
  <2>4. QED BY <1>i, <1>2, <2>1, <2>2, <2>3, PushWaitInv
<1>6. QED BY <1>4, <1>5 DEF IInv

LEMMA StopsInv ==
  ASSUME IInv, StopBegins \/ CancelJobs \/ Cleanup \/ RunReturns PROVE IInv'
<1> USE ApplicationMessengerAssumption
<1>i. /\ ControlInv /\ WaitInv /\ TypeOK /\ Queueing /\ OwnMessage /\ NotTold /\ OuterBusy
      /\ StopRefuses /\ NobodyQueues /\ NothingAfterCleanup
  BY DEF IInv, ControlInv
<1>1. CASE StopBegins
  <2>1. /\ stop = "no" /\ stop' = "cancel jobs" /\ m_bStop' = TRUE
        /\ UNCHANGED <<queues, locks, threads, levels>>
    BY <1>1 DEF StopBegins
  <2>2. ControlInv'
    BY <1>i, <2>1 DEF ControlInv, TypeOK, Queueing, OwnMessage, NotTold, OuterBusy, StopRefuses,
                      NobodyQueues, NothingAfterCleanup, queues, locks, threads
  <2>3. Hand' = Hand /\ \A t \in Thread : KeepsWaiting(t)
    BY <2>1 DEF Hand, KeepsWaiting, Waiting, threads
  <2>4. QED BY <1>i, <2>1, <2>2, <2>3, StayWaitInv DEF IInv
<1>2. CASE CancelJobs
  <2>1. /\ stop = "cancel jobs" /\ stop' = "cleanup"
        /\ \A t \in JobThread : at[t] = "idle"
        /\ at' = [t \in Thread |-> IF t \in JobThread THEN "gone" ELSE at[t]]
        /\ UNCHANGED <<queues, locks, m_bStop, message, restore, signaled, levels>>
    BY <1>2 DEF CancelJobs
  <2>2. at' \in [Thread -> Place]
    BY <1>i, <2>1 DEF TypeOK, Place
  <2>3. \A t \in Thread : at'[t] = at[t] \/ (at[t] = "idle" /\ at'[t] = "gone")
    BY <1>i, <2>1 DEF TypeOK
  <2>4. TypeOK' /\ OuterBusy'
    BY <1>i, <2>1, <2>2 DEF TypeOK, OuterBusy, queues, locks
  <2>5. Queueing' /\ OwnMessage' /\ NotTold'
    BY <1>i, <2>1, <2>3 DEF Queueing, OwnMessage, NotTold, locks
  <2>6. ControlInv'
    BY <1>i, <2>1, <2>4, <2>5 DEF ControlInv, StopRefuses, NobodyQueues, NothingAfterCleanup
  <2>7. Hand' = Hand /\ \A t \in Thread : KeepsWaiting(t)
    BY <2>1, <2>3 DEF Hand, KeepsWaiting, Waiting
  <2>8. QED BY <1>i, <2>1, <2>6, <2>7, StayWaitInv DEF IInv
<1>3. CASE Cleanup
  <2>1. /\ stop = "cleanup" /\ stop' = "unload" /\ m_critSection = NULL
        /\ m_vecMessages' = << >> /\ m_vecWindowMessages' = << >>
        /\ UNCHANGED <<locks, m_bStop, at, message, restore, levels>>
        /\ SetEvents(ToSet(m_vecMessages) \cup ToSet(m_vecWindowMessages))
    BY <1>3 DEF Cleanup
  <2>2. ASSUME NEW t \in Thread, at[t] \in {"idle", "queueing"} PROVE signaled'[t] = signaled[t]
    <3>1. t \notin Waiters(ToSet(m_vecMessages) \cup ToSet(m_vecWindowMessages))
      <4>1. \A m \in ToSet(m_vecMessages) \cup ToSet(m_vecWindowMessages) : m \in Messages /\ Good(m)
        <5>1. m_vecMessages \in Seq(Messages) /\ m_vecWindowMessages \in Seq(Messages)
          BY <1>i DEF TypeOK
        <5>2. AllGood(m_vecMessages) /\ AllGood(m_vecWindowMessages)
          BY <1>i DEF WaitInv, AllWaitedFor
        <5>3. QED BY <5>1, <5>2 DEF AllGood, ToSet
      <4>2. QED BY <2>2, <4>1 DEF Good, Waiters
    <3>2. QED BY <1>i, <2>1, <3>1 DEF SetEvents, TypeOK
  <2>3. signaled' \in [Thread -> BOOLEAN]
    <3>1. signaled \in [Thread -> BOOLEAN]
      BY <1>i DEF TypeOK
    <3>2. QED BY <2>1, <3>1, Zenon DEF SetEvents
  <2>4. TypeOK'
    BY <1>i, <2>1, <2>3 DEF TypeOK, locks
  <2>5. Queueing' /\ OwnMessage' /\ NotTold' /\ OuterBusy'
    BY <1>i, <2>1, <2>2 DEF Queueing, OwnMessage, NotTold, OuterBusy, locks
  <2>6. ControlInv'
    BY <1>i, <2>1, <2>4, <2>5
    DEF ControlInv, StopRefuses, NobodyQueues, NothingAfterCleanup, locks
  <2>7. QED BY <1>i, <1>3, <2>6, CleanupWaitInv DEF IInv
<1>4. CASE RunReturns
  <2>1. levels' = << >> /\ UNCHANGED <<queues, locks, m_bStop, threads, stop>>
    BY <1>4 DEF RunReturns
  <2>2. levels' \in Seq(Level) /\ OuterBusy'
    BY <2>1 DEF OuterBusy
  <2>3. ControlInv'
    BY <1>i, <2>1, <2>2, SameControl DEF queues, locks, threads, TypeOK
  <2>4. DOMAIN Hand' = {}
    BY <2>1 DEF Hand
  <2>5. OncePending'
    BY <1>i, <2>1, <2>4 DEF WaitInv, OncePending, Alone, Apart, queues
  <2>6. \A x : Good(x) => Good(x)'
    BY <2>1 DEF Good, threads
  <2>7. AllWaitedFor'
    BY <1>i, <2>1, <2>4, <2>6 DEF WaitInv, AllWaitedFor, AllGood, queues
  <2>8. QED BY <2>3, <2>5, <2>7 DEF IInv, WaitInv
<1>5. QED BY <1>1, <1>2, <1>3, <1>4

LEMMA NextIInv == IInv /\ [Next]_vars => IInv'
<1> SUFFICES ASSUME IInv, [Next]_vars PROVE IInv'
  OBVIOUS
<1>1. ASSUME NEW t \in Thread, ThreadStep(t) PROVE IInv'
  BY <1>1, ThreadControlInv, ThreadWaitInv DEF IInv
<1>2. CASE AppStep
  BY <1>2, MovesInv, TakesInv, FinishesInv, OpensInv, StopsInv DEF AppStep, Moves, Finishes
<1>3. ASSUME NEW i \in 1 .. Depth, CloseDialog(i) PROVE IInv'
  BY <1>3, MovesInv DEF Moves
<1>4. CASE UNCHANGED vars
  <2>1. ControlInv'
    BY <1>4 DEF vars, queues, locks, threads, IInv, ControlInv, TypeOK, Queueing, OwnMessage, NotTold,
                OuterBusy, StopRefuses, NobodyQueues, NothingAfterCleanup
  <2>2. UNCHANGED queues /\ Hand' = Hand /\ \A t \in Thread : KeepsWaiting(t)
    BY <1>4 DEF vars, queues, threads, Hand, KeepsWaiting, Waiting
  <2>3. QED BY <2>1, <2>2, StayWaitInv DEF IInv
<1>5. QED BY <1>1, <1>2, <1>3, <1>4, PostsInv DEF Next

LEMMA Invariant == Spec => []IInv
BY InitIInv, NextIInv, PTL DEF Spec

LEMMA WaitInvIsEnough == TypeOK /\ WaitInv => CallerWaits
<1> SUFFICES ASSUME TypeOK, WaitInv, NEW m \in Pending, m.wait
             PROVE  /\ at[m.from] \in {"before wait", "waiting"}
                    /\ message[m.from] = m /\ ~signaled[m.from]
  BY DEF CallerWaits
<1>1. AllGood(m_vecMessages) /\ AllGood(m_vecWindowMessages) /\ AllGood(Hand)
  BY DEF WaitInv, AllWaitedFor
<1>2. m_vecMessages \in Seq(Messages) /\ m_vecWindowMessages \in Seq(Messages)
  BY DEF TypeOK
<1>j. levels \in Seq(Level)
  BY DEF TypeOK
<1>3. Good(m)
  <2>1. CASE m \in ToSet(m_vecMessages) \cup ToSet(m_vecWindowMessages)
    BY <1>1, <1>2, <2>1, ApplicationMessengerAssumption DEF AllGood, ToSet
  <2>2. CASE m \in InHand
    <3>1. PICK i \in 1 .. Depth : m = levels[i].message /\ m # NULL
      BY <2>2 DEF InHand
    <3>2. i \in DOMAIN Hand /\ Hand[i] = m
      BY <1>j, <3>1 DEF Hand, Depth
    <3>3. QED BY <1>1, <3>1, <3>2 DEF AllGood
  <2>3. QED BY <2>1, <2>2 DEF Pending
<1>4. QED BY <1>3 DEF Good

-----------------------------------------------------------------------------
(* CallerWaits: whatever is queued or handled by any of the loops, and     *)
(* however deep they are nested, its sender stands in SendMessage with it, *)
(* so that the pointers in it are good.                                    *)
THEOREM PointersAreGood == Spec => []CallerWaits
<1>1. IInv => CallerWaits
  BY WaitInvIsEnough DEF IInv, ControlInv
<1>2. QED BY <1>1, Invariant, PTL

(* NothingAfterCleanup: of the messages sent while the application is told *)
(* to stop none is queued once Cleanup has looked, however long a sender   *)
(* takes between asking whether it is to stop and queueing its message.    *)
THEOREM CleanupIsFinal == Spec => []NothingAfterCleanup
<1>1. IInv => NothingAfterCleanup
  BY DEF IInv, ControlInv
<1>2. QED BY <1>1, Invariant, PTL
=============================================================================
