------------------------ MODULE ApplicationMessenger ------------------------
(***************************************************************************)
(* CApplicationMessenger (xbmc/ApplicationMessenger.cpp): other threads    *)
(* have the application thread do things for them and may wait until it    *)
(* did.  With it, as far as it decides who waits for whom: the loops of    *)
(* the application thread (CXBApplicationEx::Run, CApplication::Process    *)
(* and CGUIDialog::DoModal_Internal, which runs Process again while its    *)
(* dialog is open), CApplication::Stop, and the graphics lock.             *)
(*                                                                         *)
(* What a message does is left out, except that it may open a dialog, post *)
(* another message or stop the application.                                *)
(***************************************************************************)
EXTENDS Naturals, SequencesExt

CONSTANTS
    Thread,      \* all but the application thread
    JobThread,   \* those of them that are workers of CJobManager
    NULL,
    MaxMessages  \* bound: how many messages are sent

Application == "application"

(* TMSG_DIALOG_DOMODAL has a queue of its own; TMSG_GUI_DO_MODAL and many  *)
(* others open a dialog as well; TMSG_QUIT and the like stop everything.   *)
Kind == {"quick", "opens", "domodal", "quit"}

(* Who waits for a message is a thread that stands in SendMessage.         *)
Messages == [from : Thread \cup {Application}, kind : Kind, wait : BOOLEAN]

ASSUME ApplicationMessengerAssumption ==
    /\ JobThread \subseteq Thread
    /\ NULL \notin Thread \cup Messages
    /\ MaxMessages \in Nat

VARIABLES
    m_vecMessages, m_vecWindowMessages,
    m_critSection,   \* the thread that keeps it while it decides and queues
    g_graphicsContext,   \* the thread that has the graphics lock
    m_bStop,         \* of CApplication
    sent,            \* how many messages were sent
    at,              \* where each thread is
    message,         \* what it sends
    restore,         \* it had the graphics lock when it began to wait
    signaled,        \* its waitEvent was set
    levels,          \* the nested loops of the application thread, innermost last
    stop             \* how far CApplication::Stop is

queues == <<m_vecMessages, m_vecWindowMessages>>
locks == <<m_critSection, g_graphicsContext>>
threads == <<at, message, restore, signaled>>
vars == <<queues, locks, m_bStop, sent, threads, levels, stop>>

NewLevel == [at |-> "begin", message |-> NULL, open |-> TRUE]

Init ==
    /\ m_vecMessages = <<>> /\ m_vecWindowMessages = <<>>
    /\ m_critSection = NULL /\ g_graphicsContext = NULL
    /\ m_bStop = FALSE
    /\ sent = 0
    /\ at = [t \in Thread |-> "idle"] /\ message = [t \in Thread |-> NULL]
    /\ restore = [t \in Thread |-> FALSE] /\ signaled = [t \in Thread |-> FALSE]
    /\ levels = <<NewLevel>>
    /\ stop = "no"

Push(m) ==
    IF m.kind = "domodal"
    THEN m_vecWindowMessages' = Append(m_vecWindowMessages, m) /\ UNCHANGED m_vecMessages
    ELSE m_vecMessages' = Append(m_vecMessages, m) /\ UNCHANGED m_vecWindowMessages

Waiters(messages) == {m.from : m \in {m \in messages : m.wait}}
SetEvents(messages) == signaled' = [t \in Thread |-> signaled[t] \/ t \in Waiters(messages)]

-----------------------------------------------------------------------------
(* Threads that send                                                       *)

ThreadSteps(t, from, to) == at[t] = from /\ at' = [at EXCEPT ![t] = to]

EnterGraphics(t) ==
    /\ at[t] = "idle"
    /\ g_graphicsContext = NULL
    /\ g_graphicsContext' = t
    /\ UNCHANGED <<queues, m_critSection, m_bStop, sent, threads, levels, stop>>

LeaveGraphics(t) ==
    /\ at[t] = "idle"
    /\ g_graphicsContext = t
    /\ g_graphicsContext' = NULL
    /\ UNCHANGED <<queues, m_critSection, m_bStop, sent, threads, levels, stop>>

(* Fault: messages are taken as long as the application runs at all.       *)
RefusesNothing == FALSE
Refuses == m_bStop

(* With the lock held the thread looks at m_bStop, and will queue its      *)
(* message; if it refuses, SendMessage returns and nothing has changed.    *)
SendMessage(t, kind, wait) ==
    /\ ThreadSteps(t, "idle", "queueing")
    /\ m_critSection = NULL
    /\ sent < MaxMessages
    /\ ~Refuses
    /\ m_critSection' = t
    /\ sent' = sent + 1
    /\ message' = [message EXCEPT ![t] = [from |-> t, kind |-> kind, wait |-> wait]]
    /\ UNCHANGED <<queues, g_graphicsContext, m_bStop, restore, signaled, levels, stop>>

Queued(t) ==
    /\ \/ ThreadSteps(t, "queueing", "before wait") /\ message[t].wait /\ UNCHANGED message
       \/ /\ ThreadSteps(t, "queueing", "idle") /\ ~message[t].wait
          /\ message' = [message EXCEPT ![t] = NULL]
    /\ Push(message[t])
    /\ m_critSection' = NULL
    /\ UNCHANGED <<g_graphicsContext, m_bStop, sent, restore, signaled, levels, stop>>

(* CSingleExit: the thread gives the graphics lock away while it waits.    *)
(* Fault: it keeps it.                                                     *)
KeepsGraphics(t) == g_graphicsContext
WithoutGraphics(t) == IF g_graphicsContext = t THEN NULL ELSE g_graphicsContext

Wait(t) ==
    /\ ThreadSteps(t, "before wait", "waiting")
    /\ restore' = [restore EXCEPT ![t] = g_graphicsContext = t]
    /\ g_graphicsContext' = WithoutGraphics(t)
    /\ UNCHANGED <<queues, m_critSection, m_bStop, sent, message, signaled, levels, stop>>

(* Fault: it gives up waiting.                                             *)
AnsweredOrTired(t) == TRUE
Answered(t) == signaled[t]

(* The event is set, and the graphics lock is taken back.                  *)
Returns(t) ==
    /\ ThreadSteps(t, "waiting", "idle")
    /\ Answered(t)
    /\ restore[t] => g_graphicsContext = NULL
    /\ g_graphicsContext' = IF restore[t] THEN t ELSE g_graphicsContext
    /\ restore' = [restore EXCEPT ![t] = FALSE]
    /\ message' = [message EXCEPT ![t] = NULL]
    /\ signaled' = [signaled EXCEPT ![t] = FALSE]
    /\ UNCHANGED <<queues, m_critSection, m_bStop, sent, levels, stop>>

-----------------------------------------------------------------------------
(* The application thread                                                  *)

Depth == Len(levels)
Here == levels[Depth]
Outer == SubSeq(levels, 1, Depth - 1)

Goes(from, to) ==
    /\ Depth > 0
    /\ Here.at = from /\ Here.message = NULL
    /\ levels' = [levels EXCEPT ![Depth].at = to]

(* Run and DoModal_Internal look at m_bStop, and at the dialog.            *)
Begin ==
    /\ Goes("begin", "window")
    /\ Here.open /\ ~m_bStop
    /\ UNCHANGED <<queues, locks, m_bStop, sent, threads, stop>>

(* Fault: the message stays where it is until it is done.                  *)
NotTaken(queue) == queue
Taken(queue) == Tail(queue)

TakeWindowMessage ==
    /\ Depth > 0 /\ Here.at = "window" /\ Here.message = NULL
    /\ m_critSection = NULL /\ m_vecWindowMessages # <<>>
    /\ levels' = [levels EXCEPT ![Depth].message = Head(m_vecWindowMessages)]
    /\ m_vecWindowMessages' = Taken(m_vecWindowMessages)
    /\ UNCHANGED <<m_vecMessages, locks, m_bStop, sent, threads, stop>>

WindowMessagesDone ==
    /\ Goes("window", "messages")
    /\ m_critSection = NULL /\ m_vecWindowMessages = <<>>
    /\ UNCHANGED <<queues, locks, m_bStop, sent, threads, stop>>

TakeMessage ==
    /\ Depth > 0 /\ Here.at = "messages" /\ Here.message = NULL
    /\ m_critSection = NULL /\ m_vecMessages # <<>>
    /\ levels' = [levels EXCEPT ![Depth].message = Head(m_vecMessages)]
    /\ m_vecMessages' = Taken(m_vecMessages)
    /\ UNCHANGED <<m_vecWindowMessages, locks, m_bStop, sent, threads, stop>>

MessagesDone ==
    /\ Goes("messages", "render")
    /\ m_critSection = NULL /\ m_vecMessages = <<>>
    /\ UNCHANGED <<queues, locks, m_bStop, sent, threads, stop>>

(* FrameMove and Render take the graphics lock and give it back.  Run does *)
(* not call them once the application stops; the loop of a dialog does.    *)
Render ==
    /\ Goes("render", "begin")
    /\ g_graphicsContext = NULL \/ (m_bStop /\ Depth = 1)
    /\ UNCHANGED <<queues, locks, m_bStop, sent, threads, stop>>

Handles(kinds) == Depth > 0 /\ Here.message # NULL /\ Here.message.kind \in kinds

(* Set, delete, and on with the queue. *)
Handled(stack) ==
    /\ SetEvents({Last(stack).message})
    /\ levels' = [stack EXCEPT ![Len(stack)].message = NULL]
    /\ UNCHANGED <<at, message, restore>>

HandleQuick ==
    /\ Handles({"quick"})
    /\ g_graphicsContext = NULL
    /\ Handled(levels)
    /\ UNCHANGED <<queues, locks, m_bStop, sent, stop>>

(* What the application thread sends itself without waiting is queued;     *)
(* what it would wait for it does at once.                                 *)
PostMessage(kind) ==
    /\ Handles({"quick"})
    /\ m_critSection = NULL
    /\ sent < MaxMessages /\ ~Refuses
    /\ sent' = sent + 1
    /\ Push([from |-> Application, kind |-> kind, wait |-> FALSE])
    /\ UNCHANGED <<locks, m_bStop, threads, levels, stop>>

OpenDialog ==
    /\ Handles({"opens", "domodal"})
    /\ g_graphicsContext = NULL
    /\ levels' = Append(levels, NewLevel)
    /\ UNCHANGED <<queues, locks, m_bStop, sent, threads, stop>>

(* The user closes any dialog, not only the one on top.                    *)
CloseDialog(i) ==
    /\ i > 1 /\ levels[i].open
    /\ levels' = [levels EXCEPT ![i].open = FALSE]
    /\ UNCHANGED <<queues, locks, m_bStop, sent, threads, stop>>

DialogEnds ==
    /\ Depth > 1
    /\ Here.at = "begin" /\ (~Here.open \/ m_bStop)
    /\ Handled(Outer)
    /\ UNCHANGED <<queues, locks, m_bStop, sent, stop>>

(* Stop: no more messages, no more jobs, and whoever still waits is let go. *)
StopBegins ==
    /\ Handles({"quit"})
    /\ stop = "no"
    /\ m_bStop' = TRUE
    /\ stop' = "cancel jobs"
    /\ UNCHANGED <<queues, locks, sent, threads, levels>>

(* CancelJobs waits until every worker has ended, which it does when its   *)
(* job is done.                                                            *)
CancelJobs ==
    /\ stop = "cancel jobs"
    /\ \A t \in JobThread : at[t] = "idle" /\ g_graphicsContext # t
    /\ at' = [t \in Thread |-> IF t \in JobThread THEN "gone" ELSE at[t]]
    /\ stop' = "cleanup"
    /\ UNCHANGED <<queues, locks, m_bStop, sent, message, restore, signaled, levels>>

Cleanup ==
    /\ stop = "cleanup"
    /\ m_critSection = NULL
    /\ SetEvents(ToSet(m_vecMessages) \cup ToSet(m_vecWindowMessages))
    /\ m_vecMessages' = <<>> /\ m_vecWindowMessages' = <<>>
    /\ stop' = "unload"
    /\ UNCHANGED <<locks, m_bStop, sent, at, message, restore, levels>>

StopReturns ==
    /\ Handles({"quit"})
    /\ stop = "unload"
    /\ g_graphicsContext = NULL
    /\ stop' = "done"
    /\ Handled(levels)
    /\ UNCHANGED <<queues, locks, m_bStop, sent>>

RunReturns ==
    /\ Depth = 1
    /\ Here.at = "begin" /\ m_bStop
    /\ levels' = <<>>
    /\ UNCHANGED <<queues, locks, m_bStop, sent, threads, stop>>

-----------------------------------------------------------------------------

Sends(t) ==
    \E kind \in Kind, wait \in BOOLEAN :
        /\ kind = "quit" => ~wait
        /\ SendMessage(t, kind, wait)

GoesOn(t) ==
    \/ Queued(t) \/ Wait(t) \/ Returns(t)

ThreadStep(t) == EnterGraphics(t) \/ LeaveGraphics(t) \/ Sends(t) \/ GoesOn(t)

AppStep ==
    \/ Begin \/ TakeWindowMessage \/ WindowMessagesDone \/ TakeMessage \/ MessagesDone \/ Render
    \/ HandleQuick \/ OpenDialog \/ DialogEnds
    \/ StopBegins \/ CancelJobs \/ Cleanup \/ StopReturns \/ RunReturns

Next ==
    \/ \E t \in Thread : ThreadStep(t)
    \/ AppStep
    \/ \E kind \in Kind : PostMessage(kind)
    \/ \E i \in 1 .. Depth : CloseDialog(i)

(* Every thread goes on with what it has begun, gets a lock that is free   *)
(* again and again, and does not keep the graphics lock for ever.  A       *)
(* dialog need never be closed.                                            *)
Fairness ==
    /\ SF_vars(AppStep)
    /\ \A t \in Thread : SF_vars(GoesOn(t)) /\ WF_vars(LeaveGraphics(t))

Spec == Init /\ [][Next]_vars /\ Fairness

-----------------------------------------------------------------------------
(* Properties                                                              *)

InHand == {levels[i].message : i \in 1 .. Depth} \ {NULL}
Pending == ToSet(m_vecMessages) \cup ToSet(m_vecWindowMessages) \cup InHand

(* Messages point to what is on the stack of their sender: as long as one   *)
(* with an event is queued, or in the hands of one of the nested loops, its *)
(* sender waits for it.  So none is handled twice either.                   *)
CallerWaits ==
    \A m \in Pending :
        m.wait => /\ at[m.from] \in {"before wait", "waiting"}
                  /\ message[m.from] = m
                  /\ ~signaled[m.from]

(* When Cleanup is over nothing is queued any more: no message is handled   *)
(* by an application that is unloaded, and nobody waits for one that nobody *)
(* will handle.                                                             *)
NothingAfterCleanup ==
    stop \in {"unload", "done"} => m_vecMessages = <<>> /\ m_vecWindowMessages = <<>>

Waits(t) == at[t] \in {"before wait", "waiting"}

(* Whoever waits for the application thread returns.  If what he asked for  *)
(* opens no dialog he does so even if the user never answers the dialogs    *)
(* that others opened; and he does when the application stops, if he is not *)
(* the thread of a job, which Stop waits for: see StopEnds.                 *)
WaitsReturn ==
    \A t \in Thread : Waits(t) /\ (message[t].kind = "quick" \/ m_bStop) ~> ~Waits(t)

(* The application that is told to stop does so.                            *)
StopEnds == m_bStop ~> stop = "done"
=============================================================================
