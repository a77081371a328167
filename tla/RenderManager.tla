--------------------------- MODULE RenderManager ---------------------------
(***************************************************************************)
(* CXBMCRenderManager (xbmc/cores/VideoRenderers/RenderManager.cpp): the   *)
(* buffers that travel between the thread of CDVDPlayerVideo, which fills  *)
(* them with pictures, and the application thread, which shows them.       *)
(*                                                                         *)
(* m_free, m_queued, m_discard and m_presentsource say where each buffer   *)
(* is.  They are changed with m_presentlock held and m_sharedSection at    *)
(* least shared; the device is configured and flushed with m_sharedSection *)
(* held alone.  Video thread: CDVDPlayerVideo::OutputPicture and the calls *)
(* it makes.  Application thread: what the main loop and the GUI call, and *)
(* OpenFile and CloseFile of the player.                                   *)
(*                                                                         *)
(* Time is left out: a frame is due whenever the code could find it so.    *)
(* What is drawn, overlays, captures and statistics are left out too.      *)
(***************************************************************************)
EXTENDS SharedSection, Selection

CONSTANTS
    NUM_BUFFERS,
    Sizes,      \* the m_QueueSize that Configure may come to
    Pictures,   \* bound: how many pictures are queued
    FlushFrom   \* bound: where the window system may lose its device

ASSUME RenderManagerAssumption ==
    /\ NUM_BUFFERS \in Nat /\ NUM_BUFFERS >= 2
    /\ Sizes \subseteq 2 .. NUM_BUFFERS
    /\ Pictures \in Nat
    /\ FlushFrom \subseteq {"loop", "updated"}

Buffer == 0 .. NUM_BUFFERS - 1
NoBuffer == -1

VARIABLES
    m_sharedSection,
    m_free, m_queued, m_discard, m_presentsource,
    m_presentstep,
    m_QueueSize,
    m_bIsStarted, m_bReconfigured, m_bRenderGUI, m_waitForBufferCount,
    m_renderGUI,  \* of CApplication
    player,       \* "none" until the first PreInit, then "open" or "closed"
    app,          \* where the application thread is
    return,       \* where it returns to from Flush
    video,        \* where the video thread is
    m_bStop,      \* of the video thread
    configured,   \* m_output of the video thread is that of the renderer
    picture,      \* how many pictures were queued so far
    index,        \* the buffer that has the picture to flip, or gets it
    picturesQueued,  \* the pictures in the buffers of m_queued
    shown,        \* the last picture that was moved to the front
    raced         \* the video thread was at the lists while Flush was, see Races

buffers == <<m_free, m_queued, m_discard, m_presentsource>>
history == <<picture, index, picturesQueued, shown, raced>>
settings == <<m_QueueSize, m_bIsStarted, m_bReconfigured, m_renderGUI, player, return,
              m_bStop, configured>>
gui == <<m_bRenderGUI, m_waitForBufferCount>>
data == <<buffers, m_presentstep, settings, gui, history>>
vars == <<m_sharedSection, data, app, video>>

(* m_bRenderGUI is not initialized. *)
Init ==
    /\ m_sharedSection = NewSection
    /\ m_free = <<>> /\ m_queued = <<>> /\ m_discard = <<>> /\ m_presentsource = 0
    /\ m_presentstep = "IDLE"
    /\ m_QueueSize = 2
    /\ m_bIsStarted = FALSE /\ m_bReconfigured = FALSE
    /\ m_bRenderGUI \in BOOLEAN /\ m_waitForBufferCount = 0
    /\ m_renderGUI = TRUE
    /\ player = "none" /\ app = "loop" /\ return = "loop"
    /\ video = "gone" /\ m_bStop = FALSE /\ configured = FALSE
    /\ picture = 0 /\ index = NoBuffer /\ shown = 0
    /\ picturesQueued = <<>> /\ raced = FALSE

-----------------------------------------------------------------------------
(* Locks                                                                   *)

(* Nobody keeps m_presentlock while it waits for something else, but for   *)
(* the video thread, which wants to share m_sharedSection in WaitForBuffer.*)
PresentlockFree == video # "discarding"

AppMayShare == CanLockShared(m_sharedSection, "app")
VideoMayShare == CanLockShared(m_sharedSection, "video")

AppSteps(from, to) == app = from /\ app' = to /\ UNCHANGED video
VideoSteps(from, to) == video = from /\ video' = to /\ UNCHANGED app

(* Fault: the first buffer as well. *)
AllTheBuffers(n) == [i \in 1 .. n |-> i]
AllButTheFirst(n) == [i \in 1 .. n - 1 |-> i]

-----------------------------------------------------------------------------
(* The application thread                                                  *)

(* The main loop, while it renders: FrameMove, Render, FrameFinish and      *)
(* UpdateResolution, in between whatever else the thread has to do.         *)
FrameMove ==
    /\ AppSteps("loop", "move")
    /\ m_renderGUI /\ player # "none"
    /\ UNCHANGED <<m_sharedSection, data>>

EnterShared ==
    /\ AppMayShare
    /\ AppSteps("move", "moving") \/ AppSteps("render", "rendering")
    /\ m_sharedSection' = LockShared(m_sharedSection)
    /\ UNCHANGED data

RenderDone ==
    /\ AppSteps("rendering", "finish")
    /\ m_sharedSection' = UnlockShared(m_sharedSection)
    /\ UNCHANGED data

(* In the second field of a frame the next one may be prepared, if there   *)
(* is one and half of the time until then is over.                         *)
MayPrepare == m_presentstep = "READY" \/ (m_presentstep = "FRAME2" /\ m_queued # <<>>)

(* What the renderer still needs for reference is kept, as long as it has  *)
(* something to render.                                                    *)
(* Fault: it comes back at the wrong end.                                  *)
FreedAtFront(free, discard, needed) == Without(discard, needed) \o free
FreedAtEnd(free, discard, needed) == free \o Without(discard, needed)

ReleasePrevious(discard, needed) ==
    /\ m_bRenderGUI \/ needed = {}
    /\ m_free' = FreedAtEnd(m_free, discard, needed)
    /\ m_discard' = Only(discard, needed)
    /\ m_bRenderGUI' = TRUE

(* The frame shown so far goes behind those that are skipped.              *)
(* Fault: it is forgotten.                                                 *)
DiscardSkippedOnly(k) == m_discard \o SubSeq(m_queued, 1, k - 1)
DiscardUpTo(k) == m_discard \o Append(SubSeq(m_queued, 1, k - 1), m_presentsource)

(* FrameMove when PrepareNextRender finds the k-th frame due: flipped, it  *)
(* is on the screen before anybody sees PRESENT_FLIP.                      *)
MoveToFrame(k, needed) ==
    /\ AppSteps("moving", "render")
    /\ PresentlockFree
    /\ MayPrepare
    /\ m_presentsource' = m_queued[k]
    /\ m_queued' = SubSeq(m_queued, k + 1, Len(m_queued))
    /\ ReleasePrevious(DiscardUpTo(k), needed)
    /\ m_presentstep' = "FRAME"
    /\ shown' = picturesQueued[k]
    /\ picturesQueued' = SubSeq(picturesQueued, k + 1, Len(m_queued))
    /\ m_sharedSection' = UnlockShared(m_sharedSection)
    /\ UNCHANGED <<settings, m_waitForBufferCount, picture, index, raced>>

StepWithoutFrame ==
    IF m_presentstep = "READY"
    THEN IF m_queued = <<>> THEN {"IDLE"} ELSE {"READY"}
    ELSE IF MayPrepare THEN {"FRAME2", "READY"} ELSE {m_presentstep}

MoveNoFrame(needed) ==
    /\ AppSteps("moving", "render")
    /\ PresentlockFree
    /\ m_presentstep' \in StepWithoutFrame
    /\ ReleasePrevious(m_discard, needed)
    /\ m_sharedSection' = UnlockShared(m_sharedSection)
    /\ UNCHANGED <<m_queued, m_presentsource, settings, m_waitForBufferCount, history>>

(* Fault: the next frame has to wait for FlipPage to see that nobody works. *)
StepWhenIdle == "IDLE"
IdleOrReady == IF m_queued = <<>> THEN "IDLE" ELSE "READY"

(* With the methods BOB and WEAVE a frame is shown twice.  The window calls *)
(* FrameFinish once more when it is closed.                                *)
StepWhenFinished ==
    IF m_presentstep = "FRAME" THEN {"FRAME2", IdleOrReady}
    ELSE IF m_presentstep = "READY" THEN {"READY"} ELSE {IdleOrReady}

FrameFinish ==
    /\ AppSteps("finish", "resolve") \/ AppSteps("loop", "loop")
    /\ PresentlockFree
    /\ m_presentstep' \in StepWhenFinished
    /\ UNCHANGED <<m_sharedSection, buffers, settings, gui, history>>

(* The window is hidden or shown, or the application made idle. *)
SetRenderGUI ==
    /\ AppSteps("loop", "loop")
    /\ m_renderGUI' = ~m_renderGUI
    /\ UNCHANGED <<m_sharedSection, buffers, m_presentstep, m_QueueSize, m_bIsStarted,
                   m_bReconfigured, player, return, m_bStop, configured, gui, history>>

UpdateResolution ==
    /\ \/ AppSteps("resolve", "update") /\ m_bReconfigured
       \/ AppSteps("resolve", "loop") /\ ~m_bReconfigured
    /\ UNCHANGED <<m_sharedSection, data>>

(* To make the device switch its mode may take all of its surfaces away,   *)
(* and Flush is then called (StartFlush) with m_sharedSection held.        *)
UpdateEnter ==
    /\ AppSteps("update", "updated")
    /\ CanLock(m_sharedSection, "app")
    /\ m_sharedSection' = Lock(m_sharedSection, "app")
    /\ UNCHANGED data

UpdateLeave ==
    /\ AppSteps("updated", "loop") \/ AppSteps("switched", "loop")
    /\ m_bReconfigured' = FALSE
    /\ m_sharedSection' = Unlock(m_sharedSection)
    /\ UNCHANGED <<buffers, m_presentstep, m_QueueSize, m_bIsStarted, m_renderGUI, player, return,
                   m_bStop, configured, gui, history>>

-----------------------------------------------------------------------------
(* Flush, when the window system loses its device: under UpdateResolution, *)
(* or wherever else the window is made anew.  The renderer drops what it   *)
(* has, with m_sharedSection held; then the lists are set up anew, without *)
(* any lock of Flush's own.                                                *)

Flushing == {"clear_queued", "clear_discard", "clear_free", "fill_free"}

(* The video thread changes a list, or chooses from one, while Flush sets  *)
(* them up; what is in them is then anybody's guess until that is done     *)
(* again.                                                                  *)
Races == raced' = (raced \/ app \in Flushing)

StartFlush ==
    /\ app \in FlushFrom /\ player # "none"
    /\ AppSteps(app, "flush")
    /\ return' = IF app = "loop" THEN "loop" ELSE "switched"
    /\ UNCHANGED <<m_sharedSection, buffers, m_presentstep, m_QueueSize, m_bIsStarted,
                   m_bReconfigured, m_renderGUI, player, m_bStop, configured, gui, history>>

FlushRenderer ==
    /\ AppSteps("flush", "clear_queued")
    /\ CanLock(m_sharedSection, "app")
    /\ m_sharedSection' = Unlock(Lock(m_sharedSection, "app"))
    /\ index' = NoBuffer
    /\ raced' = FALSE
    /\ UNCHANGED <<buffers, m_presentstep, settings, gui, picture, picturesQueued, shown>>

ClearQueued ==
    /\ AppSteps("clear_queued", "clear_discard")
    /\ m_queued' = <<>> /\ picturesQueued' = <<>>
    /\ UNCHANGED <<m_sharedSection, m_free, m_discard, m_presentsource, m_presentstep, settings,
                   gui, picture, index, shown, raced>>

ClearDiscard ==
    /\ AppSteps("clear_discard", "clear_free")
    /\ m_discard' = <<>>
    /\ UNCHANGED <<m_sharedSection, m_free, m_queued, m_presentsource, m_presentstep, settings,
                   gui, history>>

ClearFree ==
    /\ AppSteps("clear_free", "fill_free")
    /\ m_free' = <<>> /\ m_presentsource' = 0
    /\ UNCHANGED <<m_sharedSection, m_queued, m_discard, m_presentstep, settings, gui, history>>

FillFree ==
    /\ AppSteps("fill_free", return)
    /\ m_free' = m_free \o AllButTheFirst(m_QueueSize)
    /\ UNCHANGED <<m_sharedSection, m_queued, m_discard, m_presentsource, m_presentstep, settings,
                   gui, history>>

-----------------------------------------------------------------------------
(* Opening and closing the player                                          *)

(* OpenFile calls PreInit, CloseFile UnInit; neither touches the lists.    *)
PreInit ==
    /\ AppSteps("loop", "loop")
    /\ player # "open"
    /\ CanLock(m_sharedSection, "app")
    /\ player' = "open" /\ m_bIsStarted' = FALSE /\ m_QueueSize' = 2
    /\ UNCHANGED <<m_sharedSection, buffers, m_presentstep, m_bReconfigured, m_renderGUI, return,
                   m_bStop, configured, gui, history>>

CloseFile ==
    /\ AppSteps("loop", "closing")
    /\ player = "open"
    /\ UNCHANGED <<m_sharedSection, data>>

(* StopThread waits for the thread of the player, and that for the video   *)
(* thread: nobody moves or finishes frames in the meantime.                *)
UnInit ==
    /\ AppSteps("closing", "loop")
    /\ video = "gone"
    /\ CanLock(m_sharedSection, "app")
    /\ player' = "closed" /\ m_bIsStarted' = FALSE
    /\ UNCHANGED <<m_sharedSection, buffers, m_presentstep, m_QueueSize, m_bReconfigured,
                   m_renderGUI, return, m_bStop, configured, gui, history>>

(* The player's own thread opens and closes the stream: at the end of the  *)
(* file, when the stream changes, and when the file is closed.             *)
OpenVideo ==
    /\ player = "open" /\ app # "closing"
    /\ video = "gone" /\ video' = "idle"
    /\ m_bStop' = FALSE /\ configured' = FALSE
    /\ UNCHANGED <<m_sharedSection, buffers, m_presentstep, m_QueueSize, m_bIsStarted,
                   m_bReconfigured, m_renderGUI, player, return, gui, app, history>>

StopVideo ==
    /\ video # "gone" /\ ~m_bStop
    /\ m_bStop' = TRUE
    /\ UNCHANGED <<m_sharedSection, buffers, m_presentstep, m_QueueSize, m_bIsStarted,
                   m_bReconfigured, m_renderGUI, player, return, configured, gui, app, video,
                   history>>

(* Fault: it wants to see its pictures shown. *)
EndsWhenAllShown == m_bStop /\ m_queued = <<>>
MayEnd == m_bStop

VideoExit ==
    /\ VideoSteps("idle", "gone")
    /\ MayEnd
    /\ UNCHANGED <<m_sharedSection, data>>

-----------------------------------------------------------------------------
(* The video thread: OutputPicture                                         *)

(* The first picture has to configure the renderer, and any other may. *)
OutputPicture ==
    /\ picture < Pictures /\ ~m_bStop
    /\ VideoSteps("idle", "configure") \/ (configured /\ VideoSteps("idle", "output"))
    /\ UNCHANGED <<m_sharedSection, data>>

(* Five seconds are over.                                                  *)
(* Fault: the thread waits until it is told to stop.                       *)
WaitsUntilStopped == m_bStop /\ m_presentstep \notin {"IDLE", "READY"}
TimesOut == m_presentstep \notin {"IDLE", "READY"}

ConfigureTimesOut ==
    /\ VideoSteps("configure", "idle")
    /\ TimesOut
    /\ UNCHANGED <<m_sharedSection, data>>

(* When all frames are presented, m_presentlock is left and m_sharedSection *)
(* waited for.                                                              *)
ConfigurePresented ==
    /\ VideoSteps("configure", "presented")
    /\ m_presentstep \in {"IDLE", "READY"}
    /\ UNCHANGED <<m_sharedSection, data>>

ConfigureEnter ==
    /\ VideoSteps("presented", "configuring") \/ VideoSteps("switching", "switched")
    /\ CanLock(m_sharedSection, "video")
    /\ m_sharedSection' = Lock(m_sharedSection, "video")
    /\ UNCHANGED data

ConfigureFails ==
    /\ VideoSteps("configuring", "idle")
    /\ m_sharedSection' = Unlock(m_sharedSection)
    /\ UNCHANGED data

(* The lock is left for SwitchToFullscreen, which tells the application    *)
(* thread and does not wait; only the first Configure of a stream does so. *)
SwitchToFullscreen ==
    /\ VideoSteps("configuring", "switching")
    /\ ~configured
    /\ m_sharedSection' = Unlock(m_sharedSection)
    /\ UNCHANGED data

ConfigureBuffers(n) ==
    /\ VideoSteps("configuring", "output") \/ VideoSteps("switched", "output")
    /\ m_QueueSize' = n
    /\ m_queued' = <<>> /\ m_discard' = <<>>
    /\ m_free' = AllButTheFirst(n) /\ m_presentsource' = 0
    /\ m_bIsStarted' = TRUE /\ m_bRenderGUI' = TRUE /\ m_waitForBufferCount' = 0
    /\ m_bReconfigured' = TRUE /\ m_presentstep' = "IDLE"
    /\ m_sharedSection' = Unlock(m_sharedSection)
    /\ configured' = TRUE
    /\ picturesQueued' = <<>>
    /\ raced' = (app \in Flushing)
    /\ UNCHANGED <<m_renderGUI, player, return, m_bStop, picture, index, shown>>

(* WaitForBuffer.  When nothing is rendered what is queued is discarded    *)
(* after a while, so that the player goes on.                              *)
WaitNoGUI ==
    /\ VideoSteps("output", "pausing")
    /\ ~m_bRenderGUI \/ ~m_renderGUI
    /\ m_bRenderGUI' = FALSE
    /\ UNCHANGED <<m_sharedSection, buffers, m_presentstep, settings, m_waitForBufferCount,
                   history>>

WaitPauseEnds ==
    /\ VideoSteps("pausing", "discarding")
    /\ UNCHANGED <<m_sharedSection, data>>

WaitGetsBuffer ==
    /\ \/ VideoSteps("output", "adding") /\ m_bRenderGUI /\ m_renderGUI
       \/ VideoSteps("waiting", "adding")
    /\ m_free # <<>>
    /\ m_waitForBufferCount' = 0
    /\ UNCHANGED <<m_sharedSection, buffers, m_presentstep, settings, m_bRenderGUI, history>>

WaitForBuffer ==
    /\ VideoSteps("output", "waiting")
    /\ m_bRenderGUI /\ m_renderGUI
    /\ m_free = <<>>
    /\ UNCHANGED <<m_sharedSection, data>>

(* Time is over, or the thread is to stop: the picture is dropped.  The    *)
(* third time in a row nothing is expected of the application thread any   *)
(* more.  The count matters up to there.                                   *)
WaitGivesUp ==
    /\ VideoSteps("waiting", "idle")
    /\ \/ m_bStop /\ UNCHANGED <<gui>>
       \/ /\ ~m_bStop
          /\ m_waitForBufferCount' =
                IF m_waitForBufferCount > 2 THEN 3 ELSE m_waitForBufferCount + 1
          /\ m_bRenderGUI' = (m_bRenderGUI /\ m_waitForBufferCount' <= 2)
    /\ UNCHANGED <<m_sharedSection, buffers, m_presentstep, settings, history>>

(* Called by the decoder as well, when it loses its state. *)
DiscardBuffer ==
    /\ VideoSteps("discarding", "adding") \/ VideoSteps("idle", "idle")
    /\ VideoMayShare
    /\ m_discard' = m_discard \o m_queued
    /\ m_queued' = <<>> /\ picturesQueued' = <<>>
    /\ m_presentstep' = IF m_presentstep = "READY" THEN "IDLE" ELSE m_presentstep
    /\ Races
    /\ UNCHANGED <<m_sharedSection, m_free, m_presentsource, settings, gui, picture, index,
                   shown>>

(* AddVideoPicture takes the first free buffer, without taking it out of   *)
(* the list, and fills it while it shares the section.                     *)
AddVideoPicture ==
    /\ VideoSteps("adding", "filling")
    /\ VideoMayShare
    /\ m_free # <<>>
    /\ index' = Head(m_free)
    /\ m_sharedSection' = LockShared(m_sharedSection)
    /\ Races
    /\ UNCHANGED <<buffers, m_presentstep, settings, gui, picture, picturesQueued, shown>>

AddDone ==
    /\ VideoSteps("filling", "filled")
    /\ m_sharedSection' = UnlockShared(m_sharedSection)
    /\ UNCHANGED data

(* The renderer is not done with the buffer yet: AddVideoPicture is tried  *)
(* again until it is too late for the picture or the thread is to stop.    *)
AddFails ==
    /\ VideoSteps("filling", "adding")
    /\ m_sharedSection' = UnlockShared(m_sharedSection)
    /\ index' = NoBuffer
    /\ UNCHANGED <<buffers, m_presentstep, settings, gui, picture, picturesQueued, shown, raced>>

AddGivesUp ==
    /\ VideoSteps("adding", "idle")
    /\ UNCHANGED <<m_sharedSection, data>>

(* Fault: the queue in the wrong order. *)
InFront(queued, x) == <<x>> \o queued
AtEnd(queued, x) == Append(queued, x)

FlipPage ==
    /\ VideoSteps("filled", "idle")
    /\ VideoMayShare
    /\ ~m_bStop /\ m_free # <<>>
    /\ picture' = picture + 1
    /\ m_queued' = AtEnd(m_queued, Head(m_free))
    /\ picturesQueued' = AtEnd(picturesQueued, picture')
    /\ m_free' = Tail(m_free)
    /\ index' = NoBuffer
    /\ m_presentstep' = IF m_presentstep = "IDLE" THEN "READY" ELSE m_presentstep
    /\ Races
    /\ UNCHANGED <<m_sharedSection, m_discard, m_presentsource, settings, gui, shown>>

FlipNothing ==
    /\ VideoSteps("filled", "idle")
    /\ VideoMayShare
    /\ m_bStop \/ m_free = <<>>
    /\ index' = NoBuffer
    /\ UNCHANGED <<m_sharedSection, buffers, m_presentstep, settings, gui, picture,
                   picturesQueued, shown, raced>>

-----------------------------------------------------------------------------

MoveAnyFrame ==
    \E k \in 1 .. Len(m_queued) :
        \E needed \in SUBSET ToSet(DiscardUpTo(k)) : MoveToFrame(k, needed)
MoveNone == \E needed \in SUBSET ToSet(m_discard) : MoveNoFrame(needed)
Reconfigure == \E n \in Sizes : ConfigureBuffers(n)

AppStep ==
    \/ FrameMove \/ EnterShared \/ RenderDone \/ MoveAnyFrame \/ MoveNone
    \/ FrameFinish \/ SetRenderGUI
    \/ UpdateResolution \/ UpdateEnter \/ UpdateLeave
    \/ StartFlush \/ FlushRenderer \/ ClearQueued \/ ClearDiscard \/ ClearFree \/ FillFree
    \/ PreInit \/ CloseFile \/ UnInit

VideoStep ==
    \/ VideoExit \/ OutputPicture
    \/ ConfigureTimesOut \/ ConfigurePresented \/ ConfigureEnter \/ ConfigureFails
    \/ SwitchToFullscreen \/ Reconfigure
    \/ WaitNoGUI \/ WaitPauseEnds \/ WaitGetsBuffer \/ WaitForBuffer \/ WaitGivesUp
    \/ DiscardBuffer
    \/ AddVideoPicture \/ AddDone \/ AddFails \/ AddGivesUp \/ FlipPage \/ FlipNothing

Next == AppStep \/ VideoStep \/ OpenVideo \/ StopVideo

(* Each thread goes on with what it has begun.  The main loop moves frames *)
(* again and again, and not for ever finds none that is due.  Whoever wants *)
(* the section alone gets it if it is free again and again, and a picture  *)
(* is not tried for ever.  A file that is closed has its stream stopped.   *)
Fairness ==
    /\ WF_vars(AppStep /\ app # "loop") /\ WF_vars(FrameMove)
    /\ WF_vars(VideoStep /\ video # "idle") /\ WF_vars(VideoExit)
    /\ WF_vars(StopVideo /\ app = "closing")
    /\ SF_vars(EnterShared \/ UpdateEnter \/ FlushRenderer) /\ SF_vars(ConfigureEnter)
    /\ SF_vars(MoveAnyFrame) /\ SF_vars(AddGivesUp)

Spec == Init /\ [][Next]_vars /\ Fairness

-----------------------------------------------------------------------------
(* Properties                                                              *)

(* Every buffer of a configured renderer is in one place: shown, free,     *)
(* queued or discarded, and there once.                                    *)
InOnePlace ==
    LET all == <<m_presentsource>> \o m_free \o m_queued \o m_discard
    IN  Len(all) = m_QueueSize /\ ToSet(all) = 0 .. m_QueueSize - 1

(* So it is, but for two things: while Flush sets the lists up they are    *)
(* not yet right; and when the video thread came into that, they are not   *)
(* claimed to be right until the next Flush or Configure.                  *)
EachBufferOnce == m_bIsStarted /\ app \notin Flushing /\ ~raced => InOnePlace

(* The same without the exception for what the video thread does in the    *)
(* middle of Flush.  OnLostDevice calls Flush to "make sure renderer has   *)
(* no invalid references": once it has returned every buffer is in one     *)
(* place again, none twice in m_free or both queued and free.              *)
FlushLeavesNoInvalidReference == m_bIsStarted /\ app \notin Flushing => InOnePlace

(* "timestamp of frame delivered with AddVideoPicture": FlipPage queues    *)
(* whatever buffer is the first of m_free.  From when AddVideoPicture took *)
(* it, without m_presentlock, until FlipPage, that is the buffer with the  *)
(* picture: nothing the application thread does puts another in front of   *)
(* it or takes it away.  (But Flush: the renderer has then dropped the     *)
(* picture, index is NoBuffer, and FlipPage queues some buffer without it; *)
(* nor is it claimed after a Flush that the video thread came into.)       *)
FillingIsNext ==
    ~raced /\ (video = "filling" \/ (video = "filled" /\ index # NoBuffer))
        => m_free # <<>> /\ Head(m_free) = index

(* Pictures wait in the order they were decoded, all of them later than    *)
(* the one shown last: what is skipped is never shown, and nothing twice.  *)
ShownInOrder ==
    \A i \in DOMAIN picturesQueued :
        /\ picturesQueued[i] > shown
        /\ \A j \in 1 .. i - 1 : picturesQueued[i] > picturesQueued[j]

(* OutputPicture returns, although it takes both locks in either order,    *)
(* waits for free buffers and for frames to be presented.                  *)
OutputReturns == video \notin {"idle", "gone"} ~> video \in {"idle", "gone"}

InQueue(p) == p \in ToSet(picturesQueued)

(* While the player is open and the application renders, a queued picture  *)
(* is shown or discarded: somebody always sees that there is work.         *)
QueueDrains ==
    \A p \in 1 .. Pictures :
        InQueue(p) ~> ~InQueue(p) \/ ~m_renderGUI \/ player # "open" \/ app = "closing"

(* CloseFile returns: it waits for the video thread, which may be waiting  *)
(* for frames that nobody presents as long as CloseFile has not returned.  *)
PlayerCloses == app = "closing" ~> app # "closing"
=============================================================================
