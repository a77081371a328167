------------------------ MODULE RenderManagerProofs ------------------------
(***************************************************************************)
(* The buffers of the renderer, for any number of them and of pictures:    *)
(* none is lost or in two places, the one that is being filled stays where *)
(* FlipPage will look for it, and pictures are shown in order.             *)
(*                                                                         *)
(* AddVideoPicture takes no lock for the lists while it fills a buffer.    *)
(* What makes up for it is m_sharedSection: who has it, and who shares it, *)
(* can be told from where the two threads are.  Flush may have no lock for *)
(* the lists either; what is claimed of them is claimed unless the video   *)
(* thread came into it, and Flush may be called from anywhere.             *)
(***************************************************************************)
EXTENDS RenderManager, SelectionProofs

SizesOK == Sizes \subseteq 2 .. NUM_BUFFERS /\ NUM_BUFFERS \in Nat /\ NUM_BUFFERS >= 2

LEMMA AreSizesOK == SizesOK
BY RenderManagerAssumption DEF SizesOK

InFlush == app \in {"flush"} \cup Flushing

AppOwns == app \in {"updated", "switched"} \/ (InFlush /\ return = "switched")
VideoOwns == video \in {"configuring", "switched"}
AppShares == app \in {"moving", "rendering"}
VideoShares == video = "filling"

Section == [owner : {"nobody", "app", "video"}, depth : Int, sharedCount : Int]

Owner == IF AppOwns THEN "app" ELSE IF VideoOwns THEN "video" ELSE "nobody"
Depth == IF AppOwns \/ VideoOwns THEN 1 ELSE 0
Sharers == IF AppShares /\ VideoShares THEN 2 ELSE IF AppShares \/ VideoShares THEN 1 ELSE 0

SectionInv ==
    /\ m_sharedSection \in Section
    /\ m_sharedSection.owner = Owner
    /\ m_sharedSection.depth = Depth
    /\ m_sharedSection.sharedCount = Sharers
    /\ AppOwns => ~VideoOwns /\ ~VideoShares
    /\ VideoOwns => ~AppShares
    /\ return \in {"loop", "switched"}

ListsInv ==
    /\ m_free \in Seq(Buffer) /\ m_queued \in Seq(Buffer) /\ m_discard \in Seq(Buffer)
    /\ m_presentsource \in Buffer
    /\ m_QueueSize \in 2 .. NUM_BUFFERS

(* What Flush has done so far only the video thread may undo.              *)
FlushedSoFar ==
    ~raced =>
        /\ app \in {"clear_discard", "clear_free", "fill_free"} => m_queued = <<>>
        /\ app \in {"clear_free", "fill_free"} => m_discard = <<>>
        /\ app = "fill_free" => m_free = <<>> /\ m_presentsource = 0

(* The lists together have n places, and n buffers are in them.            *)
EachOnce(front, free, queued, discard, n) ==
    /\ 1 + Len(free) + Len(queued) + Len(discard) = n
    /\ {front} \cup ToSet(free) \cup ToSet(queued) \cup ToSet(discard) = 0 .. n - 1

OnceInv ==
    ~raced /\ m_bIsStarted /\ app \notin Flushing =>
        EachOnce(m_presentsource, m_free, m_queued, m_discard, m_QueueSize)

(* Flush waits for AddVideoPicture, and drops the picture that waits for   *)
(* FlipPage: the buffer is not the video thread's when the lists go.       *)
Filling == video = "filling" \/ (video = "filled" /\ index # NoBuffer)
FillingInv ==
    ~raced /\ Filling => app \notin Flushing /\ m_free # <<>> /\ Head(m_free) = index

PicturesInv ==
    /\ picture \in Nat /\ shown \in 0 .. picture
    /\ picturesQueued \in Seq(Nat)
    /\ Len(picturesQueued) = Len(m_queued)
    /\ \A i \in 1 .. Len(m_queued) :
          /\ picturesQueued[i] \in shown + 1 .. picture
          /\ \A j \in 1 .. i - 1 : picturesQueued[j] < picturesQueued[i]

LocksInv == SectionInv /\ ListsInv
OrderInv == LocksInv /\ PicturesInv
BuffersInv == LocksInv /\ FlushedSoFar /\ OnceInv /\ FillingInv

-----------------------------------------------------------------------------
(* Who has m_sharedSection                                                 *)

LEMMA SectionOps ==
  ASSUME NEW s \in Section, NEW t \in {"app", "video"}
  PROVE  /\ LockShared(s) \in Section /\ UnlockShared(s) \in Section
         /\ Lock(s, t) \in Section /\ Unlock(s) \in Section
         /\ LockShared(s).owner = s.owner /\ UnlockShared(s).owner = s.owner
         /\ LockShared(s).depth = s.depth /\ UnlockShared(s).depth = s.depth
         /\ LockShared(s).sharedCount = s.sharedCount + 1
         /\ UnlockShared(s).sharedCount = s.sharedCount - 1
         /\ Lock(s, t).owner = t /\ Lock(s, t).depth = s.depth + 1
         /\ Lock(s, t).sharedCount = s.sharedCount
         /\ Unlock(s).owner = IF s.depth = 1 THEN "nobody" ELSE s.owner
         /\ Unlock(s).depth = s.depth - 1 /\ Unlock(s).sharedCount = s.sharedCount
<1> DEFINE o == s.owner
           d == s.depth
           n == s.sharedCount
<1>1. /\ s = [owner |-> o, depth |-> d, sharedCount |-> n]
      /\ o \in {"nobody", "app", "video"} /\ d \in Int /\ n \in Int
  BY DEF Section
<1>2. LockShared(s) = [owner |-> o, depth |-> d, sharedCount |-> n + 1]
  BY DEF Section, LockShared
<1>3. UnlockShared(s) = [owner |-> o, depth |-> d, sharedCount |-> n - 1]
  BY DEF Section, UnlockShared
<1>4. Lock(s, t) = [s EXCEPT !.owner = t, !.depth = d + 1]
  BY DEF Lock
<1>5. Unlock(s) = [s EXCEPT !.owner = IF d = 1 THEN "nobody" ELSE o, !.depth = d - 1]
  BY DEF Unlock
<1> HIDE DEF o, d, n
<1>6. Lock(s, t) = [owner |-> t, depth |-> d + 1, sharedCount |-> n]
  BY <1>1, <1>4, Zenon
<1>7. Unlock(s) =
        [owner |-> IF d = 1 THEN "nobody" ELSE o, depth |-> d - 1, sharedCount |-> n]
  BY <1>1, <1>5, Zenon
<1>8. QED BY <1>1, <1>2, <1>3, <1>6, <1>7 DEF Section, o, d, n

LEMMA SectionStep ==
  ASSUME SectionInv, [Next]_vars
  PROVE  SectionInv'
<1> USE DEF SectionInv, Owner, Depth, Sharers, AppOwns, VideoOwns, AppShares, VideoShares,
            InFlush, Flushing, AppSteps, VideoSteps, data, settings
<1>1. CASE FrameMove
  BY <1>1 DEF FrameMove
<1>2. CASE EnterShared
  BY <1>2, SectionOps DEF CanLock, CanLockShared, EnterShared, AppMayShare
<1>3. CASE RenderDone
  BY <1>3, SectionOps DEF CanLock, CanLockShared, RenderDone
<1>4. CASE MoveAnyFrame
  BY <1>4, SectionOps DEF CanLock, CanLockShared, MoveAnyFrame, MoveToFrame, ReleasePrevious
<1>5. CASE MoveNone
  BY <1>5, SectionOps DEF CanLock, CanLockShared, MoveNone, MoveNoFrame, ReleasePrevious
<1>6. CASE FrameFinish
  BY <1>6 DEF FrameFinish
<1>7. CASE SetRenderGUI
  BY <1>7 DEF SetRenderGUI
<1>8. CASE UpdateResolution
  BY <1>8 DEF UpdateResolution
<1>9. CASE UpdateEnter
  BY <1>9, SectionOps DEF CanLock, CanLockShared, UpdateEnter
<1>10. CASE UpdateLeave
  BY <1>10, SectionOps DEF CanLock, CanLockShared, UpdateLeave
<1>11. CASE StartFlush
  BY <1>11, RenderManagerAssumption DEF StartFlush
<1>12. CASE FlushRenderer
  BY <1>12, SectionOps DEF CanLock, CanLockShared, FlushRenderer
<1>13. CASE ClearQueued
  BY <1>13 DEF ClearQueued
<1>14. CASE ClearDiscard
  BY <1>14 DEF ClearDiscard
<1>15. CASE ClearFree
  BY <1>15 DEF ClearFree
<1>16. CASE FillFree
  BY <1>16 DEF FillFree
<1>17. CASE PreInit
  BY <1>17 DEF PreInit
<1>18. CASE CloseFile
  BY <1>18 DEF CloseFile
<1>19. CASE UnInit
  BY <1>19 DEF UnInit
<1>20. CASE VideoExit
  BY <1>20 DEF VideoExit
<1>21. CASE OutputPicture
  BY <1>21 DEF OutputPicture
<1>22. CASE ConfigureTimesOut
  BY <1>22 DEF ConfigureTimesOut
<1>23. CASE ConfigurePresented
  BY <1>23 DEF ConfigurePresented
<1>24. CASE ConfigureEnter
  BY <1>24, SectionOps DEF CanLock, CanLockShared, ConfigureEnter
<1>25. CASE ConfigureFails
  BY <1>25, SectionOps DEF CanLock, CanLockShared, ConfigureFails
<1>26. CASE SwitchToFullscreen
  BY <1>26, SectionOps DEF CanLock, CanLockShared, SwitchToFullscreen
<1>27. CASE Reconfigure
  BY <1>27, SectionOps DEF CanLock, CanLockShared, Reconfigure, ConfigureBuffers
<1>28. CASE WaitNoGUI
  BY <1>28 DEF WaitNoGUI
<1>29. CASE WaitPauseEnds
  BY <1>29 DEF WaitPauseEnds
<1>30. CASE WaitGetsBuffer
  BY <1>30 DEF WaitGetsBuffer
<1>31. CASE WaitForBuffer
  BY <1>31 DEF WaitForBuffer
<1>32. CASE WaitGivesUp
  BY <1>32 DEF WaitGivesUp
<1>33. CASE DiscardBuffer
  BY <1>33 DEF DiscardBuffer
<1>34. CASE AddVideoPicture
  BY <1>34, SectionOps DEF CanLock, CanLockShared, AddVideoPicture, VideoMayShare
<1>35. CASE AddDone
  BY <1>35, SectionOps DEF CanLock, CanLockShared, AddDone
<1>36. CASE AddFails
  BY <1>36, SectionOps DEF CanLock, CanLockShared, AddFails
<1>37. CASE AddGivesUp
  BY <1>37 DEF AddGivesUp
<1>38. CASE FlipPage
  BY <1>38 DEF FlipPage
<1>39. CASE FlipNothing
  BY <1>39 DEF FlipNothing
<1>40. CASE OpenVideo
  BY <1>40 DEF OpenVideo
<1>41. CASE StopVideo
  BY <1>41 DEF StopVideo
<1>42. CASE UNCHANGED vars
  BY <1>42 DEF vars
<1>43. QED
  BY <1>1, <1>2, <1>3, <1>4, <1>5, <1>6, <1>7, <1>8, <1>9, <1>10, <1>11, <1>12,
     <1>13, <1>14, <1>15, <1>16, <1>17, <1>18, <1>19, <1>20, <1>21, <1>22, <1>23,
     <1>24, <1>25, <1>26, <1>27, <1>28, <1>29, <1>30, <1>31, <1>32, <1>33, <1>34,
     <1>35, <1>36, <1>37, <1>38, <1>39, <1>40, <1>41, <1>42
     DEF Next, AppStep, VideoStep

-----------------------------------------------------------------------------
(* What the steps do to the lists                                          *)

SameLists ==
    /\ m_free' = m_free /\ m_queued' = m_queued /\ m_discard' = m_discard
    /\ m_presentsource' = m_presentsource
    /\ picturesQueued' = picturesQueued /\ picture' = picture /\ shown' = shown

Untouched ==
    /\ SameLists
    /\ m_QueueSize' \in {2, m_QueueSize}
    /\ m_bIsStarted' => m_bIsStarted /\ m_QueueSize' = m_QueueSize
    /\ app \in Flushing => app' \in Flushing
    /\ app' \in Flushing => app' = app \/ (app = "flush" /\ app' = "clear_queued")
    /\ raced => raced' \/ app' = "clear_queued"

(* Every other step leaves the lists and the pictures in them as they are, *)
(* and does not do what Flush does.                                        *)
LEMMA NextOnLists ==
  ASSUME [Next]_vars
  PROVE  \/ Untouched
         \/ MoveAnyFrame \/ MoveNone
         \/ ClearQueued \/ ClearDiscard \/ ClearFree \/ FillFree
         \/ Reconfigure \/ DiscardBuffer \/ FlipPage
<1> USE DEF Untouched, SameLists, data, buffers, history, settings, Flushing, Races, AppSteps,
            VideoSteps
<1>1. ASSUME FrameMove \/ EnterShared \/ RenderDone \/ FrameFinish \/ SetRenderGUI \/
             UpdateResolution \/ UpdateEnter \/ UpdateLeave \/ StartFlush \/ FlushRenderer \/
             PreInit \/ CloseFile \/ UnInit
      PROVE  Untouched
  BY <1>1, RenderManagerAssumption
     DEF FrameMove, EnterShared, RenderDone, FrameFinish, SetRenderGUI, UpdateResolution,
              UpdateEnter, UpdateLeave, StartFlush, FlushRenderer, PreInit, CloseFile, UnInit
<1>2. ASSUME VideoExit \/ OutputPicture \/ ConfigureTimesOut \/ ConfigurePresented \/
             ConfigureEnter \/ ConfigureFails \/ SwitchToFullscreen \/ WaitNoGUI \/ WaitPauseEnds
             \/ WaitGetsBuffer \/ WaitForBuffer \/ WaitGivesUp \/ AddDone \/ AddFails \/
             AddGivesUp \/ FlipNothing \/ OpenVideo \/ StopVideo
      PROVE  Untouched
  BY <1>2 DEF VideoExit, OutputPicture, ConfigureTimesOut, ConfigurePresented, ConfigureEnter,
              ConfigureFails, SwitchToFullscreen, WaitNoGUI, WaitPauseEnds, WaitGetsBuffer,
              WaitForBuffer, WaitGivesUp, AddDone, AddFails, AddGivesUp,
              FlipNothing, OpenVideo, StopVideo
<1>3. ASSUME UNCHANGED vars PROVE Untouched
  BY <1>3 DEF vars
<1>4. CASE AddVideoPicture
  <2>1. raced => raced'
    BY <1>4 DEF AddVideoPicture
  <2>2. QED BY <1>4, <2>1 DEF AddVideoPicture
<1>5. QED BY <1>1, <1>2, <1>3, <1>4 DEF Next, AppStep, VideoStep

LEMMA FirstsLeftOut ==
  ASSUME NEW n \in 2 .. NUM_BUFFERS
  PROVE  /\ AllButTheFirst(n) \in Seq(Buffer) /\ Len(AllButTheFirst(n)) = n - 1
         /\ ToSet(AllButTheFirst(n)) = 1 .. n - 1
BY RenderManagerAssumption DEF AllButTheFirst, ToSet, Buffer

(* MoveToFrame and MoveNoFrame: what is given back and what is kept.       *)
LEMMA Released ==
  ASSUME NEW discard \in Seq(Buffer), NEW needed, m_free \in Seq(Buffer),
         ReleasePrevious(discard, needed)
  PROVE  /\ m_free' = m_free \o Without(discard, needed)
         /\ m_free' \in Seq(Buffer) /\ m_discard' \in Seq(Buffer)
         /\ Len(m_free') + Len(m_discard') = Len(m_free) + Len(discard)
         /\ ToSet(m_free') \cup ToSet(m_discard') = ToSet(m_free) \cup ToSet(discard)
<1> DEFINE freed == Without(discard, needed)
           kept == Only(discard, needed)
<1>1. m_free' = m_free \o freed /\ m_discard' = kept
  BY DEF ReleasePrevious, FreedAtEnd
<1>2. /\ freed \in Seq(Buffer) /\ kept \in Seq(Buffer)
      /\ Len(kept) + Len(freed) = Len(discard)
      /\ ToSet(freed) \cup ToSet(kept) = ToSet(discard)
  BY OnlyProperties, WithoutProperties
<1> HIDE DEF freed, kept
<1>3. /\ m_free' \in Seq(Buffer) /\ Len(m_free') = Len(m_free) + Len(freed)
      /\ ToSet(m_free') = ToSet(m_free) \cup ToSet(freed)
  BY <1>1, <1>2, Concatenated
<1>4. Len(m_free) \in Nat /\ Len(freed) \in Nat /\ Len(kept) \in Nat
  BY <1>2, LenProperties
<1>5. Len(m_free') + Len(m_discard') = Len(m_free) + Len(discard)
  <2>1. Len(m_discard') = Len(kept)
    BY <1>1
  <2>2. QED BY <1>2, <1>3, <1>4, <2>1
<1>6. ToSet(m_free') \cup ToSet(m_discard') = ToSet(m_free) \cup ToSet(discard)
  BY <1>1, <1>2, <1>3
<1>7. QED BY <1>1, <1>2, <1>3, <1>5, <1>6 DEF freed

(* MoveToFrame: what was in front goes behind the frames that are skipped. *)
LEMMA Discarded ==
  ASSUME ListsInv, NEW k \in 1 .. Len(m_queued)
  PROVE  LET behind == SubSeq(m_queued, k + 1, Len(m_queued))
         IN  /\ DiscardUpTo(k) \in Seq(Buffer) /\ behind \in Seq(Buffer)
             /\ m_queued[k] \in Buffer
             /\ Len(DiscardUpTo(k)) + Len(behind) = Len(m_discard) + Len(m_queued)
             /\ {m_queued[k]} \cup ToSet(DiscardUpTo(k)) \cup ToSet(behind)
                   = {m_presentsource} \cup ToSet(m_discard) \cup ToSet(m_queued)
<1> DEFINE before == SubSeq(m_queued, 1, k - 1)
           behind == SubSeq(m_queued, k + 1, Len(m_queued))
           added == Append(before, m_presentsource)
<1>1. /\ m_queued[k] \in Buffer /\ before \in Seq(Buffer) /\ behind \in Seq(Buffer)
      /\ Len(before) = k - 1 /\ Len(behind) = Len(m_queued) - k
      /\ ToSet(m_queued) = ToSet(before) \cup {m_queued[k]} \cup ToSet(behind)
  BY Cut DEF ListsInv
<1> HIDE DEF before, behind
<1>2. /\ added \in Seq(Buffer) /\ Len(added) = Len(before) + 1
      /\ ToSet(added) = ToSet(before) \cup {m_presentsource}
  BY <1>1, Appended DEF ListsInv
<1>3. DiscardUpTo(k) = m_discard \o added
  BY DEF DiscardUpTo, before
<1> HIDE DEF added
<1>4. /\ DiscardUpTo(k) \in Seq(Buffer) /\ Len(DiscardUpTo(k)) = Len(m_discard) + Len(added)
      /\ ToSet(DiscardUpTo(k)) = ToSet(m_discard) \cup ToSet(added)
  <2>1. m_discard \in Seq(Buffer)
    BY DEF ListsInv
  <2>2. /\ m_discard \o added \in Seq(Buffer)
        /\ Len(m_discard \o added) = Len(m_discard) + Len(added)
        /\ ToSet(m_discard \o added) = ToSet(m_discard) \cup ToSet(added)
    BY <1>2, <2>1, Concatenated
  <2>3. QED BY <1>3, <2>2
<1>5. Len(m_discard) \in Nat /\ Len(m_queued) \in Nat
  BY LenProperties DEF ListsInv
<1>6. Len(DiscardUpTo(k)) + Len(behind) = Len(m_discard) + Len(m_queued)
  BY <1>1, <1>2, <1>4, <1>5
<1>7. QED BY <1>1, <1>2, <1>4, <1>6 DEF behind

-----------------------------------------------------------------------------
(* The lists and the pictures in them                                      *)

LEMMA ListsStep ==
  ASSUME LocksInv, [Next]_vars
  PROVE  ListsInv'
<1>1. /\ ListsInv /\ <<>> \in Seq(Buffer) /\ 0 \in Buffer
      /\ Len(m_queued) \in Nat
  BY AreSizesOK, LenProperties DEF LocksInv, ListsInv, Buffer, SizesOK
<1>2. m_QueueSize' = m_QueueSize \/ Untouched \/ Reconfigure
  BY NextOnLists DEF MoveAnyFrame, MoveToFrame, MoveNone, MoveNoFrame, ClearQueued, ClearDiscard,
     ClearFree, FillFree, DiscardBuffer, FlipPage, settings
<1>3. 2 \in 2 .. NUM_BUFFERS /\ Sizes \subseteq 2 .. NUM_BUFFERS
  BY AreSizesOK DEF SizesOK
<1>4. m_QueueSize' \in 2 .. NUM_BUFFERS
  BY <1>1, <1>2, <1>3 DEF ListsInv, Untouched, Reconfigure, ConfigureBuffers
<1>5. CASE Untouched
  BY <1>1, <1>4, <1>5 DEF ListsInv, Untouched, SameLists
<1>6. CASE MoveAnyFrame
  <2>0. PICK k \in 1 .. Len(m_queued) : \E needed : MoveToFrame(k, needed)
    BY <1>6 DEF MoveAnyFrame
  <2>1. PICK needed : MoveToFrame(k, needed)
    BY <2>0
  <2>2. /\ DiscardUpTo(k) \in Seq(Buffer)
        /\ SubSeq(m_queued, k + 1, Len(m_queued)) \in Seq(Buffer)
        /\ m_queued[k] \in Buffer
    BY <1>1, Discarded
  <2>3. m_free' \in Seq(Buffer) /\ m_discard' \in Seq(Buffer)
    BY <1>1, <2>1, <2>2, Released DEF MoveToFrame, ListsInv
  <2>4. QED BY <1>4, <2>1, <2>2, <2>3 DEF MoveToFrame, ListsInv
<1>7. CASE MoveNone
  <2>1. PICK needed : MoveNoFrame(needed)
    BY <1>7 DEF MoveNone
  <2>2. m_free' \in Seq(Buffer) /\ m_discard' \in Seq(Buffer)
    BY <1>1, <2>1, Released DEF MoveNoFrame, ListsInv
  <2>3. QED BY <1>1, <1>4, <2>1, <2>2 DEF MoveNoFrame, ListsInv
<1>8. CASE ClearQueued
  BY <1>1, <1>4, <1>8 DEF ClearQueued, ListsInv
<1>9. CASE ClearDiscard
  BY <1>1, <1>4, <1>9 DEF ClearDiscard, ListsInv
<1>10. CASE ClearFree
  BY <1>1, <1>4, <1>10 DEF ClearFree, ListsInv
<1>11. CASE FillFree
  <2>1. AllButTheFirst(m_QueueSize) \in Seq(Buffer)
    BY <1>1, FirstsLeftOut DEF ListsInv
  <2>2. m_free' \in Seq(Buffer)
    BY <1>1, <1>11, <2>1, Concatenated DEF FillFree, ListsInv
  <2>3. QED BY <1>1, <1>4, <1>11, <2>2 DEF FillFree, ListsInv
<1>12. CASE Reconfigure
  <2>1. PICK n \in Sizes : ConfigureBuffers(n)
    BY <1>12 DEF Reconfigure
  <2>2. AllButTheFirst(n) \in Seq(Buffer)
    BY <1>3, FirstsLeftOut
  <2>3. QED BY <1>1, <1>4, <2>1, <2>2 DEF ConfigureBuffers, ListsInv
<1>13. CASE DiscardBuffer
  <2>1. m_discard' \in Seq(Buffer)
    BY <1>1, <1>13, Concatenated DEF DiscardBuffer, ListsInv
  <2>2. QED BY <1>1, <1>4, <1>13, <2>1 DEF DiscardBuffer, ListsInv
<1>14. CASE FlipPage
  <2>1. Head(m_free) \in Buffer /\ Tail(m_free) \in Seq(Buffer)
    BY <1>1, <1>14, HeadTailProperties DEF FlipPage, ListsInv
  <2>2. m_queued' \in Seq(Buffer)
    BY <1>1, <1>14, <2>1, Appended DEF FlipPage, AtEnd, ListsInv
  <2>3. QED BY <1>1, <1>4, <1>14, <2>1, <2>2 DEF FlipPage, ListsInv
<1>15. QED
  BY NextOnLists, <1>5, <1>6, <1>7, <1>8, <1>9, <1>10, <1>11, <1>12, <1>13, <1>14

LEMMA PicturesStep ==
  ASSUME OrderInv, [Next]_vars
  PROVE  PicturesInv'
<1> USE DEF OrderInv, LocksInv
<1>1. /\ PicturesInv /\ ListsInv /\ Len(m_queued) \in Nat
  BY LenProperties DEF ListsInv
<1>2. CASE UNCHANGED <<picture, shown, picturesQueued, m_queued>>
  BY <1>1, <1>2 DEF PicturesInv
<1>3. CASE /\ m_queued' = <<>> /\ picturesQueued' = <<>>
           /\ picture' = picture /\ shown' = shown
  BY <1>1, <1>3 DEF PicturesInv
<1>4. CASE MoveAnyFrame
  <2>0. PICK k \in 1 .. Len(m_queued) : \E needed : MoveToFrame(k, needed)
    BY <1>4 DEF MoveAnyFrame
  <2>1. PICK needed : MoveToFrame(k, needed)
    BY <2>0
  <2> DEFINE n == Len(m_queued)
  <2>2. /\ n \in Nat /\ k \in 1 .. n /\ n = Len(picturesQueued)
        /\ picturesQueued \in Seq(Nat)
    BY <1>1 DEF PicturesInv
  <2>3. /\ picturesQueued' \in Seq(Nat) /\ Len(picturesQueued') = n - k
        /\ \A i \in 1 .. n - k : picturesQueued'[i] = picturesQueued[k + i]
    <3>1. k \in 1 .. Len(picturesQueued)
      BY <2>2
    <3>2. /\ SubSeq(picturesQueued, k + 1, Len(picturesQueued)) \in Seq(Nat)
          /\ Len(SubSeq(picturesQueued, k + 1, Len(picturesQueued))) = Len(picturesQueued) - k
          /\ \A i \in 1 .. Len(picturesQueued) - k :
                SubSeq(picturesQueued, k + 1, Len(picturesQueued))[i] = picturesQueued[k + i]
      BY <2>2, <3>1, Cut
    <3>3. picturesQueued' = SubSeq(picturesQueued, k + 1, Len(picturesQueued))
      BY <2>1, <2>2 DEF MoveToFrame
    <3>4. QED BY <2>2, <3>2, <3>3
  <2>4. Len(m_queued') = n - k
    BY <1>1, <2>1, Cut DEF MoveToFrame, ListsInv
  <2>5. shown' = picturesQueued[k] /\ picture' = picture
    BY <2>1 DEF MoveToFrame
  <2>6. /\ picture \in Nat /\ shown \in 0 .. picture
        /\ \A i \in 1 .. n : /\ picturesQueued[i] \in shown + 1 .. picture
                            /\ \A j \in 1 .. i - 1 : picturesQueued[j] < picturesQueued[i]
    BY <1>1 DEF PicturesInv
  <2> HIDE DEF n
  <2>7. shown' \in 0 .. picture
    BY <2>2, <2>5, <2>6
  <2>8. ASSUME NEW i \in 1 .. n - k
        PROVE  /\ picturesQueued'[i] \in shown' + 1 .. picture
               /\ \A j \in 1 .. i - 1 : picturesQueued'[j] < picturesQueued'[i]
    <3>1. k + i \in 1 .. n /\ k \in 1 .. (k + i) - 1 /\ i \in Nat
      BY <2>2
    <3>2. /\ picturesQueued'[i] = picturesQueued[k + i]
          /\ picturesQueued[k] < picturesQueued[k + i]
          /\ picturesQueued[k] \in shown + 1 .. picture
          /\ picturesQueued[k + i] \in shown + 1 .. picture
      BY <2>2, <2>3, <2>6, <3>1
    <3>3. picturesQueued'[i] \in shown' + 1 .. picture
      BY <2>5, <2>6, <3>2
    <3>4. ASSUME NEW j \in 1 .. i - 1 PROVE picturesQueued'[j] < picturesQueued'[i]
      <4>1. j \in 1 .. n - k /\ k + j \in 1 .. (k + i) - 1
        BY <2>2, <3>1
      <4>2. QED BY <2>3, <2>6, <3>1, <4>1
    <3>5. QED BY <3>3, <3>4
  <2>9. QED BY <2>2, <2>3, <2>4, <2>5, <2>6, <2>7, <2>8 DEF PicturesInv
<1>5. CASE FlipPage
  <2> DEFINE n == Len(m_queued)
  <2>1. /\ n \in Nat /\ n = Len(picturesQueued) /\ picturesQueued \in Seq(Nat)
        /\ picture \in Nat /\ shown \in 0 .. picture /\ shown' = shown
        /\ picture' = picture + 1
        /\ \A i \in 1 .. n : /\ picturesQueued[i] \in shown + 1 .. picture
                            /\ \A j \in 1 .. i - 1 : picturesQueued[j] < picturesQueued[i]
    BY <1>1, <1>5 DEF PicturesInv, FlipPage
  <2>2. Head(m_free) \in Buffer
    BY <1>1, <1>5, HeadTailProperties DEF FlipPage, ListsInv
  <2>3. Len(m_queued') = n + 1
    BY <1>1, <1>5, <2>2, Appended DEF FlipPage, AtEnd, ListsInv
  <2> HIDE DEF n
  <2>4. picture' \in Nat /\ picturesQueued' = Append(picturesQueued, picture')
    BY <1>5, <2>1 DEF FlipPage, AtEnd
  <2>5. /\ picturesQueued' \in Seq(Nat) /\ Len(picturesQueued') = n + 1
        /\ \A i \in 1 .. n : picturesQueued'[i] = picturesQueued[i]
        /\ picturesQueued'[n + 1] = picture'
    BY <2>1, <2>4, AppendProperties
  <2>6. ASSUME NEW i \in 1 .. n + 1
        PROVE  /\ picturesQueued'[i] \in shown + 1 .. picture'
               /\ \A j \in 1 .. i - 1 : picturesQueued'[j] < picturesQueued'[i]
    <3>1. CASE i \in 1 .. n
      <4>1. \A j \in 1 .. i - 1 : j \in 1 .. n
        BY <2>1, <3>1
      <4>2. QED BY <2>1, <2>5, <3>1, <4>1
    <3>2. CASE i = n + 1
      <4>1. \A j \in 1 .. i - 1 : j \in 1 .. n
        BY <2>1, <3>2
      <4>2. QED BY <2>1, <2>5, <3>2, <4>1
    <3>3. QED BY <2>1, <3>1, <3>2
  <2>7. QED BY <2>1, <2>3, <2>4, <2>5, <2>6 DEF PicturesInv
<1>6. QED
  <2>1. MoveNone \/ ClearDiscard \/ ClearFree \/ FillFree
        => UNCHANGED <<picture, shown, picturesQueued, m_queued>>
    BY DEF MoveNone, MoveNoFrame, ClearDiscard, ClearFree, FillFree, history
  <2>2. ClearQueued \/ Reconfigure \/ DiscardBuffer
        => /\ m_queued' = <<>> /\ picturesQueued' = <<>>
           /\ picture' = picture /\ shown' = shown
    BY DEF ClearQueued, Reconfigure, ConfigureBuffers, DiscardBuffer
  <2>3. Untouched => UNCHANGED <<picture, shown, picturesQueued, m_queued>>
    BY DEF Untouched, SameLists
  <2>4. QED BY NextOnLists, <1>2, <1>3, <1>4, <1>5, <2>1, <2>2, <2>3

-----------------------------------------------------------------------------
(* Flush                                                                   *)

(* The video thread does not change a list unnoticed while Flush does.     *)
LEMMA VideoKeepsOut ==
  ASSUME Reconfigure \/ DiscardBuffer \/ FlipPage, ~raced'
  PROVE  app' = app /\ app \notin Flushing /\ (raced => Reconfigure)
BY DEF Reconfigure, ConfigureBuffers, DiscardBuffer, FlipPage, Races, VideoSteps

LEMMA FlushedSoFarStep ==
  ASSUME LocksInv, FlushedSoFar, [Next]_vars
  PROVE  FlushedSoFar'
<1> USE DEF FlushedSoFar, Flushing, history
<1>1. CASE Untouched
  BY <1>1 DEF Untouched, SameLists
<1>2. CASE MoveAnyFrame \/ MoveNone
  BY <1>2 DEF MoveAnyFrame, MoveNone, MoveToFrame, MoveNoFrame, AppSteps
<1>3. CASE ClearQueued
  BY <1>3 DEF ClearQueued, AppSteps
<1>4. CASE ClearDiscard
  BY <1>4 DEF ClearDiscard, AppSteps
<1>5. CASE ClearFree
  BY <1>5 DEF ClearFree, AppSteps
<1>6. CASE FillFree
  BY <1>6 DEF FillFree, AppSteps, LocksInv, SectionInv
<1>7. CASE Reconfigure \/ DiscardBuffer \/ FlipPage
  BY <1>7, VideoKeepsOut
<1>8. QED BY NextOnLists, <1>1, <1>2, <1>3, <1>4, <1>5, <1>6, <1>7

-----------------------------------------------------------------------------
(* Every buffer is in one place                                            *)

LEMMA MoveAnyKeepsOnce ==
  ASSUME ListsInv, MoveAnyFrame, NEW n,
         EachOnce(m_presentsource, m_free, m_queued, m_discard, n)
  PROVE  EachOnce(m_presentsource', m_free', m_queued', m_discard', n)
<1>0. PICK k \in 1 .. Len(m_queued) : \E needed : MoveToFrame(k, needed)
  BY DEF MoveAnyFrame
<1>1. PICK needed : MoveToFrame(k, needed)
  BY <1>0
<1> DEFINE behind == SubSeq(m_queued, k + 1, Len(m_queued))
           discard == DiscardUpTo(k)
<1>2. /\ discard \in Seq(Buffer) /\ behind \in Seq(Buffer)
      /\ Len(discard) + Len(behind) = Len(m_discard) + Len(m_queued)
      /\ {m_queued[k]} \cup ToSet(discard) \cup ToSet(behind)
            = {m_presentsource} \cup ToSet(m_discard) \cup ToSet(m_queued)
  BY Discarded
<1>3. /\ m_presentsource' = m_queued[k] /\ m_queued' = behind
      /\ ReleasePrevious(discard, needed)
  BY <1>1 DEF MoveToFrame
<1> HIDE DEF discard, behind
<1>4. /\ m_free' \in Seq(Buffer) /\ m_discard' \in Seq(Buffer)
      /\ Len(m_free') + Len(m_discard') = Len(m_free) + Len(discard)
      /\ ToSet(m_free') \cup ToSet(m_discard') = ToSet(m_free) \cup ToSet(discard)
  BY <1>2, <1>3, Released DEF ListsInv
<1>5. /\ Len(m_free) \in Nat /\ Len(m_queued) \in Nat /\ Len(m_discard) \in Nat
      /\ Len(m_free') \in Nat /\ Len(m_discard') \in Nat
      /\ Len(discard) \in Nat /\ Len(behind) \in Nat
  BY <1>2, <1>4, LenProperties DEF ListsInv
<1>6. 1 + Len(m_free') + Len(m_queued') + Len(m_discard') = n
  <2>1. 1 + Len(m_free) + Len(m_queued) + Len(m_discard) = n
    BY DEF EachOnce
  <2>2. Len(m_queued') = Len(behind)
    BY <1>3
  <2>3. /\ Len(discard) + Len(behind) = Len(m_discard) + Len(m_queued)
        /\ Len(m_free') + Len(m_discard') = Len(m_free) + Len(discard)
    BY <1>2, <1>4
  <2>4. QED BY <1>5, <2>1, <2>2, <2>3
<1>7. {m_presentsource'} \cup ToSet(m_free') \cup ToSet(m_queued') \cup ToSet(m_discard')
        = 0 .. n - 1
  <2>1. {m_presentsource'} \cup ToSet(m_free') \cup ToSet(m_queued') \cup ToSet(m_discard')
          = {m_queued[k]} \cup ToSet(behind) \cup (ToSet(m_free) \cup ToSet(discard))
    BY <1>3, <1>4
  <2>2. {m_presentsource'} \cup ToSet(m_free') \cup ToSet(m_queued') \cup ToSet(m_discard')
          = {m_presentsource} \cup ToSet(m_free) \cup ToSet(m_queued) \cup ToSet(m_discard)
    BY <1>2, <2>1
  <2>3. QED BY <2>2 DEF EachOnce
<1>8. QED BY <1>6, <1>7 DEF EachOnce

LEMMA MoveNoneKeepsOnce ==
  ASSUME ListsInv, MoveNone, NEW n,
         EachOnce(m_presentsource, m_free, m_queued, m_discard, n)
  PROVE  EachOnce(m_presentsource', m_free', m_queued', m_discard', n)
<1>1. PICK needed : MoveNoFrame(needed)
  BY DEF MoveNone
<1>2. /\ m_presentsource' = m_presentsource /\ m_queued' = m_queued
      /\ ReleasePrevious(m_discard, needed)
  BY <1>1 DEF MoveNoFrame
<1>3. /\ m_free' \in Seq(Buffer) /\ m_discard' \in Seq(Buffer)
      /\ Len(m_free') + Len(m_discard') = Len(m_free) + Len(m_discard)
      /\ ToSet(m_free') \cup ToSet(m_discard') = ToSet(m_free) \cup ToSet(m_discard)
  BY <1>2, Released DEF ListsInv
<1>4. /\ Len(m_free) \in Nat /\ Len(m_queued) \in Nat /\ Len(m_discard) \in Nat
      /\ Len(m_free') \in Nat /\ Len(m_discard') \in Nat
  BY <1>3, LenProperties DEF ListsInv
<1>5. 1 + Len(m_free') + Len(m_queued') + Len(m_discard') = n
  BY <1>2, <1>3, <1>4 DEF EachOnce
<1>6. QED BY <1>2, <1>3, <1>5 DEF EachOnce

LEMMA DiscardKeepsOnce ==
  ASSUME ListsInv, DiscardBuffer, NEW n,
         EachOnce(m_presentsource, m_free, m_queued, m_discard, n)
  PROVE  EachOnce(m_presentsource', m_free', m_queued', m_discard', n)
<1>1. /\ m_discard' = m_discard \o m_queued /\ m_queued' = <<>>
      /\ m_free' = m_free /\ m_presentsource' = m_presentsource
  BY DEF DiscardBuffer
<1>2. /\ Len(m_discard') = Len(m_discard) + Len(m_queued)
      /\ ToSet(m_discard') = ToSet(m_discard) \cup ToSet(m_queued)
  BY <1>1, Concatenated DEF ListsInv
<1>3. Len(m_queued') = 0 /\ ToSet(m_queued') = {}
  BY <1>1 DEF ToSet
<1>4. Len(m_free) \in Nat /\ Len(m_queued) \in Nat /\ Len(m_discard) \in Nat
  BY LenProperties DEF ListsInv
<1>5. 1 + Len(m_free') + Len(m_queued') + Len(m_discard') = n
  BY <1>1, <1>2, <1>3, <1>4 DEF EachOnce
<1>6. QED BY <1>1, <1>2, <1>3, <1>5 DEF EachOnce

LEMMA FlipKeepsOnce ==
  ASSUME ListsInv, FlipPage, NEW n,
         EachOnce(m_presentsource, m_free, m_queued, m_discard, n)
  PROVE  EachOnce(m_presentsource', m_free', m_queued', m_discard', n)
<1> DEFINE x == Head(m_free)
<1>1. /\ m_queued' = Append(m_queued, x) /\ m_free' = Tail(m_free) /\ m_free # <<>>
      /\ m_discard' = m_discard /\ m_presentsource' = m_presentsource
  BY DEF FlipPage, AtEnd
<1>2. /\ x = m_free[1] /\ m_free' \in Seq(Buffer) /\ Len(m_free') = Len(m_free) - 1
      /\ x \in Buffer
      /\ \A i \in 1 .. Len(m_free') : m_free'[i] = m_free[i + 1]
  BY <1>1, HeadTailProperties DEF ListsInv
<1>3. /\ Len(m_queued') = Len(m_queued) + 1
      /\ ToSet(m_queued') = ToSet(m_queued) \cup {x}
  BY <1>1, <1>2, Appended DEF ListsInv
<1>4. /\ Len(m_free) \in Nat /\ Len(m_queued) \in Nat /\ Len(m_discard) \in Nat
      /\ Len(m_free') \in Nat
      /\ DOMAIN m_free = 1 .. Len(m_free) /\ DOMAIN m_free' = 1 .. Len(m_free')
  BY <1>2, LenProperties DEF ListsInv
<1>5. ToSet(m_free) = {x} \cup ToSet(m_free')
  <2>1. ASSUME NEW i \in 1 .. Len(m_free) PROVE m_free[i] \in {x} \cup ToSet(m_free')
    <3>1. CASE i = 1
      BY <1>2, <3>1
    <3>2. CASE i # 1
      <4>1. i - 1 \in DOMAIN m_free' /\ m_free'[i - 1] = m_free[i]
        BY <1>2, <1>4, <3>2
      <4>2. QED BY <4>1 DEF ToSet
    <3>3. QED BY <3>1, <3>2
  <2>2. ASSUME NEW i \in 1 .. Len(m_free') PROVE m_free'[i] \in ToSet(m_free)
    <3>1. i + 1 \in DOMAIN m_free /\ m_free'[i] = m_free[i + 1]
      BY <1>2, <1>4
    <3>2. QED BY <3>1 DEF ToSet
  <2>3. x \in ToSet(m_free)
    <3>1. 1 \in DOMAIN m_free
      BY <1>2, <1>4
    <3>2. QED BY <1>2, <3>1 DEF ToSet
  <2>4. QED BY <1>4, <2>1, <2>2, <2>3 DEF ToSet
<1> HIDE DEF x
<1>6. 1 + Len(m_free') + Len(m_queued') + Len(m_discard') = n
  BY <1>1, <1>2, <1>3, <1>4 DEF EachOnce
<1>7. {m_presentsource'} \cup ToSet(m_free') \cup ToSet(m_queued') \cup ToSet(m_discard')
        = 0 .. n - 1
  BY <1>1, <1>3, <1>5 DEF EachOnce
<1>8. QED BY <1>6, <1>7 DEF EachOnce

(* The lists of Configure and of Flush: all but the buffer in front.       *)
LEMMA NewLists ==
  ASSUME NEW n \in 2 .. NUM_BUFFERS
  PROVE  EachOnce(0, AllButTheFirst(n), <<>>, <<>>, n)
<1>1. /\ Len(AllButTheFirst(n)) = n - 1 /\ ToSet(AllButTheFirst(n)) = 1 .. n - 1
      /\ n \in Nat /\ n >= 2
  BY FirstsLeftOut, AreSizesOK DEF SizesOK
<1>2. Len(<<>>) = 0 /\ ToSet(<<>>) = {}
  BY DEF ToSet
<1>3. 0 .. n - 1 = {0} \cup 1 .. n - 1
  BY <1>1
<1>4. QED BY <1>1, <1>2, <1>3 DEF EachOnce

LEMMA OnceStep ==
  ASSUME LocksInv, FlushedSoFar, OnceInv, [Next]_vars
  PROVE  OnceInv'
<1>1. ListsInv
  BY DEF LocksInv
<1>2. CASE Untouched
  <2>1. SUFFICES ASSUME ~raced', m_bIsStarted', app' \notin Flushing
                 PROVE  EachOnce(m_presentsource', m_free', m_queued', m_discard', m_QueueSize')
    BY DEF OnceInv, Flushing
  <2>2. ~raced /\ m_bIsStarted /\ app \notin Flushing /\ m_QueueSize' = m_QueueSize
    BY <1>2, <2>1 DEF Untouched, Flushing
  <2>3. QED BY <1>2, <2>1, <2>2 DEF OnceInv, Untouched, SameLists
<1>3. ASSUME MoveAnyFrame \/ MoveNone \/ DiscardBuffer \/ FlipPage
      PROVE  OnceInv'
  <2>0. m_bIsStarted' = m_bIsStarted /\ m_QueueSize' = m_QueueSize
    BY <1>3 DEF MoveAnyFrame, MoveToFrame, MoveNone, MoveNoFrame, DiscardBuffer, FlipPage, settings
  <2>2. SUFFICES ASSUME m_bIsStarted, ~raced'
                 PROVE  EachOnce(m_presentsource', m_free', m_queued', m_discard', m_QueueSize)
    BY <2>0 DEF OnceInv, Flushing
  <2>1. ~raced /\ app \notin Flushing
    <3>1. CASE MoveAnyFrame \/ MoveNone
      BY <2>2, <3>1 DEF MoveAnyFrame, MoveToFrame, MoveNone, MoveNoFrame, AppSteps, Flushing,
         history
    <3>2. CASE DiscardBuffer \/ FlipPage
      BY <2>2, <3>2 DEF DiscardBuffer, FlipPage, Races
    <3>3. QED BY <1>3, <3>1, <3>2
  <2>3. EachOnce(m_presentsource, m_free, m_queued, m_discard, m_QueueSize)
    BY <2>1, <2>2 DEF OnceInv
  <2>4. QED
    BY <1>1, <1>3, <2>3, MoveAnyKeepsOnce, MoveNoneKeepsOnce, DiscardKeepsOnce, FlipKeepsOnce
<1>4. ASSUME ClearQueued \/ ClearDiscard \/ ClearFree
      PROVE  OnceInv'
  <2>1. app' \in Flushing
    BY <1>4 DEF ClearQueued, ClearDiscard, ClearFree, AppSteps, Flushing
  <2>2. QED BY <2>1 DEF OnceInv, Flushing
<1>5. ASSUME FillFree, ~raced'
      PROVE  OnceInv'
  <2>1. /\ m_queued = <<>> /\ m_discard = <<>> /\ m_free = <<>> /\ m_presentsource = 0
        /\ m_QueueSize \in 2 .. NUM_BUFFERS
    BY <1>5 DEF FillFree, AppSteps, FlushedSoFar, LocksInv, ListsInv, history
  <2>2. AllButTheFirst(m_QueueSize) \in Seq(Buffer)
    BY <2>1, FirstsLeftOut
  <2>3. m_free' = AllButTheFirst(m_QueueSize)
    BY <1>5, <2>1, <2>2, ConcatEmptySeq DEF FillFree
  <2>4. EachOnce(0, AllButTheFirst(m_QueueSize), <<>>, <<>>, m_QueueSize)
    BY <2>1, NewLists
  <2>5. /\ m_queued' = <<>> /\ m_discard' = <<>> /\ m_presentsource' = 0
        /\ m_QueueSize' = m_QueueSize
    BY <1>5, <2>1 DEF FillFree, settings
  <2>6. QED BY <2>3, <2>4, <2>5 DEF OnceInv
<1>6. CASE Reconfigure
  <2>1. PICK n \in Sizes : ConfigureBuffers(n)
    BY <1>6 DEF Reconfigure
  <2>2. EachOnce(0, AllButTheFirst(n), <<>>, <<>>, n)
    BY AreSizesOK, NewLists DEF SizesOK
  <2>3. QED BY <2>1, <2>2 DEF ConfigureBuffers, OnceInv
<1>7. CASE raced'
  BY <1>7 DEF OnceInv
<1>8. QED BY NextOnLists, <1>2, <1>3, <1>4, <1>5, <1>6, <1>7

(* EachBufferOnce says the same of the lists put together.                 *)
LEMMA OnceImplies ==
  ASSUME ListsInv, OnceInv
  PROVE  EachBufferOnce
<1> DEFINE front == <<m_presentsource>>
           two == front \o m_free
           three == two \o m_queued
           all == three \o m_discard
<1>0. m_free \in Seq(Buffer) /\ m_queued \in Seq(Buffer) /\ m_discard \in Seq(Buffer)
  BY DEF ListsInv
<1>1. /\ front \in Seq(Buffer) /\ Len(front) = 1 /\ ToSet(front) = {m_presentsource}
  BY DEF ListsInv, ToSet
<1> HIDE DEF front
<1>2. /\ front \o m_free \in Seq(Buffer) /\ Len(front \o m_free) = Len(front) + Len(m_free)
      /\ ToSet(front \o m_free) = ToSet(front) \cup ToSet(m_free)
  <2>1. front \in Seq(Buffer) /\ m_free \in Seq(Buffer)
    BY <1>0, <1>1
  <2> HIDE DEF two, three, all
  <2>2. QED BY <2>1, Concatenated
<1>3. /\ two \o m_queued \in Seq(Buffer) /\ Len(two \o m_queued) = Len(two) + Len(m_queued)
      /\ ToSet(two \o m_queued) = ToSet(two) \cup ToSet(m_queued)
  <2>1. two \in Seq(Buffer)
    BY <1>2
  <2> HIDE DEF two
  <2>2. QED BY <1>0, <2>1, Concatenated
<1>4. /\ Len(three \o m_discard) = Len(three) + Len(m_discard)
      /\ ToSet(three \o m_discard) = ToSet(three) \cup ToSet(m_discard)
  <2>1. three \in Seq(Buffer)
    BY <1>3
  <2> HIDE DEF three
  <2>2. QED BY <1>0, <2>1, Concatenated
<1>5. /\ Len(m_free) \in Nat /\ Len(m_queued) \in Nat /\ Len(m_discard) \in Nat
  BY LenProperties DEF ListsInv
<1>6. all = <<m_presentsource>> \o m_free \o m_queued \o m_discard
  BY DEF front
<1>7. Len(all) = 1 + Len(m_free) + Len(m_queued) + Len(m_discard)
  <2>1. /\ Len(two) = Len(front) + Len(m_free) /\ Len(three) = Len(two) + Len(m_queued)
        /\ Len(all) = Len(three) + Len(m_discard)
    BY <1>2, <1>3, <1>4
  <2> HIDE DEF all, three, two
  <2>2. QED BY <1>1, <1>5, <2>1
<1>8. ToSet(all)
        = {m_presentsource} \cup ToSet(m_free) \cup ToSet(m_queued) \cup ToSet(m_discard)
  <2>1. /\ ToSet(two) = ToSet(front) \cup ToSet(m_free)
        /\ ToSet(three) = ToSet(two) \cup ToSet(m_queued)
        /\ ToSet(all) = ToSet(three) \cup ToSet(m_discard)
    BY <1>2, <1>3, <1>4
  <2> HIDE DEF all, three, two
  <2>2. QED BY <1>1, <2>1
<1> HIDE DEF all
<1>9. QED BY <1>6, <1>7, <1>8 DEF OnceInv, EachOnce, EachBufferOnce, InOnePlace

-----------------------------------------------------------------------------
(* The buffer that is being filled                                         *)

(* Only AddVideoPicture begins to fill, and until FlipPage only frames are *)
(* moved or nothing happens to the free buffers; Flush takes the picture.  *)
LEMMA NextOnFilling ==
  ASSUME LocksInv, FillingInv, [Next]_vars, ~raced', Filling'
  PROVE  \/ AddVideoPicture /\ app' = app /\ app \notin Flushing
         \/ /\ Filling /\ ~raced /\ index' = index
            /\ app' \notin Flushing
            /\ m_free' = m_free \/ MoveAnyFrame \/ MoveNone
<1> USE DEF Filling, FillingInv, Flushing, AppSteps, VideoSteps, data, history, buffers
<1>1. ASSUME FrameMove \/ EnterShared \/ RenderDone \/ FrameFinish \/ SetRenderGUI \/
             UpdateResolution \/ UpdateEnter \/ UpdateLeave \/ StartFlush \/ PreInit \/ CloseFile
             \/ UnInit
      PROVE  /\ Filling /\ ~raced /\ index' = index /\ m_free' = m_free
             /\ app' \notin Flushing
  BY <1>1 DEF FrameMove, EnterShared, RenderDone, FrameFinish, SetRenderGUI, UpdateResolution,
              UpdateEnter, UpdateLeave, StartFlush, PreInit, CloseFile, UnInit
<1>2. CASE FlushRenderer
  <2>1. video # "filling"
    BY <1>2 DEF FlushRenderer, CanLock, LocksInv, SectionInv, Sharers, VideoShares, AppShares
  <2>2. video' = video /\ index' = NoBuffer
    BY <1>2 DEF FlushRenderer
  <2>3. QED BY <2>1, <2>2
<1>3. ASSUME ClearQueued \/ ClearDiscard \/ ClearFree \/ FillFree
      PROVE  FALSE
  <2>1. Filling /\ ~raced /\ app \in Flushing
    BY <1>3 DEF ClearQueued, ClearDiscard, ClearFree, FillFree
  <2>2. QED BY <2>1
<1>4. ASSUME MoveAnyFrame \/ MoveNone
      PROVE  Filling /\ ~raced /\ index' = index /\ app' \notin Flushing
  BY <1>4 DEF MoveAnyFrame, MoveToFrame, MoveNone, MoveNoFrame
<1>5. CASE AddVideoPicture
  BY <1>5 DEF AddVideoPicture, Races
<1>6. CASE AddDone
  BY <1>6 DEF AddDone
<1>7. ASSUME VideoExit \/ OutputPicture \/ ConfigureTimesOut \/ ConfigurePresented \/
             ConfigureEnter \/ ConfigureFails \/ SwitchToFullscreen \/ WaitNoGUI \/ WaitPauseEnds
             \/ WaitGetsBuffer \/ WaitForBuffer \/ WaitGivesUp \/ AddFails \/ AddGivesUp \/
             FlipNothing \/ OpenVideo \/ Reconfigure \/ DiscardBuffer \/ FlipPage
      PROVE  video' \notin {"filling", "filled"}
  BY <1>7 DEF VideoExit, OutputPicture, ConfigureTimesOut, ConfigurePresented, ConfigureEnter,
              ConfigureFails, SwitchToFullscreen, WaitNoGUI, WaitPauseEnds, WaitGetsBuffer,
              WaitForBuffer, WaitGivesUp, AddFails, AddGivesUp, FlipNothing, OpenVideo,
              Reconfigure, DiscardBuffer, FlipPage, ConfigureBuffers
<1>8. ASSUME StopVideo \/ UNCHANGED vars
      PROVE  /\ Filling /\ ~raced /\ index' = index /\ m_free' = m_free
             /\ app' \notin Flushing
  BY <1>8 DEF StopVideo, vars
<1>9. QED
  BY <1>1, <1>2, <1>3, <1>4, <1>5, <1>6, <1>7, <1>8 DEF Next, AppStep, VideoStep

LEMMA FillingStep ==
  ASSUME LocksInv, FillingInv, [Next]_vars
  PROVE  FillingInv'
<1>1. SUFFICES ASSUME ~raced', Filling'
               PROVE  app' \notin Flushing /\ m_free' # <<>> /\ Head(m_free') = index'
  BY DEF FillingInv, Filling, Flushing
<1>2. ASSUME AddVideoPicture, app' = app, app \notin Flushing
      PROVE  app' \notin Flushing /\ m_free' # <<>> /\ Head(m_free') = index'
  BY <1>2 DEF AddVideoPicture, buffers
<1>3. ASSUME Filling, ~raced, index' = index, m_free' = m_free
      PROVE  m_free' # <<>> /\ Head(m_free') = index'
  BY <1>3 DEF FillingInv
<1>4. ASSUME Filling, ~raced, index' = index, MoveAnyFrame \/ MoveNone
      PROVE  m_free' # <<>> /\ Head(m_free') = index'
  <2>0. PICK discard \in Seq(Buffer) : \E needed : ReleasePrevious(discard, needed)
    <3>1. CASE MoveAnyFrame
      BY <3>1, Discarded DEF MoveAnyFrame, MoveToFrame, LocksInv
    <3>2. CASE MoveNone
      BY <3>2 DEF MoveNone, MoveNoFrame, LocksInv, ListsInv
    <3>3. QED BY <1>4, <3>1, <3>2
  <2>1. PICK needed : ReleasePrevious(discard, needed)
    BY <2>0
  <2>2. m_free' = m_free \o Without(discard, needed)
    BY <2>1 DEF ReleasePrevious, FreedAtEnd
  <2>3. /\ m_free \in Seq(Buffer) /\ m_free # <<>> /\ Head(m_free) = index
        /\ Without(discard, needed) \in Seq(Buffer)
    BY <1>4, WithoutProperties DEF LocksInv, ListsInv, FillingInv
  <2>4. /\ Len(m_free) \in Nat \ {0} /\ Len(Without(discard, needed)) \in Nat
    BY <2>3, EmptySeq, LenProperties
  <2>5. /\ m_free' \in Seq(Buffer)
        /\ Len(m_free') = Len(m_free) + Len(Without(discard, needed))
        /\ m_free'[1] = m_free[1]
    BY <2>2, <2>3, <2>4, ConcatProperties
  <2>6. m_free' # <<>>
    BY <2>4, <2>5
  <2>7. Head(m_free') = m_free'[1] /\ Head(m_free) = m_free[1]
    BY <2>3, <2>5, <2>6
  <2>8. QED BY <1>4, <2>3, <2>5, <2>6, <2>7
<1>5. QED BY <1>1, <1>2, <1>3, <1>4, NextOnFilling

-----------------------------------------------------------------------------
(* The theorems                                                            *)

LEMMA InitLists ==
  ASSUME Init
  PROVE  OrderInv /\ FlushedSoFar /\ OnceInv /\ FillingInv
<1>1. SectionInv
  BY DEF Init, NewSection, SectionInv, Section, Owner, Depth, Sharers, AppOwns, VideoOwns,
     AppShares, VideoShares, InFlush, Flushing
<1>2. ListsInv
  BY AreSizesOK DEF Init, ListsInv, Buffer, SizesOK
<1>3. PicturesInv
  BY DEF Init, PicturesInv
<1>4. FlushedSoFar /\ OnceInv /\ FillingInv
  BY DEF Init, Flushing, FlushedSoFar, OnceInv, FillingInv, Filling
<1>5. QED BY <1>1, <1>2, <1>3, <1>4 DEF OrderInv, LocksInv

(* Who holds m_sharedSection, and how deep or how often, is what the places *)
(* of the two threads say: never both alone, and nobody shares it while the *)
(* other has it alone.  The lists and the number of buffers keep their      *)
(* types.  UpdateResolution, Configure and WaitForBuffer take it in turn    *)
(* with m_presentlock.                                                      *)
THEOREM LocksCorrect == Spec => []LocksInv
<1>1. Init => LocksInv
  BY InitLists DEF OrderInv
<1>2. LocksInv /\ [Next]_vars => LocksInv'
  BY SectionStep, ListsStep DEF LocksInv
<1>3. QED BY <1>1, <1>2, PTL DEF Spec

(* Whatever the application thread flushes, and wherever it loses its      *)
(* device: pictures are shown in the order they were decoded, none twice   *)
(* and none after a later one.                                             *)
THEOREM PicturesShownInOrder == Spec => []ShownInOrder
<1>1. Init => OrderInv
  BY InitLists
<1>2. OrderInv /\ [Next]_vars => OrderInv'
  BY SectionStep, ListsStep, PicturesStep DEF OrderInv, LocksInv
<1>3. OrderInv => ShownInOrder
  <2>1. SUFFICES ASSUME OrderInv PROVE ShownInOrder
    OBVIOUS
  <2>2. PicturesInv /\ DOMAIN picturesQueued = 1 .. Len(m_queued)
    BY <2>1, LenProperties DEF OrderInv, PicturesInv
  <2>3. ASSUME NEW i \in DOMAIN picturesQueued
        PROVE  /\ picturesQueued[i] > shown
               /\ \A j \in 1 .. i - 1 : picturesQueued[i] > picturesQueued[j]
    <3>1. i \in 1 .. Len(m_queued) /\ Len(m_queued) \in Nat
      BY <2>1, <2>2, LenProperties DEF OrderInv, LocksInv, ListsInv
    <3>2. \A j \in 1 .. i - 1 : j \in 1 .. Len(m_queued)
      BY <3>1
    <3>3. QED BY <2>2, <3>1, <3>2 DEF PicturesInv
  <2>4. QED BY <2>3 DEF ShownInOrder
<1>4. QED BY <1>1, <1>2, <1>3, PTL DEF Spec

LEMMA BuffersInvariant == Spec => []BuffersInv
<1>1. Init => BuffersInv
  BY InitLists DEF BuffersInv, OrderInv
<1>2. BuffersInv /\ [Next]_vars => BuffersInv'
  BY SectionStep, ListsStep, FlushedSoFarStep, OnceStep, FillingStep DEF BuffersInv, LocksInv
<1>3. QED BY <1>1, <1>2, PTL DEF Spec

(* Wherever the device is lost, and wherever in Flush the video thread is  *)
(* let in: outside of Flush the lists of a configured renderer have every  *)
(* buffer, and once, unless the video thread changed a list, or chose a    *)
(* buffer from one, in the middle of the last Flush.  Frames that are      *)
(* moved, given back, skipped and discarded, Configure and a Flush that is *)
(* left alone never lose a buffer, nor have it twice.                      *)
THEOREM BuffersCorrect == Spec => []EachBufferOnce
<1>1. BuffersInv => EachBufferOnce
  BY OnceImplies DEF BuffersInv, LocksInv
<1>2. QED BY <1>1, BuffersInvariant, PTL

(* Likewise: the buffer that AddVideoPicture fills, without m_presentlock, *)
(* stays the first of m_free until FlipPage queues it, unless Flush has    *)
(* taken the picture from it, or the video thread came into Flush.         *)
THEOREM FillingCorrect == Spec => []FillingIsNext
<1>1. BuffersInv => FillingIsNext
  BY DEF BuffersInv, FillingInv, Filling, FillingIsNext
<1>2. QED BY <1>1, BuffersInvariant, PTL
=============================================================================
