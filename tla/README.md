# A TLA+ development of xbmc's concurrent core

xbmc is a media centre of some ten thousand source files. This directory holds TLA+ specifications of
the parts of it in which threads meet: the job manager and the queues built on it, the read-ahead
file cache, the message queues and barriers with which the video player drives its decoding
threads, the renderer's buffers between those and the screen, the message protocol of the audio engine,
and the messages by which everybody has the application thread do things. Each specification is
translated from the C++ (`PROJECT.json` gives the lines for every definition) and model-checked by TLC on
small instances; the job manager and the job queue, the file cache, the video player's queues, the render manager, the
actor protocol and the application messenger are also proved about with TLAPS, for instances of any size. The job manager is shown, by
TLC and by proof, to implement an abstract specification of what it promises.

Contents: [inventory](#1-inventory), [modules](#2-modules-and-the-code), [runs](#3-runs),
[fairness](#4-fairness), [theorems](#5-theorems), [disagreements found](#6-where-code-and-documents-disagree),
[what the models leave out](#7-what-the-models-leave-out), [plan](#8-plan).

To repeat the work: `tlc -config MCJobManager_safety.cfg MCJobManager.tla` (and so on, one `.cfg` per
run) and `tlapm JobManagerProofs.tla` (and `JobQueueProofs`, `FileCacheProofs`, `SelectionProofs`,
`DVDPlayersProofs`, `RenderManagerProofs`, `ActorProtocolProofs`, `ApplicationMessengerProofs`).

## 1. Inventory

All paths are below `src/xbmc/`.

| Part | State it keeps | Operations | Talks to | What makes it hard |
|---|---|---|---|---|
| **Job manager** `utils/JobManager.*`, `utils/Job.h` | queues of work items per priority, jobs in progress, worker threads, a counter of ids, flags `m_running`, `m_pauseJobs`, one event | `AddJob`, `CancelJob`, `CancelJobs`, `Restart`, `PauseJobs`, `UnPauseJobs`; worker: `GetNextJob`, `OnJobProgress`, `OnJobComplete`, `RemoveWorker` | clients through `IJobCallback`, called without the lock | callbacks outside the lock; workers that time out while a job arrives; a shutdown that waits for all of them |
| **Job queue** `CJobQueue` | jobs held back, entries (job, id) given to the manager | `AddJob`, `CancelJob`, `CancelJobs`, `OnJobComplete`, `QueueNextJob` | calls the manager while holding its own lock, is called back by the workers | raw pointers to jobs that a worker deletes; cancellation against completion |
| **Event** `threads/Event.*` | flag, number of waiters | `Set`, `Reset`, `Wait`, `WaitMSec` | everybody | an automatic event stays up until the last woken thread is out |
| **File cache** `filesystem/FileCache.cpp` | requested and reached position, two events, result of the last seek | client: `Read`, `Seek`, `Close`; thread: `Process` | source file; a `CCacheStrategy` | the thread writes a chunk in pieces while the client seeks; each of four positions can go out of step |
| **Circular cache** `filesystem/CircularCache.cpp` | ring buffer with positions `m_beg`, `m_cur`, `m_end`, flag of the end of input | `WriteToCache`, `ReadFromCache`, `Seek`, `Reset`, `WaitForData` | file cache | unsigned differences, wrap point, guaranteed back buffer |
| **Message queues** `cores/dvdplayer/DVDMessageQueue.cpp`, `DVDMessage.cpp` | list by priority, size of the packets, event, abort flag; reference counts; barriers | `Init`, `Put`, `Get`, `Flush`, `Abort`, `End`, `WaitUntilEmpty`; `Acquire`, `Release`; `CDVDMsgGeneralSynchronize::Wait` | video player threads | the barrier counts references that others are still taking and giving up |
| **Video player threads** `DVDPlayer.cpp`, `DVDPlayerAudio.cpp`, `DVDPlayerVideo.cpp` | where each thread is, packets kept for a decoder that may lose its state, pause | open, feed, set speed, flush, synchronize, close | each other through the queues | players wait at different barriers in different order |
| **Render manager** `cores/VideoRenderers/RenderManager.cpp`, `CDVDPlayerVideo::OutputPicture` | lists of free, queued and discarded buffers, the one shown, `m_presentstep`, whether anybody renders | video thread: `Configure`, `WaitForBuffer`, `AddVideoPicture`, `FlipPage`, `DiscardBuffer`; application thread: `FrameMove`, `FrameFinish`, `UpdateResolution`, `Flush`, `PreInit`, `UnInit` | video player, main loop, display | two locks taken in both orders; five critical sections per buffer; `CloseFile` waits, in the rendering thread, for a thread that waits for frames |
| **Shared section** `threads/SharedSection.h` | owner, depth, number of those that share | `lock`, `unlock`, `lock_shared`, `unlock_shared` | render manager | |
| **Actor protocol** `utils/ActorProtocol.cpp` | two queues, recycled messages, per message: synchronous, finished, timed out, answer, event | `SendOutMessage`, `SendOutMessageSync`, `Reply`, `Release`, `ReceiveOutMessage`, `ReceiveInMessage`, `Purge`, `PurgeOut` | audio engine, its sink and its streams | a time-out races the answer; whoever releases last gives the message away |
| **Application messenger** `ApplicationMessenger.cpp` | two queues of messages | `SendMessage`, `ProcessMessages`, `ProcessWindowMessages`, `Cleanup` | any thread; main loop, dialogs, `CApplication::Stop`, graphics lock | pointers to the sender's stack; loops inside loops; a shutdown with waiters |
| **Application** `Application.cpp`, `XBApplicationEx.cpp`, `guilib/GUIDialog.cpp` | `m_bStop`, where its loops are | `Run`, `Process`, `DoModal_Internal`, `Stop` | job manager, messenger, renderer | the thread everybody waits for waits itself |
| Audio engine | see `PROJECT.json` | | through ActorProtocol only | its loops are those of ActorProtocol; its state machines are not modelled |
| Alarm clock, play list player, texture caches | see `PROJECT.json` | | | planned, section 8 |
| Windows, input, databases, scanners, network services, Python, add-ons, PVR | see `PROJECT.json` | | | mostly sequential or dominated by libraries; not modelled |

The hazards, each at its line and with the properties that watch it, are listed under `hazards` in
`PROJECT.json`. They fall into seven groups:

1. *Decisions on counts taken under another lock than the change they predict*: `StartWorkers` takes
   "fewer jobs in progress than threads" for "some thread sleeps".
2. *Callbacks after the lock is released*: `OnJobComplete` calls a copy of the work item's callback, then
   looks the job up again.
3. *Time-outs that race an answer*: a worker whose thirty seconds end when a job arrives; a player that gives
   up a barrier after 100 ms and puts it back, although it counts as having reached it.
4. *Pieces that can be interrupted*: `Process` writes a chunk piece by piece and drops the rest when a
   seek is wanted; the cache, the source, `m_readPos` and `m_seekPos` must still agree.
5. *Limits of ring buffers, counters and thread pools*: wrap point, back buffer, the reserve of threads, the
   wrap of the id counter, the size of a queue.
6. *Ownership*: jobs deleted once, messages released once and by the right side, buffers in one list, pointers of a
   queue or of a message valid as long as somebody follows them.
7. *Waiting in a circle*: the application thread waits for a player, a job or a lock whose holder waits for the
   application thread.

## 2. Modules and the code

    Event ── JobManager ── JobQueue           CircularCache ── FileCache     ApplicationMessenger
                 │ (JobService)                                   │                    │
                 ├── JobManagerProofs                      FileCacheProofs     ApplicationMessengerProofs
                 │      └── JobQueueProofs                 MCFileCache         MCApplicationMessenger
                 └── MCJobManager, MCJobQueue

    Selection ─┬─ RenderManager (SharedSection)
               │      ├── RenderManagerProofs
               │      └── MCRenderManager
               ├─ ActorProtocol
               │      ├── ActorProtocolProofs
               │      └── MCActorProtocol
               ├─ DVDMessageQueue ── DVDPlayers
               │                         ├── DVDPlayersProofs
               │                         └── MCDVDPlayers
               └─ SelectionProofs

`EXTENDS` goes from left to right and downwards; `JobService` is an instance in `JobManager`. Events, locks, ring buffer and message queues are modules of
operators, one per critical section, that their owners apply to their own variables. `SelectionProofs` is extended by the
proofs about the render manager, the actor protocol and the video player, and `JobQueueProofs` extends `JobQueue` as well. Each
`MC` module only gives the constants of its parent values for TLC.

Definitions named in a comment "Fault: ..." (for instance `RunnableWithoutReserve` before `Runnable`) are
not part of the specification. They are what a plausible mistake would make of the definition after them and
are there to see that a property notices it: `mutants` in `PROJECT.json` pairs each property with one.

**Event.** A record `signaled`, `numWaits`. Waiting is two steps (enter, leave), because a waiter keeps its
place in `numWaits` until it has the mutex again.

**JobManager.** One action per critical section of `m_section`; where the code calls `lock.Leave()` in the middle
of a handler, the action ends. `pc[w]` is where a worker is: `get` (about to look at the queues), `sleep` (looked,
released the lock), `waiting` (inside `WaitMSec`), `last` (timed out, looks once more), `work` (inside `DoWork`),
`progress` and `callback` (inside the client's callback), `erase`. `CancelJobs` is a thread of its own: `CancelJobs`,
then `CancelJobsCheck`/`CancelJobsSignal` in turn. Callbacks run between two actions of their worker, where the
client actions are enabled, so a callback that adds or cancels jobs is covered. An id is the counter of
`AddJob`, modulo `IdSpace`.

**JobService.** What the header promises a client, without threads: jobs wait by priority in the order they came, a
job starts if none of a higher priority may and its share of the threads is not used up, it ends, a waiting one can be
withdrawn, the service is closed and opened again when nothing runs. `JobManager` maps `m_jobQueue`, `m_processing`
and the deleted jobs to it (`Service`), so that popping, reporting and erasing in three critical sections must look like
one start and one finish.

**JobQueue.** The queue's operations hold its own lock and make at most one call of the manager, so each is one
action that contains the manager's action; only `CancelJobs` makes one call per entry, and its steps
(`QCancelJobs`, `QCancelJobsNext`, `QCancelJobsEnd`) let the manager's threads run in between while the queue's lock
keeps its other operations out. `OnJobComplete` of the queue runs in the manager's `callback` state.

**CircularCache, FileCache.** A byte of the file is represented by its position, so the contents of a slot say which
byte of the file it is. `pc` is where `Process` is: `top`, `look` (for a seek), `fill` (how much may be
read, and the read itself), `write` and `wrote` (in the loop that writes the chunk, before and after a piece), `eof`, `done`. `client` is where the one
client is in `Read` (`wait`, `retry`), `Seek` (`seekWait`, `missed`, `asked`, `rest`, `restWait`) or `Close`. `at`
is not in the code: it is the position the client asked for in its last successful Seek, and what it has read since. The
source reads any positive number of bytes up to what it is asked for and may fail to read or to seek at any time.

**DVDMessageQueue, DVDPlayers.** The owner (`CDVDPlayer`'s thread) opens streams, sends packets, speed and flush
messages, sends barriers (`SynchronizePlayers`), flushes and waits (`TriggerResync`, `FlushBuffers`), lets a player
run empty (`WaitUntilEmpty`) and closes (`CloseStream`, `EndQueue`). The speed of a closed player is set at once
(`SetSpeedClosed`) and kept for the next stream. A player takes messages (`GetMessage`,
`GetWaits`), handles them, keeps packets while its codec converges (`HandlePacket`), puts them back
when the decoder lost its state (`ReturnPackets`), and waits at barriers (`ReachBarrier`, `PassBarrier`,
`ReturnBarrier`). `m_refs` counts references as the code does. A barrier that is put back is one step: the transient
extra reference between `Put(msg->Acquire())` and `Release` only lets others wait a little longer and is followed by a
notification. Kept apart, it would only admit a schedule in which the 100 ms waits are forever out of phase.

**SharedSection, RenderManager.** One action per critical section of `m_presentlock`; `m_sharedSection` is modelled
with its holders because it is kept over several of them. `app` and `video` are where the two threads are. The
application thread goes round `loop`, `move`, `moving`, `render`, `rendering`, `finish`, `resolve` (FrameMove, Render,
FrameFinish, UpdateResolution), with `update` and `updated` while the display switches its mode, `flush` to `fill free`
within `Flush`, and `closing` in CloseFile. The video thread goes through `configure` to `switched` (Configure), `output`
to `discarding` (WaitForBuffer), `adding` to `filled` (AddVideoPicture, FlipPage). Time is left out: a frame may be
due whenever the code could find it so, a picture may be too late at any time. `picture`, `picturesQueued` and `shown` are not
in the code; they number the pictures, to state their order. `index` is the local variable of
`AddVideoPicture`, kept until `FlipPage`, and `raced`, not in the code either, tells that the video thread was at the lists while `Flush` set them up.

**Selection.** Loops over a list that keep some elements and take others out: what `FrameMove` keeps in `m_discard`
and what it gives back to `m_free`, what `PurgeOut` leaves of a queue, what `CDVDMessageQueue::Flush` takes out of one, and
which players are open. They are recursive functions over the list,
so that what they return can be proved by induction.

**ActorProtocol.** `message[m]` has the fields of `Message` that decide who releases it. `at[c]` is where a client is
in `SendOutMessageSync` (`sent`, `waiting`, `timed out`, `releasing`, `answered`) or with a message it received. `thread`
is where the loop of `CActiveAESink::Process` or `CActiveAE::Process` is, which handle messages in the same way: they answer
some of them, send others, time out, look at a message a second time after a change of state, or purge one kind of
message. `dispose` is how far `Dispose` is. `lost` collects the messages the code forgets (section 6).

**ApplicationMessenger.** `levels` is the stack of loops of the application thread: `CXBApplicationEx::Run`, and inside a
message it handles the loop of a dialog, which processes messages itself. `at[t]` is where another thread is in
`SendMessage`; `restore` says that it had the graphics lock, which `CSingleExit` gives away during the wait. `stop` is
how far `CApplication::Stop` is, which runs inside the handling of a `quit` message. A message is its sender, its kind
and whether somebody waits for it, because that is all that decides who waits for whom.

## 3. Runs

| Run | Instance | Distinct states | What it shows |
|---|---|---|---|
| `jm_jobs` | 3 jobs of the two lowest priorities, 3 threads, 1 callback, max_workers 4 | 113 k | ownership of jobs, the reserve for higher priorities, the bound on threads, ids, quiet after `CancelJobs`; the manager implements `JobService`, its fairness included; `CancelJobs` returns; every accepted job is deleted in the end |
| `jm_unpause` | 2 jobs, 2 threads | | counterexample, section 6 |
| `jq_queue` | 3 jobs, two of them equal, 2 threads, one job at a time | 837 k | uniqueness, valid pointers, the limit, no job held back without reason, progress |
| `fc_cache` | file of 5 bytes, ring of 4 with 1 guaranteed behind the reader, chunks of 2, seek-ahead 2 | 1.4 M | the cache holds the file, the source follows the cache, end of input, back buffer, the reader gets the bytes of the position the client asked for, operations return |
| `fc_hang` | the same | | counterexample, section 6 |
| `dq_sync` | 2 players, 2 barriers, 2 packets, 1 flush message, kept packets 0 to 2 | 883 k | references, accounting, what a passed barrier and a finished flush guarantee |
| `dq_live` | 2 players, 2 barriers, 1 packet, 1 speed message | 314 k | the owner gets out of every wait; barriers come to their end |
| `rm_frames` | 2 or 3 buffers, 2 queued pictures, any number of dropped ones | 217 k | a buffer is in one list; the one being filled stays first; pictures in order; `OutputPicture` and `CloseFile` return; queued pictures go |
| `rm_flush` | the same, and `Flush` is called from the main loop as well | | counterexample, section 6 |
| `ap_messages` | 2 clients, 3 messages, `Dispose` | 314 k | references are counted; every message but those forgotten comes back |
| `am_wait` | 2 threads, 3 messages, none of the threads a job | 480 k | pointers are good; nothing after `Cleanup`; whoever waits returns |
| `am_stop` | the same, one of the threads runs a job | | counterexample, section 6 |

**Why these bounds.**

* *Job manager.* With `MaxWorkers = 4` the limits of the priorities are 1, 2, 3 and 4. Three jobs of the two
  lowest and three threads can break the first two limits, and let one job be in progress, one queued and one arriving;
  that the limits of the higher priorities are kept as well is the theorem `ReserveKept`, the limit of threads
  `ThreadsBounded`. `MaxWorkers` is 5 in the code; the theorems hold for all values above 3. `IdSpace = 5`, starting at 3, makes the
  counter wrap with the second job. `IdsAreUsable` supposes, as the code does, that an id does not come round while its
  first owner lives; each job is handed in once. Jobs that have not arrived are interchangeable, and so are threads that
  do not run; symmetry is not sound for liveness, so the constraint `ArrivalsInOrder` lets each kind arrive in one order. It
  bounds `AddJob` only, of which no fairness is assumed, so that it takes no step away that a liveness property counts on.
* *Job queue.* Two equal jobs and a different one are enough for each pair of "drop the copy", "hold back" and "go
  on". The limit is 1 and the queue is first in, first out, as for `CTextureCache`, `CCDDARipper` and `CVideoLibraryQueue`;
  only the file manager's window allows two, and the two thumbnail loaders take the newest first (`Lifo`).
* *File cache.* The file is longer than the buffer, the buffer longer than a chunk, and the last chunk starts inside
  the file: chunks are cut at the wrap point, history is dropped, and seeks go back into the history, forward within
  the wait, beyond it, into the last chunk and to the end. Targets are all positions.
* *Video player.* Two barriers let the two players wait at different ones, in different order. Packets, speed and flush messages go
  to the video player only (`Served`) and one of the two barriers may expire (`Expiring`): audio sees the
  barriers, which is what connects the two. `Converge` bounds what a codec may ask to keep. A free message object
  stands for a new one, so that no run of messages is bounded in length.
* *Render manager.* `Sizes` is {2, 3}: with two buffers the renderer runs out of free ones at once, so that
  `WaitForBuffer` fails three times in a row and takes the display for hidden; with three one is skipped, or kept for
  reference, while another is filled. `Pictures` bounds those that are queued; a third would find the same lists as
  the first. `FlushFrom` bounds where `Flush` is called from. In `rm_frames` that is {"updated"}, under
  `UpdateResolution`, where nothing can race with it; with {"updated", "loop"} there are 1.1 million states, too many
  to check liveness in. That is no bound of what is known: `BuffersCorrect`, `FillingCorrect` and `PicturesShownInOrder` are proved
  for every `FlushFrom`, and what goes wrong with "loop" is the run `rm_flush`.
* *Actor protocol.* Three messages are two requests and an answer; all of them are used again and again, so a message
  released too early is in the hands of two at once. `MaxQueued = 1` bounds only messages nobody waits for. `MaxLost = 1` lets
  one be forgotten; with more the clients would soon run out of messages.
* *Application messenger.* Three messages are enough for a dialog inside a dialog with a message behind both, and for a
  dialog, a message that stops the application and one whose sender has just been let in. Two threads compete
  for the graphics lock and the queues. `JobThread` is empty in `am_wait`: a thread that is a job is `am_stop`.

Deadlock checking is off for the file cache (a closed file is the end), the video player (a stopped player is one),
the actor protocol (after `Dispose`) and `am_stop` (which is about the application standing still). It is on in the
others: there somebody can always take a step.

All passing runs check fair specifications.

Two properties of the queue except what the code does not keep. `Sequential` and `HeldBackForAReason` speak of queues of
which no job was cancelled: section 6 tells what cancelling does. `OwnerReturns` excepts a stream that is closed while an
open player is paused, `QueueDrains` a display that is hidden.

## 4. Fairness

* *Job manager* (`FairSpec`): weak fairness of each worker and of the loop in `CancelJobs`, that is of threads the
  system schedules; the thirty seconds of an idle worker pass (`TimeOut`). Strong fairness of `OnJobComplete` says
  that `DoWork` ends although it may report progress any number of times. Nothing is assumed of clients.
* *Job queue* (`QSpec`): the same for the workers, and `CJobQueue::CancelJobs` goes on. Nothing of `AddJob`, so that held
  back jobs must go on by themselves.
* *File cache*: weak fairness of `Process` and of the client's steps inside an operation. A wait with a time-out
  ends (`ReadWaited`, `SeekWaited`, `RestDone`); waiting for `m_seekEnded` has none in the code and gets none. The
  source answers, by success or failure.
* *Video player*: weak fairness of each player's thread and of the owner inside an operation. None for `Expire` and
  `StoppedWhileWaiting`: a barrier must come to its end without its own time-out and without the user pressing stop.
* *Render manager*: each thread goes on with what it has begun, the main loop moves frames again and again, and a
  stream of a file that is closed is stopped. Strong fairness where the code waits for a lock others take in turn
  (`EnterShared`, `UpdateEnter`, `ConfigureEnter`), for a frame that is due some time (`MoveAnyFrame`) and for a picture that
  is too late some time (`AddGivesUp`). Nothing says that the user shows the window again.
* *Actor protocol*: all threads run; a client receives now and then, and a state machine ends the handling of a
  message some time. The wait of the port's thread need never time out, so that it is the event that must wake it.
* *Application messenger*: every thread goes on with what it has begun and gets a lock that is free again and again;
  nobody keeps the graphics lock for ever. The user need never close a dialog.

## 5. Theorems

`JobManagerProofs`, for any finite sets of jobs and threads, any callbacks, `MaxWorkers > 3`, any `IdSpace > 1`
(`JobManagerAssumption`):

* `TypeCorrect`: `Spec => []TypeOK`. `TypeOK` alone is not inductive: `LeaveWait` takes one from
  `numWaits`, which must not be 0. `TypeInv` adds that `numWaits` is the number of threads that wait
  (`WaitersCounted`, shown with cardinalities), that `m_workers` is the set of threads alive, and that a thread has a
  job exactly while it works.
* `OnePlace`: `Spec => []OnePlacePerJob`, a job is waiting once, or in progress, or deleted.
* `OneWorkerPerJob`: `Spec => []WorkerOwnsJob`. Both follow from `PlaceInv`. Its first part, `LiveInv`, adds to
  `TypeInv` that queues hold a job once (`Distinct`), hold only jobs of their priority that are not in progress
  (`QueuedOnly`), that what is queued or in progress was accepted (`Known`) and that workers share no job (`Owned`).
  Its second part, `Ended`, says that a deleted job is nowhere else and that no accepted job is lost. They are apart because a
  `CJobQueue` deletes jobs of its own: `LiveInv` holds there as well. The work is in the
  two actions that remove from the middle and the front of a queue, for which `RemoveAtElements` and `ShrunkQueue`
  say what is left.
* `IdsDiffer`: `Spec => []IdsAreUsable`, if there are fewer jobs than ids. The counter wraps and leaves out 0, so that
  "was given before" has no order. `Age` is the number of `AddJob`s since an id was given, on the cycle of `IdSpace - 1` ids; `IdInv` says
  that it is less than the number of accepted jobs and that no two jobs have the same. A new id would have the age
  `IdSpace - 2` before it is given, so nobody has it. The hypothesis is what the code relies on: `m_jobCounter` has 32 bits
  and `AddJob` looks for nothing but 0. The model hands in each job once, so "fewer jobs than ids" is "an id does not come round".

* `QuietOnceCancelled`: `Spec => []QuietAfterCancelJobs`. It needs what holds between the steps of the shutdown
  (`QuietInv`): while `m_running` is down nothing is queued (`NothingQueued`), once the loop of `CancelJobs` has ended no
  thread is left (`NobodyLeft`), and a copy of a callback is only where it is about to be called (`CallbackInHand`).
* `ReserveKept`: `Spec => []ReserveForHigherPriorities`, inductive with `PlaceInv`: the step that matters is `PopJob`, where
  the number of jobs in progress is below the share of the priority that is taken, and shares grow with the priority.
* `ThreadsBounded`: `Spec => []WorkerBound`, likewise, with `StartWorkers` as the step that matters.
* `ManagerImplementsService`: `Spec => ImplementsJobService`. `NextRefines` has one step per action: `AddJob` is `Submit`,
  popping is `Start`, erasing is `Finish`, cancelling `Withdraw` or `Close`, and everything else a stutter. `Restart` is
  `Reopen` only because of `QuietInv`.

`JobQueueProofs`, for any number of jobs, threads and jobs at once, in both orders, under the same assumptions and
those of `JobQueueAssumption` (`NULL` is no list of entries, and the queue is one of the callbacks):

* `JobsUnique`: `QSpec => []UniqueJobs`. The invariant is `BaseInv`: the manager's `LiveInv` and, of the queue,
  that the keys of `m_jobQueue` and `m_processing` are pairwise different, within a list and between the two (`ListsInv`).
  Each step of the system is one of the manager's or only deletes jobs (`ManagerSteps`), which is why `LiveInv` need not be proved again.
* `NeverIdle`: `QSpec => []HeldBackForAReason`. `ThrottleInv`: never more than `jobsAtOnce` entries, and exactly so many while jobs are
  held back and nothing was cancelled.
* `EntriesCorrect`: `QSpec => []EntriesAreAlive`, if there are fewer jobs than ids. It needs who owns the jobs (`OwnInv`: one held
  back was handed in, is not the manager's and lives) and what the workers are about to do (`AliveInv`: a worker that
  has the job of an entry is still to call `OnJobComplete` of the queue, so the entry goes before the job is deleted). The
  hypothesis enters where a job is cancelled by the id in its entry: without `IdsDiffer` the manager could delete the job of another.
* `AtMostJobsAtOnce`: `QSpec => []Sequential`. `OpenInv`: unless something was cancelled, each job that waits at the
  manager or has not come back through `OnJobComplete` has an entry, so `ThrottleInv` bounds their number.

`FileCacheProofs`, for a file of any length, buffers, back buffers and chunks of any size that satisfy
`CircularCacheAssumption` and `FileCacheAssumption`, and any targets:

* `TypeCorrect`: `Spec => []TypeOK`, which includes that no slot is written outside the buffer's domain or with a
  byte the file does not have.
* `BoundsHold`: `Spec => []CacheBounds`. The room that `GetMaxWriteSize` and `WriteToCache` compute with unsigned
  numbers is never below 0.
* `BackBufferKept`: `Spec => BackIsKept`. A write never takes the guaranteed bytes behind the reader.

The inductive invariant `IInv` adds to type and bounds that a chunk in hand ends within the file (`ChunkInFile`),
without which what is written into the ring could not be typed. Its core are the lemmas about the arithmetic:
`WritableFits` (how much a write takes), `RoomFromReader` (the room as the reader sees it: this is where dropping
history must stop at the back buffer), `RoomIsNatural`, and then one lemma for each way the positions move: `WriteKeepsBounds`,
`ResetKeepsBounds`, `ReaderMovesKeepsBounds`. Each action then only has to be one of the three or leave them alone.

In the same module, for the same sizes and for targets that are not before the beginning of the file
(`Target \subseteq Nat`, a hypothesis of each theorem):

* `CacheIsTheFile`: `Spec => []CacheHoldsTheFile`;
* `SourceIsInPlace`: `Spec => []SourceFollowsCache`;
* `EndIsTheEnd`: `Spec => []EndOfInputIsTrue`.

They are three views of one invariant, `DataInv`, as long as the source works: what the slots hold (`Holds`), where the source
is in each state of `Process` (`Follows`: where the cache goes on, unless a seek is wanted or the thread is to stop), and
the conversation of the two threads (`SeekInHand`: of a client that has asked exactly one of `m_seekEvent` and
`m_seekEnded` is up, otherwise none is before `Close`). Without the last one `Follows` is not inductive: a seek event
taken down by a client would leave a cut chunk behind. `WriteHolds` is the slot arithmetic: positions less than the size
apart have different slots (`SlotsDiffer`), and those of a piece that ends at the wrap point follow one another
(`NextSlots`). The hypothesis is needed: the source cannot seek to a negative position and stays where it is, so after a
chunk cut by such a request it no longer follows the cache.

* `ReadsAreRight`: `Spec => ReadsTheFile`, for the same targets. On top of `DataInv` its invariant, `PositionInv`, says where
  the reader of the cache is while the source can seek and works (`InPlace`): between operations at `m_readPos` and, unless the last
  Seek failed, at the position the client asked for; during a Seek anywhere, but from the moment that `Process` has answered at
  `m_seekPos`, and at the target when the rest of the way has been waited for. `HandleSeekPlaces` is the step between the
  threads. That the cache finds the rest of the way (its result is ignored) follows from the count of bytes waited for, `RestDone`. A
  piece that is read does not cross the wrap point, so the slots follow one another (`NextSlots`).

`SelectionProofs`, for all sequences and sets:

* `OnlyProperties`, `WithoutProperties`: which elements `Only` and `Without` return, that none is there twice that was there
  once, and that together they have the length of the list; `OnlyKeepsOrder`, that the elements keep their order. They are inductions
  over the length of the list. The library's theorems of
  induction take a predicate, which the provers at hand cannot instantiate; `SetInduction` is the same for a set of
  numbers, from `WFMin`, and `LoopExists` shows that the recursive function exists.

`RenderManagerProofs`, for any number of buffers and of pictures (`RenderManagerAssumption`):

* `LocksCorrect`: `Spec => []LocksInv`. Owner, depth and sharers of `m_sharedSection` are functions of where the two
  threads are (`Owner`, `Depth`, `Sharers`), never both alone, and not one alone while the other shares.
* `PicturesShownInOrder`: `Spec => []ShownInOrder`, with `PicturesInv`: the numbers of the queued pictures increase and are above
  that of the one shown. It holds wherever `Flush` is called from.
* `BuffersCorrect`: `Spec => []EachBufferOnce`, for every `FlushFrom`. The lists have as many places as there are buffers, and all
  buffers are in them (`OnceInv`); from that, by cardinality, each is in one place. In the middle of `Flush` this is not
  so, and `FlushedSoFar` says what is cleared already, as long as the video thread did not come into it. That it did is
  remembered in the history variable `raced`, from a `Flush` or `Configure` to the next; `EachBufferOnce` excepts that time, and
  `FlushLeavesNoInvalidReference`, which does not, is false (section 6).
* `FillingCorrect`: `Spec => []FillingIsNext`, for every `FlushFrom`. Released buffers go to the end of `m_free`, `FlipPage` and
  `DiscardBuffer` end the filling before they take the first, `Configure` does not run while it goes on, and a `Flush` in
  between is one of the two exceptions (`FillingInv`).

`DVDPlayersProofs`, for any number of players, messages, packets of any size and barriers (`DVDPlayersAssumption`,
`DVDMessageQueueAssumption`):

* `RefsCorrect`: `Spec => []RefsAreHolders`. The invariant is `RefInv`. `CountInv`: `m_refs` of a message is the number of those that
  have it (`HoldersOf`), where a player has what is in its list, what it keeps and what is in its hand. `PlayerOnce`: no player
  has a message at two of these places, or twice at one. A message is counted once more when it is put, so that this has
  to be shown for each `Put`: the owner sends only what is free, or the barrier it holds, and that to each player once (`SendInv`: those it still has
  to send to do not have it). `ControlInv` says what a player or the owner has in hand at each place of its program, and that what is closed has nothing
  any more. `PlacesAreHolders` turns holders into places. Each kind of step has a lemma of what it does to the
  holders of each message (`OneLess`, `Less` and `Acquire` against the sets); the counts then follow from the cardinality lemmas.
* `DataSizeCorrect`: `Spec => []DataSizeIsSum`, with `Sized` of the same invariant. `SumOfSizes` is a recursive
  function; the lemmas about sums say what one more element at any place, the last taken off, and a flush do to it.
* `TypeCorrect`: `Spec => []TypeOK`.
* `BarriersCorrect`: `Spec => BarrierHolds`, if `Len(Players) <= 2`. `Wait` compares two numbers, how many reached the barrier and how
  many have a reference; by `RefInv` the second is the number of holders. That equal numbers are the same players needs
  one set to be part of the other (`Orderly`): those that reached a barrier have it, until it is passed, and from then on all that
  still have it reached it (`PassesWithAll`, `OwnerPassesWithAll`). The owner, which sends the barrier first and reaches it last, keeps it from being passed while
  holders are still added (`SendBarrierKeepsBarriers`). The order is lost when the barrier's time is over, when the owner gives up, and when a stream is
  closed that has the barrier in its list (`EndQueueKeepsBarriers`); `CountsRight` lists these, and for the last one needs the hypothesis: only
  one player is left to have it. With a third one the property is false: a player that reached the barrier, put it back and was closed is
  still counted, and another passes in its place. The code has two that wait, `CDVDPlayerAudio` and `CDVDPlayerVideo`; nobody passes
  `SYNCSOURCE_SUB` to `Wait`.

`ActorProtocolProofs`, for any number of clients and messages (`ActorProtocolAssumption`):

* `ReferencesCorrect`: `Spec => []ReferencesCounted`. `RefInv` says that a message is with at most one client that sent it and has not
  released it (`OnceEach`), and in at most one other place (`OnePlace`: the queues, the hands of the receivers, an answer that is not taken yet,
  or forgotten). `CountInv` ties this to the flags: in both at a time is what "synchronous and not yet released by one side" says, and free is what
  is in neither. The hard part is the answer, `SyncInv`: a request in a queue was not answered; once it is handled, its client still looks for the
  answer, or has marked it as timed out, or there is one. `Reply` and the time-out look at each other's field in turn, so each of them
  needs the other's half.

`ApplicationMessengerProofs`, for any sets of threads and job threads and any number of messages
(`ApplicationMessengerAssumption`):

* `PointersAreGood`: `Spec => []CallerWaits`. That a thread waits for its message is lost in one way only: its event is
  set, by whoever handles a message of it or by `Cleanup`. So the invariant (`WaitInv`) must say that it has one message at a
  time in only one place (`OncePending`: the two queues and the hands of all nested loops share no waiting sender), and that
  loops below the innermost have their message in hand (`OuterBusy`).
* `CleanupIsFinal`: `Spec => []NothingAfterCleanup`. `Stop` sets `m_bStop` without the lock of the queue; a sender that
  looked before holds the lock until it has queued (`Queueing`), and `Cleanup` cannot run in between (`NobodyQueues`).

Only model-checked: all liveness (the prover does not reason about fairness or `ENABLED`) and `NothingLeftWhenWaited` of
the video player. The fairness of `JobService` (`ServiceGoesOn`) is liveness; its steps are proved.

## 6. Where code and documents disagree

Each is a run with expected result "violation"; `findings` in `PROJECT.json` quotes the lines.

* `jm_unpause`: `UnPauseJobs` wakes nobody (`utils/JobManager.cpp:319`). If the workers have timed out during the
  pause, paused jobs stay queued until another job comes, against "Resumes queueing of (previously paused) jobs".
* `fc_hang`: after a read error `Process` ends and puts `m_seekEnded` up once; the second seek that needs it waits for ever.
* `rm_flush`: `CXBMCRenderManager::Flush` sets up the lists after it has given `m_sharedSection` back, and without
  `m_presentlock` (`RenderManager.cpp:512`). Within `UpdateResolution` its caller has the section, and nothing can happen.
  `CWinSystemX11` calls it (through `OnLostDevice`) from `SetWindow` and `SetMode` as well, without. TLC then finds a `Configure` of the
  video thread between the clearing and the filling of `m_free`, after which every buffer but the shown one is in that list twice,
  against "make sure renderer has no invalid references". The model takes each operation on a list as atomic; in the code even that is not so.
* `am_stop`: `CApplication::Stop` waits for all jobs (`CancelJobs`) before it lets those go that wait for the application
  thread (`CApplicationMessenger::Cleanup`). A job that waits in `SendMessage` at that moment is answered by nobody.

Read off the code while modelling, not run:

* `OnJobComplete` is called from a copy of the work item taken before a `CancelJob` that has returned meanwhile,
  although `JobManager.h` says "OnJobComplete will not be performed" (line 107). `QOnJobComplete` of a cancelled job is this case.
* `CJobQueue::CancelJob` of the job in progress removes its entry and does not start the next one. If nothing else is in
  progress what is held back stays until another job is added. `HeldBackForAReason` therefore excepts cancellation.
* A seek into the last chunk returns the position given to the thread, not the one it reached (`FileCache.cpp:272`, 489). `at`, and
  with it `ReadsTheFile`, goes by the position the client asked for, which is where it reads; nothing speaks of the value returned.
* A failed seek still sets `m_readPos`; the same seek then "succeeds" without doing anything, and the next read gives
  bytes of another position. `ReadsTheFile` supposes a source that can seek and has not failed.
* The late `OnJobComplete` of a cancelled job erases, by equality, the entry of an equal job added since; more
  than `jobsAtOnce` jobs then run. `Sequential` therefore speaks of histories without cancellation.
* `AddJob` of a manager that is shut down returns 0; the queue keeps an entry with id 0 and nobody deletes its job.
  The manager's `CancelJobs` deletes jobs whose pointers a `CJobQueue` still has.
* `StartWorkers` takes every thread without a job for a sleeping one, though it may be about to leave, or to take a job
  that was queued before. A runnable job may then wait until another is finished although a thread
  could have been created for it; it is run in the end (`EveryJobEnds`).
* `WaitForData` never returns `CACHE_RC_TIMEOUT`, so after ten seconds without data `Read` returns 0, as at the end of the file.
* `CCircularCache::Open` does not reset `m_bEndOfInput`. Nobody opens a cache twice.
* `CCircularCache::Seek` skips all cached data before it waits. If it then fails for a source that cannot seek, the
  reader stands at the end of the data although `Seek` reported failure and `m_readPos` was not changed.
* `Seek(-1)` is taken for a success: `Process` compares the source's -1 with the wanted -1 (`FileCache.cpp:256`).
* When the client asks for a seek between two pieces of a chunk and the source then fails to seek, the rest
  of the chunk is lost and the cache goes on with a gap (`FileCache.cpp:354-358`). The properties about contents
  therefore say "as long as the source works".
* `TriggerResync` flushes the queues but not the packets the video player keeps, which may return after the resync.
  Only `FlushBuffers`, whose flush message empties them, guarantees that none is left.
* `WaitUntilEmpty` is decided from `m_speed` while the message that pauses may still be in the queue; the wait then
  lasts until the barrier's own forty seconds are over. `OwnerReturns` excepts this case.
* A `Flush` between `AddVideoPicture` and `FlipPage` drops the picture in the renderer, and `FlipPage` then queues a buffer without
  one. `FillingIsNext` excepts it (`index` is `NoBuffer`).
* `case TMSG_RENDERER_FLUSH` is in the inner `switch` of `TMSG_SHUTDOWN` (`ApplicationMessenger.cpp:255`), which decides on
  another value; `CApplicationMessenger::RendererFlush` called by another thread flushes nothing. So `Flush` is called
  by the application thread only, as in `RenderManager`.
* `Protocol::PurgeOut` drops messages without releasing them, `CActiveAEStream::Drain` does not release the messages it
  replies to (`ActiveAEStream.cpp:359`), and a message kept for a second look is forgotten when the loop ends. `lost`
  counts these; `ReferencesCounted` and `MessagesComeBack` show that there are no others.
* A synchronous message that the current state does not handle is not answered: its sender waits for the whole
  time-out. A request for a new stream that is handled after its sender has given up makes a stream nobody owns.
* Urgent messages overtake a barrier, so a stream of them could delay one for ever; `BarriersEnd` supposes that
  the owner sends no more.

## 7. What the models leave out

* *Data.* Jobs, callbacks and messages are model values; `DoWork`'s result is only passed on by the manager. A packet has
  a size and nothing else.
* *Time.* Time-outs are steps that may happen whenever the code waits. The throttle of the file cache, time
  stamps in message queues (`GetTimeSize`, `GetLevel`) and the poll intervals of waits are left out. The audio player's
  `Get` with time-out 0 is a wait that ends at once.
* *Job manager.* `IsProcessing` and other queries; failure to create a thread.
* *File cache.* `IoControl`, cache status, the strategies `CSimpleFileCache` and `CDoubleCache`; a cache that cannot be
  opened. One client at a time (it holds `m_sync`).
* *Video player.* The event of a queue: each wait of `Get` has a time-out after which its caller asks again, so that `GetWaits` looks
  at the list again in any case, and a lost wake-up is a delay only. Demuxing, clocks, subtitles and teletext, `CDVDPlayer`'s own queue `m_messenger`,
  `SynchronizeDemuxer`; the barrier `FlushBuffers` waits for at other play speeds than normal and pause.
* *Render manager.* What is drawn, overlays, captures, interlacing, frame times, the renderers behind `m_pRenderer`
  (which buffers they need for reference is arbitrary).
* *Actor protocol.* Signals, data and `DeferOut`/`DeferIn`; the state machines of `CActiveAE` and `CActiveAESink`; the
  counting of `CActiveAEStream`'s buffers.
* *Application messenger.* What the messages do, except opening a dialog, posting another message and stopping. Delayed
  messages, which are a thread that sends one message.
* *Locks.* `CSharedSection` and `CSingleExit` are modelled where they are used; a `CCriticalSection` is the atomicity of
  an action, or the name of the thread that has it where it is kept over several.
* Other components: see `not_modelled` in `PROJECT.json`.

## 8. Plan

Order of the next modules, by the weight of what can go wrong in them:

1. **A seekable stream** that `FileCache` implements: `SimpleFileCache` and `DoubleCache` beside `CircularCache` as strategies
   behind it; the abstract specification returns the bytes at the reader's position until the source fails.
2. **EventGroup, Timer, AlarmClock** (`threads/`, `utils/`): waits for one of several events; an alarm stopped while it
   fires.
3. **The audio engine's states** on top of `ActorProtocol`: configuring and draining while the sink is lost.
4. **Overlays and captures** of the render manager, which other threads hand over and wait for.
5. **PlayListPlayer** as functions: next and previous with repeat, random and unplayable items against a reference definition.
6. **Texture caches** on top of `JobQueue`: one job per texture, and the waiters of a texture in progress.

Proofs to come: `NothingLeftWhenWaited` of the video player, for which the lists must be shown sorted by priority.
