------------------------------ MODULE FileCache ------------------------------
(***************************************************************************)
(* CFileCache (xbmc/filesystem/FileCache.cpp): a thread (Process) reads a  *)
(* source file ahead into a CCircularCache, the client reads and seeks in  *)
(* the cache and, for a position that is not there, asks the thread to     *)
(* seek the source.  The two talk through m_seekEvent and m_seekEnded.     *)
(*                                                                         *)
(* The client holds m_sync during Read and Seek, so it is one thread with  *)
(* one operation at a time; Close belongs to the same thread.  The model   *)
(* starts when Open has created the thread (CFile::Open makes a new        *)
(* CFileCache for every file, so there is no second Open).                 *)
(*                                                                         *)
(* Each of the events has one thread that waits for it: they are flags     *)
(* that a successful wait takes down.  The throttle in Process (m_writeRate) *)
(* only delays; it takes m_seekEvent down and puts it back up.             *)
(***************************************************************************)
EXTENDS CircularCache

CONSTANTS
    Length,        \* of the source, which GetLength reports
    m_chunkSize,   \* largest read from the source
    Target         \* the positions the client will seek to

ASSUME FileCacheAssumption ==
    /\ Length \in Nat
    /\ m_chunkSize \in Nat \ {0} /\ m_chunkSize <= m_size - m_size_back
    /\ Target \subseteq Int

VARIABLES
    m_seekPossible, m_seekEvent, m_seekEnded, m_nSeekResult, m_seekPos, m_readPos,
    m_bStop,
    source,          \* position of m_source
    sourceFailed,    \* it has failed to read, or to seek a position it has
    pc,              \* where Process is
    cacheReachEOF,   \* its local variables: the flag,
    buffer,          \* and the bytes read that are still to be written
    client,          \* where the client is
    target,          \* iTarget of its Seek
    at               \* position the client asked for and has read up to since,
                     \* None after a failure

None == -1
seekVars == <<m_seekEvent, m_seekEnded, m_nSeekResult, m_seekPos, m_readPos>>
writerVars == <<pc, cacheReachEOF, buffer, source, sourceFailed>>
clientVars == <<client, target, at>>
vars == <<cacheVars, m_seekPossible, seekVars, m_bStop, writerVars, clientVars>>

NoBytes == [first |-> 0, len |-> 0]

Init ==
    /\ CacheInit
    /\ m_seekPossible \in BOOLEAN
    /\ m_seekEvent = FALSE /\ m_seekEnded = FALSE
    /\ m_nSeekResult = 0 /\ m_seekPos = 0 /\ m_readPos = 0
    /\ m_bStop = FALSE
    /\ source = 0 /\ sourceFailed = FALSE
    /\ pc = "top" /\ cacheReachEOF = FALSE /\ buffer = NoBytes
    /\ client = "idle" /\ target = 0 /\ at = 0

-----------------------------------------------------------------------------
(* Process                                                                 *)

Continue ==
    /\ pc = "top" /\ ~m_bStop
    /\ pc' = "look"
    /\ UNCHANGED <<cacheVars, m_seekPossible, seekVars, m_bStop, cacheReachEOF, buffer,
                   source, sourceFailed, clientVars>>

NoSeekWanted ==
    /\ pc = "look" /\ ~m_seekEvent
    /\ pc' = "fill"
    /\ UNCHANGED <<cacheVars, m_seekPossible, seekVars, m_bStop, cacheReachEOF, buffer,
                   source, sourceFailed, clientVars>>

(* m_source.Seek with its result r: a position the file has is reached     *)
(* unless the source fails, any other position gives -1.                   *)
SourceSeek(p, r) ==
    \/ p \in 0 .. Length /\ r = p /\ source' = p /\ UNCHANGED sourceFailed
    \/ p \in 0 .. Length /\ r = None /\ sourceFailed' = TRUE /\ UNCHANGED source
    \/ p \notin 0 .. Length /\ r = None /\ UNCHANGED <<source, sourceFailed>>

(* cacheMaxPos: the source is to go on where the cached data ends, which   *)
(* is the wanted position itself if that is not cached.                    *)
(* Fault: it goes to the wanted position in any case.                      *)
NotCachedDataEnd == m_seekPos
cacheMaxPos == CachedDataEndPosIfSeekTo(m_seekPos)

CacheSeek ==
    /\ Reset(m_seekPos)
    /\ m_readPos' = m_seekPos
    /\ m_nSeekResult' = m_seekPos

(* After a failed seek the source says whether it can seek at all.         *)
HandleSeek ==
    /\ pc = "look" /\ m_seekEvent
    /\ m_seekEvent' = FALSE /\ m_seekEnded' = TRUE
    /\ cacheReachEOF' = (cacheMaxPos = Length)
    /\ \/ /\ cacheMaxPos = Length
          /\ CacheSeek
          /\ UNCHANGED <<source, sourceFailed, m_seekPossible>>
       \/ /\ cacheMaxPos # Length
          /\ \E r \in {cacheMaxPos, None} :
                /\ SourceSeek(cacheMaxPos, r)
                /\ \/ r = cacheMaxPos /\ CacheSeek /\ UNCHANGED m_seekPossible
                   \/ /\ r # cacheMaxPos
                      /\ m_nSeekResult' = r
                      /\ m_seekPossible' \in {m_seekPossible, FALSE}
                      /\ UNCHANGED <<m_beg, m_end, m_cur, m_buf, m_readPos>>
    /\ pc' = "fill"
    /\ UNCHANGED <<m_bEndOfInput, m_seekPos, m_bStop, buffer, clientVars>>

maxWrite == GetMaxWriteSize(m_chunkSize)

(* No room: wait for m_space and start over.                               *)
CacheFull ==
    /\ pc = "fill" /\ maxWrite = 0 /\ ~cacheReachEOF
    /\ pc' = "top"
    /\ UNCHANGED <<cacheVars, m_seekPossible, seekVars, m_bStop, cacheReachEOF, buffer,
                   source, sourceFailed, clientVars>>

ReadSource ==
    /\ pc = "fill" /\ maxWrite > 0 /\ ~cacheReachEOF
    /\ \E n \in 1 .. Least(maxWrite, Length - source) :
        /\ buffer' = [first |-> source, len |-> n]
        /\ source' = source + n
    /\ pc' = "write"
    /\ UNCHANGED <<cacheVars, m_seekPossible, seekVars, m_bStop, cacheReachEOF,
                   sourceFailed, clientVars>>

ReadSourceFails ==
    /\ pc = "fill" /\ maxWrite > 0 /\ ~cacheReachEOF
    /\ sourceFailed' = TRUE
    /\ m_bStop' = TRUE
    /\ pc' = "top"
    /\ UNCHANGED <<cacheVars, m_seekPossible, seekVars, cacheReachEOF, buffer, source, clientVars>>

HitEof ==
    /\ pc = "fill"
    /\ cacheReachEOF \/ (maxWrite > 0 /\ source = Length)
    /\ m_bEndOfInput' = TRUE
    /\ pc' = "eof"
    /\ UNCHANGED <<m_beg, m_end, m_cur, m_buf, m_seekPossible, seekVars, m_bStop,
                   cacheReachEOF, buffer, source, sourceFailed, clientVars>>

(* One WriteToCache, which may leave a rest.                               *)
Write ==
    /\ pc = "write" /\ ~m_bStop
    /\ WriteToCache(buffer.first, buffer.len)
    /\ LET n == Writable(buffer.len)
       IN  buffer' = [first |-> buffer.first + n, len |-> buffer.len - n]
    /\ pc' = "wrote"
    /\ UNCHANGED <<m_seekPossible, seekVars, m_bStop, cacheReachEOF, source, sourceFailed,
                   clientVars>>

(* Process goes on with the rest unless a seek is wanted by now: then what *)
(* is left of the buffer is dropped.                                       *)
Wrote ==
    /\ pc = "wrote"
    /\ \/ (m_seekEvent \/ buffer.len = 0) /\ pc' = "top" /\ buffer' = NoBytes
       \/ ~m_seekEvent /\ buffer.len > 0 /\ pc' = "write" /\ UNCHANGED buffer
    /\ UNCHANGED <<cacheVars, m_seekPossible, seekVars, m_bStop, cacheReachEOF, source,
                   sourceFailed, clientVars>>

WriteStopped ==
    /\ pc = "write" /\ m_bStop
    /\ pc' = "top" /\ buffer' = NoBytes
    /\ UNCHANGED <<cacheVars, m_seekPossible, seekVars, m_bStop, cacheReachEOF, source,
                   sourceFailed, clientVars>>

(* At the end of the source Process waits for m_seekEvent or the end.  It  *)
(* puts the event up again, to find the seek at the top of its loop.       *)
(* Faults: it does not; the end of input is not taken back.                *)
SeekEventTaken == FALSE
SeekEventKept == TRUE
EndOfInputKept == m_bEndOfInput
EndOfInputCleared == FALSE

SeekAtEof ==
    /\ pc = "eof" /\ m_seekEvent
    /\ m_seekEvent' = SeekEventKept
    /\ m_bEndOfInput' = EndOfInputCleared
    /\ pc' = "top"
    /\ UNCHANGED <<m_beg, m_end, m_cur, m_buf, m_seekPossible, m_seekEnded, m_nSeekResult,
                   m_seekPos, m_readPos, m_bStop, cacheReachEOF, buffer, source,
                   sourceFailed, clientVars>>

(* The loop is left, and OnExit.                                           *)
Exit ==
    /\ pc \in {"top", "eof"} /\ m_bStop
    /\ m_bEndOfInput' = TRUE
    /\ m_seekEnded' = TRUE
    /\ pc' = "done"
    /\ UNCHANGED <<m_beg, m_end, m_cur, m_buf, m_seekPossible, m_seekEvent, m_nSeekResult,
                   m_seekPos, m_readPos, m_bStop, cacheReachEOF, buffer, source,
                   sourceFailed, clientVars>>

-----------------------------------------------------------------------------
(* The client                                                              *)

(* Read, and its retry after WaitForData.  (With nothing to read and the   *)
(* end of input set it returns 0 and changes nothing.)                     *)
ReadSome ==
    /\ client \in {"idle", "retry"}
    /\ \E n \in 1 .. Readable :
        /\ ReadFromCache(n)
        /\ m_readPos' = m_readPos + n
        /\ at' = IF at = None THEN None ELSE at + n
    /\ client' = "idle"
    /\ UNCHANGED <<m_seekPossible, m_seekEvent, m_seekEnded, m_nSeekResult, m_seekPos,
                   m_bStop, writerVars, target>>

ReadBlocks ==
    /\ client = "idle" /\ Readable = 0 /\ ~m_bEndOfInput
    /\ client' = "wait"
    /\ UNCHANGED <<cacheVars, m_seekPossible, seekVars, m_bStop, writerVars, target, at>>

(* WaitForData(1, 10000) returns what is there when the data has come, the *)
(* input ended or the time is over; with nothing there Read returns 0.     *)
ReadWaited ==
    /\ client = "wait"
    /\ client' = IF Front > 0 THEN "retry" ELSE "idle"
    /\ UNCHANGED <<cacheVars, m_seekPossible, seekVars, m_bStop, writerVars, target, at>>

(* Seek returns result for target t, on success with the reader at t.      *)
(* (result itself is m_seekPos for a target in the last chunk: what the    *)
(* client is told is then not where it asked to be, and where it is.)      *)
Return(result, t) ==
    /\ client' = "idle"
    /\ at' = IF result = None THEN None ELSE t

(* Seek to the position it thinks it has                                   *)
SeekToReadPos ==
    /\ client = "idle" /\ m_readPos \in Target
    /\ Return(m_readPos, m_readPos)
    /\ UNCHANGED <<cacheVars, m_seekPossible, seekVars, m_bStop, writerVars, target>>

(* m_pCache->Seek waits for a position a bit ahead: all data is skipped.   *)
SeekAheadOfData(t) ==
    /\ client = "idle" /\ t # m_readPos /\ SeekWaits(t)
    /\ m_cur' = m_end
    /\ target' = t
    /\ client' = "seekWait"
    /\ UNCHANGED <<m_beg, m_end, m_buf, m_bEndOfInput, m_seekPossible, seekVars, m_bStop,
                   writerVars, at>>

(* It finds the position, at once or after its wait, however long.         *)
SeekHits(t) ==
    /\ IsCachedPosition(t)
    /\ m_cur' = t /\ m_readPos' = t /\ m_nSeekResult' = t
    /\ Return(t, t)
    /\ UNCHANGED <<m_beg, m_end, m_buf, m_bEndOfInput, m_seekPossible, m_seekEvent,
                   m_seekEnded, m_seekPos, m_bStop, writerVars, target>>

(* It does not: a source that cannot seek makes Seek fail.                 *)
SeekMisses(t) ==
    /\ ~IsCachedPosition(t)
    /\ m_nSeekResult' = None
    /\ target' = t
    /\ \/ m_seekPossible /\ client' = "missed" /\ UNCHANGED at
       \/ ~m_seekPossible /\ Return(None, t)
    /\ UNCHANGED <<cacheVars, m_seekPossible, m_seekEvent, m_seekEnded, m_seekPos,
                   m_readPos, m_bStop, writerVars>>

Seek(t) ==
    \/ client = "idle" /\ t # m_readPos /\ ~SeekWaits(t) /\ (SeekHits(t) \/ SeekMisses(t))
    \/ SeekAheadOfData(t)

SeekWaited == client = "seekWait" /\ (SeekHits(target) \/ SeekMisses(target))

(* Process is asked, but never to go closer to the end than a chunk.       *)
AskForSeek ==
    /\ client = "missed"
    /\ m_seekPos' = Least(target, Greatest(0, Length - m_chunkSize))
    /\ m_seekEvent' = TRUE
    /\ client' = "asked"
    /\ UNCHANGED <<cacheVars, m_seekPossible, m_seekEnded, m_nSeekResult, m_readPos,
                   m_bStop, writerVars, target, at>>

(* The position is reached, up to the rest of the way near the end.        *)
(* Fault: the rest is forgotten.                                           *)
NothingLeft == FALSE
RestLeft == m_seekPos < target

FinishSeek ==
    /\ m_readPos' = target
    /\ m_seekEvent' = FALSE
    /\ Return(m_nSeekResult, target)
    /\ UNCHANGED <<m_nSeekResult, m_seekPos, m_seekPossible, m_bStop, writerVars, target>>

SeekEnded ==
    /\ client = "asked" /\ m_seekEnded
    /\ m_seekEnded' = FALSE
    /\ \/ ~RestLeft /\ FinishSeek
       \/ /\ RestLeft /\ client' = "rest"
          /\ UNCHANGED <<m_seekPossible, m_seekEvent, m_nSeekResult, m_seekPos, m_readPos,
                         m_bStop, writerVars, target, at>>
    /\ UNCHANGED cacheVars

(* WaitForData gave up before the remaining bytes had come.                *)
RestMissing ==
    /\ client = "rest" /\ Front < target - m_seekPos
    /\ Return(None, target)
    /\ UNCHANGED <<cacheVars, m_seekPossible, seekVars, m_bStop, writerVars, target>>

(* They are there: m_pCache->Seek, whose result is ignored.                *)
RestWaits ==
    /\ client = "rest" /\ Front >= target - m_seekPos /\ SeekWaits(target)
    /\ m_cur' = m_end
    /\ client' = "restWait"
    /\ UNCHANGED <<m_beg, m_end, m_buf, m_bEndOfInput, m_seekPossible, seekVars, m_bStop,
                   writerVars, target, at>>

RestDone ==
    /\ \/ client = "rest" /\ Front >= target - m_seekPos /\ ~SeekWaits(target)
       \/ client = "restWait"
    /\ m_cur' = IF IsCachedPosition(target) THEN target ELSE m_cur
    /\ FinishSeek
    /\ UNCHANGED <<m_beg, m_end, m_buf, m_bEndOfInput, m_seekEnded>>

Close ==
    /\ client = "idle"
    /\ m_bStop' = TRUE
    /\ m_seekEvent' = TRUE
    /\ client' = "closing"
    /\ UNCHANGED <<cacheVars, m_seekPossible, m_seekEnded, m_nSeekResult, m_seekPos,
                   m_readPos, writerVars, target, at>>

Closed ==
    /\ client = "closing" /\ pc = "done"
    /\ client' = "closed"
    /\ UNCHANGED <<cacheVars, m_seekPossible, seekVars, m_bStop, writerVars, target, at>>

-----------------------------------------------------------------------------
Process ==
    \/ Continue \/ NoSeekWanted \/ HandleSeek
    \/ CacheFull \/ ReadSource \/ ReadSourceFails \/ HitEof
    \/ Write \/ Wrote \/ WriteStopped
    \/ SeekAtEof \/ Exit

(* What the client does within an operation                                *)
ClientStep ==
    \/ client = "retry" /\ ReadSome
    \/ ReadWaited \/ SeekWaited \/ AskForSeek \/ SeekEnded
    \/ RestMissing \/ RestWaits \/ RestDone \/ Closed

NewOperation ==
    \/ client = "idle" /\ ReadSome
    \/ ReadBlocks \/ SeekToReadPos \/ Close
    \/ \E t \in Target : Seek(t)

Next == Process \/ ClientStep \/ NewOperation

(* Both threads are scheduled, and waits with a timeout end.               *)
Fairness == WF_vars(Process) /\ WF_vars(ClientStep)

Spec == Init /\ [][Next]_vars /\ Fairness

-----------------------------------------------------------------------------
(* Properties                                                              *)

(* Types of the variables of CFileCache and of its cache. *)
TypeOK ==
    /\ {m_beg, m_end, m_cur, m_nSeekResult, m_seekPos, m_readPos, target, at} \subseteq Int
    /\ m_buf \in [0 .. m_size - 1 -> (0 .. Length - 1) \cup {Garbage}]
    /\ {m_bEndOfInput, m_seekPossible, m_seekEvent, m_seekEnded, m_bStop, sourceFailed,
        cacheReachEOF} \subseteq BOOLEAN
    /\ source \in 0 .. Length
    /\ pc \in {"top", "look", "fill", "write", "wrote", "eof", "done"}
    /\ buffer \in [first : 0 .. Length, len : 0 .. m_chunkSize]
    /\ client \in {"idle", "retry", "wait", "seekWait", "missed", "asked", "rest", "restWait",
                   "closing", "closed"}

(* "The following always apply": the reader's position is within the data, *)
(* which fits the buffer, and the unsigned differences never go below 0.   *)
CacheBounds ==
    /\ m_beg <= m_cur /\ m_cur <= m_end
    /\ m_end - m_beg <= m_size
    /\ Limit >= 0

(* "It will always leave m_size_back of the backbuffer intact": whatever   *)
(* was read and sought, a write drops nothing of the last m_size_back.     *)
BackIsKept ==
    [][m_end' > m_end /\ m_beg' # m_end' =>
          m_cur - m_beg' >= Least(m_cur - m_beg, m_size_back)]_vars

(* As long as the source works, every position of the cache holds the byte *)
(* of the file at that position, although chunks are cut at the wrap point *)
(* and by seeks, and the source jumps to and fro.                          *)
CacheHoldsTheFile ==
    ~sourceFailed => \A p \in m_beg .. m_end - 1 : m_buf[Slot(p)] = p

(* The source is read where the cache goes on.                             *)
SourceFollowsCache ==
    ~sourceFailed =>
        /\ pc = "fill" /\ ~cacheReachEOF => source = m_end
        /\ pc \in {"write", "wrote"} => buffer.first = m_end

(* As long as the source works, the reader is told the end of the input    *)
(* only when the last byte of the file is in the cache, or Process ended.  *)
EndOfInputIsTrue ==
    m_bEndOfInput /\ pc # "done" /\ ~sourceFailed => m_end = Length

(* The bytes a Read gives are those from the position on that the client   *)
(* asked its last successful Seek for, plus what it has read since.  (Not  *)
(* from the position that Seek returned, see Return.)                      *)
ReadRight ==
    at # None /\ ReadSome => \A i \in 0 .. (m_cur' - m_cur) - 1 : ByteRead(i) = at + i

(* Read gives the bytes from where the client asked to be, from a source   *)
(* that can seek and has not failed.                                       *)
ReadsTheFile == [][m_seekPossible /\ ~sourceFailed => ReadRight]_vars

(* As long as the source works, every Read, Seek and Close returns.        *)
OperationsReturn ==
    []~sourceFailed => (client \notin {"idle", "closed"} ~> client \in {"idle", "closed"})

(* A seek that is waiting when Process ends is told ("just in case         *)
(* someone's waiting..."): no Seek waits for a thread that has gone.       *)
SeekReturns == client = "asked" ~> client # "asked"
=============================================================================
