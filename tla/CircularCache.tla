---------------------------- MODULE CircularCache ----------------------------
(***************************************************************************)
(* CCircularCache (xbmc/filesystem/CircularCache.cpp), the ring buffer     *)
(* between the thread that fills a file cache and its reader.  It holds    *)
(* the bytes m_beg .. m_end - 1 of the file, byte p in slot p % m_size,    *)
(* and the reader's position m_cur.                                        *)
(*                                                                         *)
(* An operator is one critical section of the cache's m_sync.  A byte of   *)
(* the file is represented by its position, so a slot tells which byte it  *)
(* holds.  The events m_written and m_space only shorten waits that poll   *)
(* (50 and 5 ms); the modules that wait look at the state instead.         *)
(***************************************************************************)
EXTENDS Integers

CONSTANTS
    m_size,        \* bytes in the buffer
    m_size_back,   \* bytes behind the reader that are kept
    SeekAhead,     \* 100000: how far ahead of the data Seek waits for it
    Garbage        \* what a slot of the new buffer holds

ASSUME CircularCacheAssumption ==
    /\ m_size \in Nat /\ m_size_back \in Nat /\ m_size_back < m_size
    /\ SeekAhead \in Nat
    /\ Garbage \notin Int

VARIABLES
    m_beg, m_end, m_cur,  \* positions in the file
    m_buf,
    m_bEndOfInput

cacheVars == <<m_beg, m_end, m_cur, m_buf, m_bEndOfInput>>

CacheInit ==
    /\ m_beg = 0 /\ m_end = 0 /\ m_cur = 0
    /\ m_buf = [s \in 0 .. m_size - 1 |-> Garbage]
    /\ m_bEndOfInput = FALSE

Least(a, b) == IF a <= b THEN a ELSE b
Greatest(a, b) == IF a >= b THEN a ELSE b

Slot(p) == p % m_size
Front == m_end - m_cur

(* Room left when the guaranteed part of the back buffer is kept.          *)
(* Fault: the back buffer is not kept.                                     *)
LimitWithoutBack == m_size - Front
Limit == m_size - Least(m_cur - m_beg, m_size_back) - Front

GetMaxWriteSize(request) == Least(request, Limit)

(* How much WriteToCache takes of len bytes: never over the wrap point.    *)
(* Faults: as much as there is room for; as if the buffer did not wrap.    *)
WritableWhateverTheLength(len) == Least(Limit, m_size - Slot(m_end))
WritableOverTheWrap(len) == Least(len, Limit)
Writable(len) == Least(len, Least(Limit, m_size - Slot(m_end)))

(* The history that was overwritten is dropped.  Fault: it is not.         *)
HistoryNotDropped(end) == m_beg
BeginAfterWrite(end) == Greatest(m_beg, end - m_size)

(* The bytes first, first + 1 .. of the file are offered, len of them.     *)
WriteToCache(first, len) ==
    LET n == Writable(len) IN
    /\ m_buf' = [s \in 0 .. m_size - 1 |->
                    IF s - Slot(m_end) \in 0 .. n - 1 THEN first + (s - Slot(m_end))
                    ELSE m_buf[s]]
    /\ m_end' = m_end + n
    /\ m_beg' = BeginAfterWrite(m_end + n)
    /\ UNCHANGED <<m_cur, m_bEndOfInput>>

(* ReadFromCache gives at most this much, up to the wrap point.            *)
Readable == Least(m_size - Slot(m_cur), Front)

ReadFromCache(n) ==
    /\ n \in 1 .. Readable
    /\ m_cur' = m_cur + n
    /\ UNCHANGED <<m_beg, m_end, m_buf, m_bEndOfInput>>

(* What the reader gets from it, byte i of the answer.                     *)
ByteRead(i) == m_buf[Slot(m_cur) + i]

IsCachedPosition(p) == p >= m_beg /\ p <= m_end

(* Seek waits for data that is not far ahead, the reader having skipped    *)
(* all there is, and then succeeds if the position is cached.              *)
SeekWaits(p) == p >= m_end /\ p < m_end + SeekAhead

CachedDataEndPosIfSeekTo(p) == IF IsCachedPosition(p) THEN m_end ELSE p

(* Reset(pos, false): only what is not in the buffer empties it.           *)
Reset(p) ==
    \/ /\ IsCachedPosition(p)
       /\ m_cur' = p
       /\ UNCHANGED <<m_beg, m_end, m_buf>>
    \/ /\ ~IsCachedPosition(p)
       /\ m_beg' = p /\ m_end' = p /\ m_cur' = p
       /\ UNCHANGED m_buf
=============================================================================
