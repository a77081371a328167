-------------------------- MODULE FileCacheProofs --------------------------
(***************************************************************************)
(* Proofs about FileCache for files, buffers and chunks of any size: the   *)
(* positions of the ring buffer stay in order and within the buffer, and a *)
(* write never takes the bytes behind the reader that are guaranteed.      *)
(*                                                                         *)
(* The invariant is the type, the bounds, and that a chunk read from the   *)
(* source ends within the file.  Two more rest on it, about what the cache *)
(* holds and about where its reader is.                                    *)
(***************************************************************************)
EXTENDS FileCache, TLAPS

(* A chunk read from the source, or what is left of it, ends in the file.  *)
ChunkInFile == buffer.first + buffer.len <= Length

(* The inductive invariant.                                                *)
IInv == TypeOK /\ CacheBounds /\ ChunkInFile

(* The constants in the form the steps use.                                *)
LEMMA Sizes ==
    /\ m_size \in Nat \ {0} /\ m_size_back \in Nat /\ SeekAhead \in Nat
    /\ Length \in Nat /\ m_chunkSize \in Nat \ {0}
    /\ \A t \in Target : t \in Int
  BY CircularCacheAssumption, FileCacheAssumption

(* A position has a slot in the buffer.                                    *)
LEMMA SlotInBuffer ==
    ASSUME NEW p \in Int PROVE Slot(p) \in 0 .. m_size - 1
  BY Sizes DEF Slot

(* What WriteToCache takes of a chunk fits into the room that is left and  *)
(* before the wrap point.                                                  *)
LEMMA WritableFits ==
    ASSUME TypeOK, CacheBounds, NEW len \in Nat
    PROVE  /\ Writable(len) \in Nat
           /\ Writable(len) <= len /\ Writable(len) <= Limit
           /\ Writable(len) <= m_size - Slot(m_end)
  <1>1. m_end \in Int /\ m_cur \in Int /\ m_beg \in Int
    BY DEF TypeOK
  <1>2. Slot(m_end) \in 0 .. m_size - 1
    BY <1>1, SlotInBuffer
  <1>3. Limit \in Nat
    BY <1>1, Sizes DEF CacheBounds, Limit, Least, Front
  <1> QED
    BY <1>2, <1>3, Sizes DEF Writable, Least

(* The room that is left, seen from the reader: what is guaranteed behind  *)
(* him, what is before him and the room make up the buffer.                *)
LEMMA RoomFromReader ==
    ASSUME TypeOK, CacheBounds, NEW n \in Nat, n <= Limit
    PROVE  /\ BeginAfterWrite(m_end + n) \in Int
           /\ m_beg <= BeginAfterWrite(m_end + n) /\ BeginAfterWrite(m_end + n) <= m_cur
           /\ (m_end + n) - BeginAfterWrite(m_end + n) <= m_size
           /\ m_cur - BeginAfterWrite(m_end + n) >= Least(m_cur - m_beg, m_size_back)
  <1>1. m_end \in Int /\ m_cur \in Int /\ m_beg \in Int
    BY DEF TypeOK
  <1> QED
    BY <1>1, Sizes DEF BeginAfterWrite, Greatest, Limit, Least, Front, CacheBounds

(* Positions in order, with data that fits, leave room that is not negative. *)
LEMMA RoomIsNatural ==
    ASSUME NEW b \in Int, NEW c \in Int, NEW e \in Int,
           b <= c, c <= e, e - b <= m_size
    PROVE  m_size - Least(c - b, m_size_back) - (e - c) >= 0
  BY Sizes DEF Least

(* So positions in order are all there is to show, before and after a step. *)
LEMMA BoundsFromPositions ==
    ASSUME m_beg \in Int, m_cur \in Int, m_end \in Int,
           m_beg <= m_cur, m_cur <= m_end, m_end - m_beg <= m_size
    PROVE  CacheBounds
  BY RoomIsNatural DEF CacheBounds, Limit, Front

LEMMA BoundsAfterStep ==
    ASSUME m_beg' \in Int, m_cur' \in Int, m_end' \in Int,
           m_beg' <= m_cur', m_cur' <= m_end', m_end' - m_beg' <= m_size
    PROVE  CacheBounds'
  BY RoomIsNatural DEF CacheBounds, Limit, Front

-----------------------------------------------------------------------------
(* The invariant holds when Open has created the thread. *)
LEMMA InitIInv == Init => IInv
<1> SUFFICES ASSUME Init PROVE IInv
  OBVIOUS
<1>1. TypeOK
  <2>1. {m_beg, m_end, m_cur, m_nSeekResult, m_seekPos, m_readPos, target, at} \subseteq Int
    BY DEF Init, CacheInit
  <2>2. m_buf \in [0 .. m_size - 1 -> (0 .. Length - 1) \cup {Garbage}]
    BY DEF Init, CacheInit
  <2>3. {m_bEndOfInput, m_seekPossible, m_seekEvent, m_seekEnded, m_bStop, sourceFailed,
         cacheReachEOF} \subseteq BOOLEAN
    BY DEF Init, CacheInit
  <2>4. source \in 0 .. Length /\ buffer \in [first : 0 .. Length, len : 0 .. m_chunkSize]
    BY Sizes DEF Init, NoBytes
  <2> QED
    BY <2>1, <2>2, <2>3, <2>4 DEF Init, TypeOK
<1>2. CacheBounds
  BY <1>1, BoundsFromPositions, Sizes DEF Init, CacheInit, TypeOK
<1>3. ChunkInFile
  BY Sizes DEF Init, ChunkInFile, NoBytes
<1> QED
  BY <1>1, <1>2, <1>3 DEF IInv

(* An action that leaves the cache's positions and Process's buffer alone  *)
(* keeps the bounds: only its types are left to show.                      *)
positions == <<m_beg, m_cur, m_end>>

LEMMA BoundsKept ==
    ASSUME IInv, UNCHANGED positions, UNCHANGED buffer
    PROVE  CacheBounds' /\ ChunkInFile'
  BY DEF IInv, CacheBounds, ChunkInFile, positions, Limit, Front, Least

(* Reset, on which a seek of Process rests.                                *)
LEMMA ResetKeepsBounds ==
    ASSUME TypeOK, CacheBounds, NEW p \in Int, Reset(p)
    PROVE  /\ m_beg' \in Int /\ m_cur' \in Int /\ m_end' \in Int
           /\ m_buf' = m_buf /\ CacheBounds'
  <1>1. m_beg \in Int /\ m_cur \in Int /\ m_end \in Int /\ m_size \in Nat \ {0}
    BY Sizes DEF TypeOK
  <1>2. /\ m_beg' \in Int /\ m_cur' \in Int /\ m_end' \in Int /\ m_buf' = m_buf
        /\ m_beg' <= m_cur' /\ m_cur' <= m_end' /\ m_end' - m_beg' <= m_size
    BY <1>1 DEF Reset, IsCachedPosition, CacheBounds
  <1> QED
    BY <1>1, <1>2, BoundsAfterStep

(* The same when only the reader moves, within the data.                   *)
LEMMA ReaderMovesKeepsBounds ==
    ASSUME TypeOK, CacheBounds, UNCHANGED <<m_beg, m_end>>, m_cur' \in Int,
           m_beg <= m_cur', m_cur' <= m_end
    PROVE  CacheBounds'
  <1>1. m_beg \in Int /\ m_end \in Int /\ m_size \in Nat \ {0}
    BY Sizes DEF TypeOK
  <1>2. m_beg' <= m_cur' /\ m_cur' <= m_end' /\ m_end' - m_beg' <= m_size
    BY DEF CacheBounds
  <1> QED
    BY <1>1, <1>2, BoundsAfterStep

(* What WriteToCache does to the positions and to the buffer.              *)
LEMMA WriteKeepsBounds ==
    ASSUME IInv, WriteToCache(buffer.first, buffer.len)
    PROVE  /\ m_end' = m_end + Writable(buffer.len)
           /\ m_beg' \in Int /\ m_end' \in Int /\ m_cur' = m_cur
           /\ m_buf' \in [0 .. m_size - 1 -> (0 .. Length - 1) \cup {Garbage}]
           /\ CacheBounds'
           /\ m_cur - m_beg' >= Least(m_cur - m_beg, m_size_back)
  <1>t. /\ TypeOK /\ CacheBounds /\ ChunkInFile
        /\ m_beg \in Int /\ m_cur \in Int /\ m_end \in Int
        /\ buffer.first \in Nat /\ buffer.len \in Nat
        /\ m_buf \in [0 .. m_size - 1 -> (0 .. Length - 1) \cup {Garbage}]
    BY Sizes DEF IInv, TypeOK
  <1> DEFINE n == Writable(buffer.len)
             end == m_end + n
  <1>1. n \in Nat /\ n <= buffer.len /\ n <= Limit
    BY <1>t, WritableFits
  <1>2. m_end' = end /\ m_beg' = BeginAfterWrite(end) /\ m_cur' = m_cur
    BY DEF WriteToCache
  <1>3. /\ BeginAfterWrite(end) \in Int
        /\ m_beg <= BeginAfterWrite(end) /\ BeginAfterWrite(end) <= m_cur
        /\ end - BeginAfterWrite(end) <= m_size
        /\ m_cur - BeginAfterWrite(end) >= Least(m_cur - m_beg, m_size_back)
    <2> HIDE DEF n
    <2> QED BY <1>t, <1>1, RoomFromReader
  <1>4. m_buf' \in [0 .. m_size - 1 -> (0 .. Length - 1) \cup {Garbage}]
    <2> HIDE DEF n
    <2> SUFFICES ASSUME NEW s \in 0 .. m_size - 1
                 PROVE  (IF s - Slot(m_end) \in 0 .. n - 1
                           THEN buffer.first + (s - Slot(m_end)) ELSE m_buf[s])
                        \in (0 .. Length - 1) \cup {Garbage}
      BY DEF WriteToCache, n
    <2>1. Slot(m_end) \in 0 .. m_size - 1
      BY <1>t, SlotInBuffer
    <2> QED
      BY <1>t, <1>1, <2>1, Sizes DEF ChunkInFile
  <1>5. CacheBounds'
    <2> HIDE DEF n
    <2>1. m_beg' \in Int /\ m_end' \in Int /\ m_size \in Nat
      BY <1>t, <1>1, <1>2, <1>3, Sizes
    <2>2. m_beg' <= m_cur' /\ m_cur' <= m_end' /\ m_end' - m_beg' <= m_size
      BY <1>t, <1>1, <1>2, <1>3 DEF CacheBounds
    <2> QED BY <1>t, <1>2, <2>1, <2>2, BoundsAfterStep
  <1> QED
    BY <1>t, <1>1, <1>2, <1>3, <1>4, <1>5


(* The buffer of Process between two chunks.                               *)
NoBytesType == NoBytes \in [first : 0 .. Length, len : 0 .. m_chunkSize]

(* Every step keeps the invariant. *)
LEMMA NextIInv == IInv /\ [Next]_vars => IInv'
<1> SUFFICES ASSUME IInv, [Next]_vars PROVE IInv'
  OBVIOUS
<1> USE DEF IInv
<1>n. NoBytesType /\ NoBytes.first + NoBytes.len <= Length
  BY Sizes DEF NoBytesType, NoBytes
<1>i. /\ m_chunkSize \in Nat /\ Length \in Nat /\ None \in Int
      /\ Greatest(0, Length - m_chunkSize) \in Int
  BY Sizes DEF None, Greatest
<1>1. CASE Continue \/ NoSeekWanted \/ CacheFull \/ ReadSourceFails
  <2>1. UNCHANGED positions /\ UNCHANGED buffer
    BY <1>1 DEF Continue, NoSeekWanted, CacheFull, ReadSourceFails, positions, cacheVars
  <2>2. TypeOK'
    BY <1>1 DEF TypeOK, Continue, NoSeekWanted, CacheFull, ReadSourceFails, cacheVars, seekVars,
                clientVars
  <2> QED BY <2>1, <2>2, BoundsKept
<1>2. CASE HitEof \/ SeekAtEof \/ Exit
  <2>1. UNCHANGED positions /\ UNCHANGED buffer
    BY <1>2 DEF HitEof, SeekAtEof, Exit, positions
  <2>2. TypeOK'
    BY <1>2 DEF TypeOK, HitEof, SeekAtEof, Exit, seekVars, clientVars, SeekEventKept,
                EndOfInputCleared
  <2> QED BY <2>1, <2>2, BoundsKept
<1>3. CASE HandleSeek
  <2>1. /\ UNCHANGED <<m_bEndOfInput, m_seekPos, m_bStop, buffer, client, target, at>>
        /\ m_seekEvent' = FALSE /\ m_seekEnded' = TRUE
        /\ pc' = "fill" /\ cacheReachEOF' \in BOOLEAN
    BY <1>3 DEF HandleSeek, clientVars
  <2>2. source' \in 0 .. Length /\ sourceFailed' \in BOOLEAN /\ m_seekPossible' \in BOOLEAN
    BY <1>3 DEF HandleSeek, SourceSeek, TypeOK
  <2>3. m_seekPos \in Int /\ m_end \in Int /\ cacheMaxPos \in Int
    BY DEF TypeOK, cacheMaxPos, CachedDataEndPosIfSeekTo
  <2>4. /\ m_beg' \in Int /\ m_cur' \in Int /\ m_end' \in Int
        /\ m_buf' = m_buf /\ CacheBounds'
        /\ m_nSeekResult' \in Int /\ m_readPos' \in Int
    <3>1. CASE CacheSeek
      BY <2>3, <3>1, ResetKeepsBounds DEF CacheSeek
    <3>2. CASE /\ UNCHANGED <<m_beg, m_end, m_cur, m_buf, m_readPos>>
               /\ m_nSeekResult' = None
      <4>1. /\ m_beg \in Int /\ m_cur \in Int /\ m_end \in Int /\ m_readPos \in Int
            /\ m_beg <= m_cur /\ m_cur <= m_end /\ m_end - m_beg <= m_size
        BY DEF TypeOK, CacheBounds
      <4> QED BY <1>i, <3>2, <4>1, BoundsAfterStep
    <3> QED
      BY <1>3, <3>1, <3>2 DEF HandleSeek
  <2>5. TypeOK'
    BY <2>1, <2>2, <2>4 DEF TypeOK
  <2>6. ChunkInFile'
    BY <2>1 DEF ChunkInFile
  <2> QED BY <2>4, <2>5, <2>6
<1>4. CASE ReadSource
  <2>1. /\ UNCHANGED <<cacheVars, m_seekPossible, seekVars, m_bStop, cacheReachEOF,
                       sourceFailed, clientVars>>
        /\ pc' = "write"
    BY <1>4 DEF ReadSource
  <2>2. PICK n \in 1 .. Least(maxWrite, Length - source) :
             buffer' = [first |-> source, len |-> n] /\ source' = source + n
    BY <1>4 DEF ReadSource
  <2>3. /\ m_beg \in Int /\ m_cur \in Int /\ m_end \in Int
        /\ source \in 0 .. Length
    BY DEF TypeOK
  <2>4. n \in Nat /\ n <= m_chunkSize /\ source + n <= Length
    BY <2>2, <2>3, Sizes DEF maxWrite, GetMaxWriteSize, Limit, Front, Least
  <2>5. /\ buffer' \in [first : 0 .. Length, len : 0 .. m_chunkSize]
        /\ source' \in 0 .. Length /\ ChunkInFile'
    BY <1>i, <2>2, <2>3, <2>4 DEF ChunkInFile
  <2>6. CacheBounds'
    BY <2>1 DEF CacheBounds, cacheVars, Limit, Front, Least
  <2>7. TypeOK'
    BY <2>1, <2>5 DEF TypeOK, cacheVars, seekVars, clientVars
  <2> QED BY <2>5, <2>6, <2>7
<1>5. CASE Write
  <2>1. /\ WriteToCache(buffer.first, buffer.len)
        /\ UNCHANGED <<m_seekPossible, seekVars, m_bStop, cacheReachEOF, source, sourceFailed,
                       clientVars>>
    BY <1>5 DEF Write
  <2>2. /\ m_beg' \in Int /\ m_end' \in Int /\ m_cur' = m_cur /\ CacheBounds'
        /\ m_buf' \in [0 .. m_size - 1 -> (0 .. Length - 1) \cup {Garbage}]
    BY <2>1, WriteKeepsBounds
  <2>3. m_bEndOfInput' = m_bEndOfInput
    BY <2>1 DEF WriteToCache
  <2>4. buffer.len \in Nat /\ buffer.first \in Nat /\ buffer.len <= m_chunkSize
    BY <1>i DEF TypeOK
  <2>5. Writable(buffer.len) \in Nat /\ Writable(buffer.len) <= buffer.len
    BY <2>4, WritableFits
  <2>6. /\ buffer' = [first |-> buffer.first + Writable(buffer.len),
                      len |-> buffer.len - Writable(buffer.len)]
        /\ pc' = "wrote"
    BY <1>5 DEF Write
  <2>7. /\ buffer' \in [first : 0 .. Length, len : 0 .. m_chunkSize]
        /\ ChunkInFile'
    BY <1>i, <2>4, <2>5, <2>6 DEF ChunkInFile
  <2>8. TypeOK'
    BY <2>1, <2>2, <2>3, <2>6, <2>7 DEF TypeOK, seekVars, clientVars
  <2> QED BY <2>2, <2>7, <2>8
<1>6. CASE WriteStopped
  <2>1. UNCHANGED positions /\ buffer' = NoBytes
    BY <1>6 DEF WriteStopped, positions, cacheVars
  <2>2. CacheBounds' /\ ChunkInFile'
    BY <1>n, <2>1 DEF CacheBounds, ChunkInFile, positions, Limit, Front, Least
  <2>3. TypeOK'
    BY <1>6, <1>n DEF TypeOK, WriteStopped, NoBytesType, cacheVars, seekVars, clientVars
  <2> QED BY <2>2, <2>3
<1>w. CASE Wrote
  <2>1. UNCHANGED positions /\ buffer' \in {NoBytes, buffer}
    BY <1>w DEF Wrote, positions, cacheVars
  <2>2. CacheBounds' /\ ChunkInFile'
    BY <1>i, <1>n, <2>1 DEF CacheBounds, ChunkInFile, positions, Limit, Front, Least
  <2>3. TypeOK'
    BY <1>w, <1>i, <1>n, <2>1 DEF TypeOK, Wrote, NoBytesType, cacheVars, seekVars, clientVars
  <2> QED BY <2>2, <2>3
<1>7. CASE ReadSome
  <2>1. /\ UNCHANGED <<m_seekPossible, m_seekEvent, m_seekEnded, m_nSeekResult, m_seekPos,
                       m_bStop, writerVars, target, m_beg, m_end, m_buf, m_bEndOfInput>>
        /\ client' = "idle"
    BY <1>7 DEF ReadSome, ReadFromCache
  <2>2. PICK n \in 1 .. Readable :
             /\ m_cur' = m_cur + n
             /\ m_readPos' = m_readPos + n
             /\ at' = IF at = None THEN None ELSE at + n
    BY <1>7 DEF ReadSome, ReadFromCache
  <2>3. /\ m_beg \in Int /\ m_cur \in Int /\ m_end \in Int /\ m_readPos \in Int /\ at \in Int
        /\ m_beg <= m_cur
    BY DEF TypeOK, CacheBounds
  <2>4. n \in Nat /\ m_cur + n <= m_end
    <3>1. Slot(m_cur) \in 0 .. m_size - 1
      BY <2>3, SlotInBuffer
    <3> QED BY <2>2, <2>3, <3>1, Sizes DEF Readable, Front, Least
  <2>5. m_cur' \in Int /\ m_readPos' \in Int /\ at' \in Int /\ m_beg <= m_cur' /\ m_cur' <= m_end
    BY <1>i, <2>2, <2>3, <2>4
  <2>6. CacheBounds'
    BY <2>1, <2>5, ReaderMovesKeepsBounds
  <2>7. TypeOK' /\ ChunkInFile'
    BY <2>1, <2>5 DEF TypeOK, ChunkInFile, writerVars
  <2> QED BY <2>6, <2>7
<1>8. CASE ReadBlocks \/ ReadWaited \/ Close \/ Closed
  <2>1. UNCHANGED positions /\ UNCHANGED buffer
    BY <1>8 DEF ReadBlocks, ReadWaited, Close, Closed, positions, cacheVars, writerVars
  <2>2. TypeOK'
    BY <1>8 DEF TypeOK, ReadBlocks, ReadWaited, Close, Closed, cacheVars, seekVars, writerVars
  <2> QED BY <2>1, <2>2, BoundsKept
<1>9. CASE SeekToReadPos \/ RestMissing
  <2>1. UNCHANGED positions /\ UNCHANGED buffer
    BY <1>9 DEF SeekToReadPos, RestMissing, positions, cacheVars, writerVars
  <2>2. client' = "idle" /\ at' \in Int
    BY <1>9, <1>i DEF TypeOK, SeekToReadPos, RestMissing, Return
  <2>3. TypeOK'
    BY <1>9, <2>2 DEF TypeOK, SeekToReadPos, RestMissing, cacheVars, seekVars, writerVars
  <2> QED BY <2>1, <2>3, BoundsKept
<1>10. ASSUME NEW t \in Int, SeekAheadOfData(t) PROVE IInv'
  <2>1. m_end \in Int /\ m_beg \in Int /\ m_beg <= m_end
    BY DEF TypeOK, CacheBounds
  <2>2. CacheBounds'
    BY <1>10, <2>1, ReaderMovesKeepsBounds DEF SeekAheadOfData
  <2>3. TypeOK' /\ ChunkInFile'
    BY <1>10, <2>1 DEF SeekAheadOfData, TypeOK, ChunkInFile, seekVars, writerVars
  <2> QED BY <2>2, <2>3
<1>11. ASSUME NEW t \in Int, SeekHits(t) PROVE IInv'
  <2>1. CacheBounds'
    BY <1>11, ReaderMovesKeepsBounds DEF SeekHits, IsCachedPosition
  <2>2. client' = "idle" /\ at' \in Int /\ m_cur' \in Int
    BY <1>11, <1>i DEF SeekHits, Return
  <2>3. TypeOK' /\ ChunkInFile'
    BY <1>11, <2>2 DEF SeekHits, TypeOK, ChunkInFile, writerVars
  <2> QED BY <2>1, <2>3
<1>12. ASSUME NEW t \in Int, SeekMisses(t) PROVE IInv'
  <2>1. UNCHANGED positions /\ UNCHANGED buffer
    BY <1>12 DEF SeekMisses, positions, cacheVars, writerVars
  <2>2. client' \in {"missed", "idle"} /\ at' \in Int /\ target' \in Int /\ m_nSeekResult' \in Int
    BY <1>12, <1>i DEF SeekMisses, Return, TypeOK
  <2>3. TypeOK'
    BY <1>12, <2>2 DEF SeekMisses, TypeOK, cacheVars, writerVars
  <2> QED BY <2>1, <2>3, BoundsKept
<1>13. ASSUME NEW t \in Target, Seek(t) PROVE IInv'
  BY <1>10, <1>11, <1>12, <1>13, Sizes DEF Seek
<1>14. CASE SeekWaited
  <2>1. target \in Int
    BY DEF TypeOK
  <2> QED BY <1>11, <1>12, <1>14, <2>1 DEF SeekWaited
<1>15. CASE AskForSeek
  <2>1. UNCHANGED positions /\ UNCHANGED buffer
    BY <1>15 DEF AskForSeek, positions, cacheVars, writerVars
  <2>2. m_seekPos' \in Int
    BY <1>15, <1>i DEF AskForSeek, Least, TypeOK
  <2>3. TypeOK'
    BY <1>15, <2>2 DEF AskForSeek, TypeOK, cacheVars, writerVars
  <2> QED BY <2>1, <2>3, BoundsKept
<1>16. CASE SeekEnded
  <2>1. UNCHANGED positions /\ UNCHANGED buffer
    BY <1>16 DEF SeekEnded, FinishSeek, positions, cacheVars, writerVars
  <2>2. client' \in {"rest", "idle"} /\ at' \in Int /\ m_readPos' \in Int
    BY <1>16, <1>i DEF SeekEnded, FinishSeek, Return, TypeOK
  <2>3. TypeOK'
    BY <1>16, <2>2 DEF SeekEnded, FinishSeek, TypeOK, cacheVars, writerVars
  <2> QED BY <2>1, <2>3, BoundsKept
<1>17. CASE RestWaits
  <2>1. m_end \in Int /\ m_beg \in Int /\ m_beg <= m_end
    BY DEF TypeOK, CacheBounds
  <2>2. CacheBounds'
    BY <1>17, <2>1, ReaderMovesKeepsBounds DEF RestWaits
  <2>3. TypeOK' /\ ChunkInFile'
    BY <1>17, <2>1 DEF RestWaits, TypeOK, ChunkInFile, seekVars, writerVars
  <2> QED BY <2>2, <2>3
<1>18. CASE RestDone
  <2>1. /\ m_cur' = IF IsCachedPosition(target) THEN target ELSE m_cur
        /\ m_readPos' = target /\ m_seekEvent' = FALSE /\ client' = "idle"
        /\ at' = IF m_nSeekResult = None THEN None ELSE target
        /\ UNCHANGED <<m_beg, m_end, m_buf, m_bEndOfInput, m_seekEnded, m_nSeekResult, m_seekPos,
                       m_seekPossible, m_bStop, writerVars, target>>
    BY <1>18 DEF RestDone, FinishSeek, Return
  <2>2. /\ m_cur \in Int /\ target \in Int /\ m_beg \in Int /\ m_end \in Int
        /\ m_beg <= m_cur /\ m_cur <= m_end
    BY DEF TypeOK, CacheBounds
  <2>3. m_cur' \in Int /\ m_beg <= m_cur' /\ m_cur' <= m_end
    BY <2>1, <2>2 DEF IsCachedPosition
  <2>4. CacheBounds'
    BY <2>1, <2>3, ReaderMovesKeepsBounds
  <2>5. TypeOK' /\ ChunkInFile'
    BY <1>i, <2>1, <2>2, <2>3 DEF TypeOK, ChunkInFile, writerVars
  <2> QED BY <2>4, <2>5
<1>19. CASE UNCHANGED vars
  <2>1. UNCHANGED positions /\ UNCHANGED buffer
    BY <1>19 DEF vars, positions, cacheVars, writerVars
  <2>2. TypeOK'
    BY <1>19 DEF vars, TypeOK, cacheVars, seekVars, writerVars, clientVars
  <2> QED BY <2>1, <2>2, BoundsKept
<1> QED
  BY <1>1, <1>w, <1>2, <1>3, <1>4, <1>5, <1>6, <1>7, <1>8, <1>9, <1>13, <1>14, <1>15, <1>16,
     <1>17, <1>18, <1>19
  DEF Next, Process, ClientStep, NewOperation

(* The invariant holds in every state. *)
LEMMA IInvariant == Spec => []IInv
  BY InitIInv, NextIInv, PTL DEF Spec

(* Types of the cache, of Process and of the client in every state. *)
THEOREM TypeCorrect == Spec => []TypeOK
<1>1. IInv => TypeOK
  BY DEF IInv
<1> QED
  BY <1>1, IInvariant, PTL

(* However reads, seeks and chunks interleave, the reader stays within the *)
(* data, the data within the buffer, and no unsigned difference of         *)
(* GetMaxWriteSize and WriteToCache wraps below 0.                         *)
THEOREM BoundsHold == Spec => []CacheBounds
<1>1. IInv => CacheBounds
  BY DEF IInv
<1> QED
  BY <1>1, IInvariant, PTL

(* Only a write and the seek of Process move the end of the data.          *)
LEMMA OnlyProcessMovesEnd ==
    ASSUME [Next]_vars, m_end' # m_end
    PROVE  Write \/ HandleSeek
<1>1. CASE Process
  BY <1>1 DEF Process, Continue, NoSeekWanted, CacheFull, ReadSource, ReadSourceFails, HitEof,
              Wrote, WriteStopped, SeekAtEof, Exit, cacheVars
<1>2. CASE ClientStep
  BY <1>2 DEF ClientStep, ReadSome, ReadFromCache, ReadWaited, SeekWaited, SeekHits, SeekMisses,
              AskForSeek, SeekEnded, RestMissing, RestWaits, RestDone, Closed, cacheVars
<1>3. CASE NewOperation
  BY <1>3 DEF NewOperation, ReadSome, ReadFromCache, ReadBlocks, SeekToReadPos, Close, Seek,
              SeekAheadOfData, SeekHits, SeekMisses, cacheVars
<1>4. CASE UNCHANGED vars
  BY <1>4 DEF vars, cacheVars
<1> QED
  BY <1>1, <1>2, <1>3, <1>4 DEF Next

(* A write of Process drops none of the last m_size_back bytes behind the  *)
(* reader, for every size of buffer, back buffer and chunk.                *)
THEOREM BackBufferKept == Spec => BackIsKept
<1>1. ASSUME IInv, [Next]_vars, m_end' > m_end, m_beg' # m_end'
      PROVE  m_cur - m_beg' >= Least(m_cur - m_beg, m_size_back)
  <2>1. m_end' # m_end
    <3>1. m_end \in Int /\ m_end' \in Int
      BY <1>1, NextIInv DEF IInv, TypeOK
    <3> QED BY <1>1, <3>1
  <2>2. CASE Write
    BY <1>1, <2>2, WriteKeepsBounds DEF Write
  <2>3. ~HandleSeek
    BY <1>1, <2>1 DEF HandleSeek, CacheSeek, Reset
  <2> QED
    BY <1>1, <2>1, <2>2, <2>3, OnlyProcessMovesEnd
<1>2. IInv /\ [Next]_vars =>
        [m_end' > m_end /\ m_beg' # m_end' =>
            m_cur - m_beg' >= Least(m_cur - m_beg, m_size_back)]_vars
  BY <1>1
<1> QED
  BY <1>2, IInvariant, PTL DEF BackIsKept, Spec

-----------------------------------------------------------------------------
(***************************************************************************)
(* What the cache holds is the file, as long as the source works: for      *)
(* files, buffers and chunks of any size, and any targets that are not     *)
(* before the beginning of the file.                                       *)
(*                                                                         *)
(* The slots of the ring are positions modulo its size; the first part     *)
(* shows what is needed of that.  The second is about the conversation of  *)
(* the two threads: a source that is not where the cache ends is told to   *)
(* go there before it is read.                                             *)
(***************************************************************************)

(* A seek is wanted, or was answered, only of a client that asked.         *)
SeekInHand ==
    /\ client = "asked" => m_seekEvent = ~m_seekEnded
    /\ client \notin {"asked", "closing", "closed"} => ~m_seekEvent /\ ~m_seekEnded
    /\ m_bStop => client \in {"closing", "closed"}

TargetsInFile == target \in Nat /\ m_seekPos \in 0 .. Length

GoesOn == source = m_end /\ ~cacheReachEOF

Follows ==
    /\ m_end \in 0 .. Length
    /\ pc = "top" => m_seekEvent \/ m_bStop \/ GoesOn
    /\ pc = "look" => m_seekEvent \/ GoesOn
    /\ pc = "fill" => IF cacheReachEOF THEN m_end = Length ELSE source = m_end
    /\ pc \in {"write", "wrote"} => /\ buffer.first = m_end /\ source = m_end + buffer.len
                                    /\ ~cacheReachEOF
    /\ pc = "eof" => m_end = Length

Holds == \A p \in m_beg .. m_end - 1 : m_buf[Slot(p)] = p

DataInv ==
    /\ TargetsInFile
    /\ m_bEndOfInput => pc \in {"eof", "done"}
    /\ ~sourceFailed => SeekInHand /\ Follows /\ Holds

-----------------------------------------------------------------------------
(* Slots                                                                   *)

LEMMA Division ==
  ASSUME NEW m \in Nat \ {0}, NEW p \in Int
  PROVE  p \div m \in Int /\ p % m \in 0 .. m - 1 /\ p = m * (p \div m) + (p % m)
OBVIOUS

(* Positions that follow one another have slots that do, up to the wrap.   *)
LEMMA NextSlots ==
  ASSUME NEW p \in Int, NEW k \in Nat, Slot(p) + k < m_size
  PROVE  Slot(p + k) = Slot(p) + k
<1> DEFINE a == (p + k) \div m_size
           b == p \div m_size
           r == Slot(p + k)
           s == Slot(p)
<1>1. /\ a \in Int /\ b \in Int /\ r \in 0 .. m_size - 1 /\ s \in 0 .. m_size - 1
      /\ p + k = m_size * a + r /\ p = m_size * b + s
  BY Sizes, Division DEF Slot
<1>2. s + k < m_size
  OBVIOUS
<1> HIDE DEF a, b, r, s
<1>3. m_size * (a - b) = (s + k) - r /\ s + k \in 0 .. m_size - 1
  BY <1>1, <1>2, Sizes
<1>4. a - b >= 1 => m_size * (a - b) >= m_size
  BY <1>1, Sizes
<1>5. a - b <= -1 => m_size * (a - b) <= -m_size
  BY <1>1, Sizes
<1>6. a - b = 0 => m_size * (a - b) = 0
  BY <1>1, Sizes
<1>7. r = s + k
  BY <1>1, <1>3, <1>4, <1>5, <1>6, Sizes
<1>8. QED BY <1>7 DEF r, s

(* Positions that are less than the size apart have different slots.       *)
LEMMA SlotsDiffer ==
  ASSUME NEW p \in Int, NEW q \in Int, p < q, q - p < m_size
  PROVE  Slot(p) # Slot(q)
<1> DEFINE a == q \div m_size
           b == p \div m_size
           r == Slot(q)
           s == Slot(p)
<1>1. /\ a \in Int /\ b \in Int /\ r \in 0 .. m_size - 1 /\ s \in 0 .. m_size - 1
      /\ q = m_size * a + r /\ p = m_size * b + s
  BY Sizes, Division DEF Slot
<1> HIDE DEF a, b, r, s
<1>2. SUFFICES ASSUME r = s PROVE FALSE
  BY DEF r, s
<1>3. q - p = m_size * (a - b)
  BY <1>1, <1>2, Sizes
<1>4. a - b >= 1 => m_size * (a - b) >= m_size
  BY <1>1, Sizes
<1>5. a - b <= 0 => m_size * (a - b) <= 0
  BY <1>1, Sizes
<1>6. QED BY <1>1, <1>3, <1>4, <1>5, Sizes

(* A write at the end of the data leaves the rest of it where it is.       *)
LEMMA WriteHolds ==
  ASSUME IInv, Holds, buffer.first = m_end, WriteToCache(buffer.first, buffer.len)
  PROVE  Holds'
<1> DEFINE n == Writable(buffer.len)
<1>1. /\ m_beg \in Int /\ m_end \in Int /\ m_cur \in Int /\ buffer.len \in Nat
      /\ TypeOK /\ CacheBounds
  BY Sizes DEF IInv, TypeOK
<1>2. n \in Nat /\ n <= m_size - Slot(m_end) /\ n <= Limit
  BY <1>1, WritableFits
<1>3. /\ m_end' = m_end + n /\ m_beg' = BeginAfterWrite(m_end + n)
      /\ m_buf' = [s \in 0 .. m_size - 1 |->
                     IF s - Slot(m_end) \in 0 .. n - 1 THEN m_end + (s - Slot(m_end)) ELSE m_buf[s]]
  BY DEF WriteToCache
<1> HIDE DEF n
<1>4. /\ BeginAfterWrite(m_end + n) \in Int /\ m_beg <= BeginAfterWrite(m_end + n)
      /\ (m_end + n) - BeginAfterWrite(m_end + n) <= m_size
  BY <1>1, <1>2, RoomFromReader
<1>5. SUFFICES ASSUME NEW p \in m_beg' .. m_end' - 1 PROVE m_buf'[Slot(p)] = p
  BY DEF Holds
<1>6. p \in Int /\ p < m_end + n /\ p >= m_beg /\ (m_end + n) - p <= m_size
  <2> DEFINE b == BeginAfterWrite(m_end + n)
  <2>1. p \in b .. (m_end + n) - 1
    BY <1>3
  <2> HIDE DEF b
  <2>2. b \in Int /\ m_beg <= b /\ (m_end + n) - b <= m_size
    BY <1>4 DEF b
  <2>3. QED BY <1>1, <1>2, <2>1, <2>2, Sizes
<1>7. Slot(p) \in 0 .. m_size - 1 /\ Slot(m_end) \in 0 .. m_size - 1
  BY <1>1, <1>6, SlotInBuffer
<1>8. CASE p >= m_end
  <2> DEFINE k == p - m_end
  <2>1. k \in Nat /\ k < n /\ p = m_end + k
    BY <1>1, <1>2, <1>6, <1>8
  <2> HIDE DEF k
  <2>2. Slot(p) = Slot(m_end) + k
    BY <1>1, <1>2, <1>7, <2>1, Sizes, NextSlots
  <2>3. Slot(p) - Slot(m_end) = k
    BY <1>7, <2>1, <2>2
  <2>4. Slot(p) - Slot(m_end) \in 0 .. n - 1
    BY <1>2, <2>1, <2>3
  <2>5. QED BY <1>3, <1>7, <2>1, <2>3, <2>4
<1>9. CASE p < m_end
  <2>1. Slot(p) - Slot(m_end) \notin 0 .. n - 1
    <3>1. SUFFICES ASSUME NEW k \in 0 .. n - 1, Slot(p) - Slot(m_end) = k PROVE FALSE
      OBVIOUS
    <3>2. k \in Nat /\ Slot(m_end) + k < m_size
      BY <1>2, <1>7, <3>1, Sizes
    <3>3. Slot(m_end + k) = Slot(p)
      BY <1>1, <1>7, <3>1, <3>2, NextSlots
    <3>4. m_end + k \in Int /\ p < m_end + k /\ (m_end + k) - p < m_size
      BY <1>1, <1>2, <1>6, <1>9, <3>1, <3>2, Sizes
    <3>5. QED BY <1>6, <3>3, <3>4, SlotsDiffer
  <2>2. m_buf'[Slot(p)] = m_buf[Slot(p)]
    BY <1>3, <1>7, <2>1
  <2>3. p \in m_beg .. m_end - 1
    BY <1>1, <1>6, <1>9
  <2>4. QED BY <2>2, <2>3 DEF Holds
<1>10. QED BY <1>1, <1>6, <1>8, <1>9

-----------------------------------------------------------------------------
(* Process                                                                 *)

LEMMA InitDataInv == Init => DataInv
BY Sizes DEF Init, CacheInit, DataInv, TargetsInFile, SeekInHand, Follows, GoesOn, Holds

(* What a step of Process leaves to the client.                            *)
SeekKept == UNCHANGED <<client, target, m_seekPos>>

(* A step that touches neither the data nor the conversation.              *)
LEMMA QuietStep ==
  ASSUME DataInv, SeekKept, UNCHANGED <<m_beg, m_end, m_buf, m_seekEvent, m_seekEnded, m_bStop>>,
         m_bEndOfInput' => pc' \in {"eof", "done"},
         ~sourceFailed' => ~sourceFailed /\ Follows'
  PROVE  DataInv'
<1>1. TargetsInFile'
  BY DEF DataInv, TargetsInFile, SeekKept
<1>2. ASSUME ~sourceFailed' PROVE SeekInHand' /\ Follows' /\ Holds'
  BY <1>2 DEF DataInv, SeekInHand, Holds, SeekKept
<1>3. QED BY <1>1, <1>2 DEF DataInv

LEMMA HandleSeekInv == ASSUME IInv, DataInv, HandleSeek PROVE DataInv'
<1>t. /\ m_beg \in Int /\ m_end \in Int /\ m_seekPos \in Int /\ source \in 0 .. Length
      /\ sourceFailed \in BOOLEAN
  BY DEF IInv, TypeOK
<1>0. /\ pc = "look" /\ m_seekEvent /\ SeekKept
      /\ m_seekEvent' = FALSE /\ m_seekEnded' = TRUE
      /\ cacheReachEOF' = (cacheMaxPos = Length) /\ pc' = "fill"
      /\ UNCHANGED <<m_bEndOfInput, m_bStop, buffer>>
  BY DEF HandleSeek, SeekKept, clientVars
<1>1. TargetsInFile' /\ ~m_bEndOfInput'
  BY <1>0 DEF DataInv, TargetsInFile, SeekKept
<1>2. ASSUME ~sourceFailed' PROVE SeekInHand' /\ Follows' /\ Holds'
  <2>1. ~sourceFailed
    BY <1>t, <1>2 DEF HandleSeek, SourceSeek
  <2>2. SeekInHand /\ Follows /\ Holds /\ m_seekPos \in 0 .. Length
    BY <2>1 DEF DataInv, TargetsInFile
  <2>3. SeekInHand'
    BY <1>0, <2>2 DEF SeekInHand, SeekKept
  <2>4. cacheMaxPos \in 0 .. Length
    BY <2>2 DEF cacheMaxPos, CachedDataEndPosIfSeekTo, Follows
  <2>5. Reset(m_seekPos) => m_end' = cacheMaxPos /\ Holds'
    <3>1. CASE IsCachedPosition(m_seekPos)
      BY <2>2, <3>1 DEF Reset, cacheMaxPos, CachedDataEndPosIfSeekTo, Holds
    <3>2. CASE ~IsCachedPosition(m_seekPos)
      BY <1>t, <3>2 DEF Reset, cacheMaxPos, CachedDataEndPosIfSeekTo, Holds
    <3>3. QED BY <3>1, <3>2
  <2>6. Reset(m_seekPos) /\ (cacheMaxPos = Length \/ source' = cacheMaxPos)
    <3>1. CASE cacheMaxPos = Length
      BY <3>1 DEF HandleSeek, CacheSeek
    <3>2. CASE cacheMaxPos # Length
      <4>1. PICK r \in {cacheMaxPos, None} :
              /\ SourceSeek(cacheMaxPos, r)
              /\ r = cacheMaxPos => CacheSeek
        BY <3>2 DEF HandleSeek
      <4>2. r = cacheMaxPos /\ source' = cacheMaxPos
        BY <1>2, <2>4, <4>1 DEF SourceSeek, None
      <4>3. QED BY <4>1, <4>2 DEF CacheSeek
    <3>3. QED BY <3>1, <3>2
  <2>7. Follows'
    BY <1>0, <2>4, <2>5, <2>6 DEF Follows
  <2>8. QED BY <2>3, <2>5, <2>6, <2>7
<1>3. QED BY <1>1, <1>2 DEF DataInv

LEMMA WriteInv == ASSUME IInv, DataInv, Write PROVE DataInv'
<1>t. /\ m_end \in Int /\ source \in 0 .. Length /\ buffer.first \in Nat /\ buffer.len \in Nat
      /\ buffer.first + buffer.len <= Length /\ TypeOK /\ CacheBounds
  BY Sizes DEF IInv, TypeOK, ChunkInFile
<1> DEFINE n == Writable(buffer.len)
<1>0. /\ pc = "write" /\ ~m_bStop /\ WriteToCache(buffer.first, buffer.len)
      /\ m_end' = m_end + n /\ UNCHANGED m_bEndOfInput
      /\ buffer' = [first |-> buffer.first + n, len |-> buffer.len - n] /\ pc' = "wrote"
      /\ UNCHANGED <<m_seekPossible, seekVars, m_bStop, cacheReachEOF, source, sourceFailed, clientVars>>
  BY DEF Write, WriteToCache
<1>1. n \in Nat /\ n <= buffer.len
  BY <1>t, WritableFits
<1> HIDE DEF n
<1>2. TargetsInFile'
  BY <1>0 DEF DataInv, TargetsInFile, seekVars, clientVars
<1>3. ~m_bEndOfInput'
  BY <1>0 DEF DataInv
<1>4. ASSUME ~sourceFailed' PROVE SeekInHand' /\ Follows' /\ Holds'
  <2>1. SeekInHand /\ Follows /\ Holds
    BY <1>0, <1>4 DEF DataInv
  <2>2. SeekInHand'
    BY <1>0, <2>1 DEF SeekInHand, seekVars, clientVars
  <2>3. buffer.first = m_end /\ source = m_end + buffer.len /\ ~cacheReachEOF
    BY <1>0, <2>1 DEF Follows
  <2>4. Holds'
    BY <1>0, <2>1, <2>3, WriteHolds
  <2>5. m_end' \in 0 .. Length
    BY <1>t, <1>0, <1>1, <2>3, Sizes
  <2>k. /\ cacheReachEOF' = cacheReachEOF /\ m_seekEvent' = m_seekEvent /\ m_bStop' = m_bStop
        /\ source' = source /\ pc = "write"
    BY <1>0 DEF seekVars
  <2>8. Follows'
    <3>1. buffer'.first = buffer.first + n /\ buffer'.len = buffer.len - n
      BY <1>0
    <3>2. buffer'.first = m_end' /\ source' = m_end' + buffer'.len
      BY <1>t, <1>0, <1>1, <2>3, <2>k, <3>1
    <3>3. pc' = "wrote" /\ ~cacheReachEOF'
      BY <1>0, <2>3, <2>k
    <3>4. QED BY <2>5, <3>2, <3>3 DEF Follows
  <2>9. QED BY <2>2, <2>4, <2>8
<1>5. QED BY <1>2, <1>3, <1>4 DEF DataInv

LEMMA ProcessInv == ASSUME IInv, DataInv, Process PROVE DataInv'
<1>t. /\ m_end \in Int /\ source \in 0 .. Length /\ m_bStop \in BOOLEAN
      /\ sourceFailed \in BOOLEAN /\ cacheReachEOF \in BOOLEAN /\ Length \in Nat
      /\ m_bEndOfInput \in BOOLEAN
  BY Sizes DEF IInv, TypeOK
<1>d. /\ TargetsInFile /\ (m_bEndOfInput => pc \in {"eof", "done"})
      /\ ~sourceFailed => SeekInHand /\ Follows
  BY DEF DataInv
<1>1. CASE Continue \/ NoSeekWanted \/ CacheFull
  <2>1. /\ SeekKept /\ pc \notin {"eof", "done"}
        /\ UNCHANGED <<m_beg, m_end, m_buf, m_seekEvent, m_seekEnded, m_bStop, m_bEndOfInput,
                       source, sourceFailed, cacheReachEOF, buffer>>
    BY <1>1 DEF Continue, NoSeekWanted, CacheFull, SeekKept, cacheVars, seekVars, clientVars
  <2>2. Follows => Follows'
    BY <1>1, <2>1 DEF Follows, GoesOn, Continue, NoSeekWanted, CacheFull
  <2>3. QED BY <1>d, <2>1, <2>2, QuietStep
<1>2. CASE ReadSource
  <2>1. /\ SeekKept /\ pc = "fill" /\ ~cacheReachEOF
        /\ UNCHANGED <<m_beg, m_end, m_buf, m_seekEvent, m_seekEnded, m_bStop, m_bEndOfInput,
                       sourceFailed, cacheReachEOF>>
        /\ pc' = "write"
    BY <1>2 DEF ReadSource, SeekKept, cacheVars, seekVars, clientVars
  <2>2. \E n \in Int : buffer' = [first |-> source, len |-> n] /\ source' = source + n
    BY <1>2 DEF ReadSource
  <2>3. Follows => Follows'
    BY <1>t, <2>1, <2>2 DEF Follows
  <2>4. QED BY <1>d, <2>1, <2>3, QuietStep
<1>3. CASE ReadSourceFails
  <2>1. /\ SeekKept /\ pc = "fill" /\ sourceFailed' = TRUE
        /\ UNCHANGED <<m_bEndOfInput>>
    BY <1>3 DEF ReadSourceFails, SeekKept, cacheVars, seekVars, clientVars
  <2>2. QED BY <1>d, <2>1 DEF DataInv, TargetsInFile, SeekKept
<1>4. CASE HitEof
  <2>1. /\ SeekKept /\ pc = "fill" /\ pc' = "eof" /\ (cacheReachEOF \/ source = Length)
        /\ UNCHANGED <<m_beg, m_end, m_buf, m_seekEvent, m_seekEnded, m_bStop, sourceFailed>>
    BY <1>4 DEF HitEof, SeekKept, seekVars, clientVars
  <2>2. Follows => Follows'
    BY <1>t, <2>1 DEF Follows
  <2>3. QED BY <1>d, <2>1, <2>2, QuietStep
<1>5. CASE WriteStopped
  <2>1. /\ SeekKept /\ pc = "write" /\ m_bStop /\ pc' = "top"
        /\ UNCHANGED <<m_beg, m_end, m_buf, m_seekEvent, m_seekEnded, m_bStop, m_bEndOfInput,
                       source, sourceFailed, cacheReachEOF>>
    BY <1>5 DEF WriteStopped, SeekKept, cacheVars, seekVars, clientVars
  <2>2. Follows => Follows'
    BY <2>1 DEF Follows
  <2>3. QED BY <1>d, <2>1, <2>2, QuietStep
<1>w. CASE Wrote
  <2>1. /\ SeekKept /\ pc = "wrote"
        /\ UNCHANGED <<m_beg, m_end, m_buf, m_seekEvent, m_seekEnded, m_bStop, m_bEndOfInput,
                       source, sourceFailed, cacheReachEOF>>
        /\ \/ (m_seekEvent \/ buffer.len = 0) /\ pc' = "top"
           \/ pc' = "write" /\ UNCHANGED buffer
    BY <1>w DEF Wrote, SeekKept, cacheVars, seekVars, clientVars
  <2>2. Follows => Follows'
    BY <1>t, <2>1 DEF Follows, GoesOn
  <2>3. QED BY <1>d, <2>1, <2>2, QuietStep
<1>6. CASE SeekAtEof
  <2>1. /\ SeekKept /\ pc = "eof" /\ m_seekEvent /\ pc' = "top" /\ m_seekEvent' = TRUE
        /\ m_bEndOfInput' = FALSE
        /\ UNCHANGED <<m_beg, m_end, m_buf, m_seekEnded, m_bStop, sourceFailed>>
    BY <1>6 DEF SeekAtEof, SeekKept, SeekEventKept, EndOfInputCleared, clientVars
  <2>2. m_seekEvent' = m_seekEvent
    BY <2>1 DEF IInv, TypeOK
  <2>3. Follows => Follows'
    BY <2>1 DEF Follows
  <2>4. QED BY <1>d, <2>1, <2>2, <2>3, QuietStep
<1>7. CASE Exit
  <2>1. /\ SeekKept /\ m_bStop /\ pc' = "done" /\ m_seekEnded' = TRUE
        /\ UNCHANGED <<m_beg, m_end, m_buf, m_seekEvent, m_bStop, sourceFailed>>
    BY <1>7 DEF Exit, SeekKept, clientVars
  <2>2. TargetsInFile'
    BY <1>d, <2>1 DEF TargetsInFile, SeekKept
  <2>3. ~sourceFailed => SeekInHand' /\ Follows'
    BY <1>d, <2>1 DEF SeekInHand, Follows, SeekKept
  <2>4. QED BY <2>1, <2>2, <2>3 DEF DataInv, Holds
<1>8. QED
  BY <1>1, <1>2, <1>3, <1>4, <1>5, <1>6, <1>7, <1>w, HandleSeekInv, WriteInv DEF Process

-----------------------------------------------------------------------------
(* The client                                                              *)

(* What a step of the client leaves to Process.                            *)
DataKept == UNCHANGED <<m_beg, m_end, m_buf, m_bEndOfInput, writerVars>>

(* A step of the client keeps the invariant if it takes back neither the   *)
(* end nor a seek that Process has not seen.                               *)
LEMMA ClientQuietStep ==
  ASSUME DataInv, DataKept, TargetsInFile',
         ~sourceFailed => /\ SeekInHand'
                          /\ m_seekEvent => m_seekEvent'
                          /\ m_bStop => m_bStop'
  PROVE  DataInv'
<1>1. m_bEndOfInput' => pc' \in {"eof", "done"}
  BY DEF DataInv, DataKept, writerVars
<1>2. ASSUME ~sourceFailed' PROVE SeekInHand' /\ Follows' /\ Holds'
  <2>1. ~sourceFailed /\ SeekInHand' /\ Follows /\ Holds
    BY <1>2 DEF DataInv, DataKept, writerVars
  <2>2. Follows'
    BY <2>1 DEF Follows, GoesOn, DataKept, writerVars
  <2>3. Holds'
    BY <2>1 DEF Holds, DataKept
  <2>4. QED BY <2>1, <2>2, <2>3
<1>3. QED BY <1>1, <1>2 DEF DataInv

(* The seek of the client ends when nothing is asked of Process.           *)
LEMMA FinishSeekInv ==
  ASSUME DataInv, FinishSeek, DataKept, client \in {"asked", "rest", "restWait"},
         ~sourceFailed => ~m_seekEvent /\ ~m_seekEnded'
  PROVE  DataInv'
<1>1. /\ client' = "idle" /\ m_seekEvent' = FALSE
      /\ UNCHANGED <<m_seekPos, target, m_bStop>>
  BY DEF FinishSeek, Return
<1>2. TargetsInFile'
  BY <1>1 DEF DataInv, TargetsInFile
<1>3. ~sourceFailed => SeekInHand' /\ ~m_seekEvent
  BY <1>1 DEF DataInv, SeekInHand
<1>4. QED BY <1>1, <1>2, <1>3, ClientQuietStep

LEMMA ClientInv ==
  ASSUME Target \subseteq Nat, IInv, DataInv, ClientStep \/ NewOperation
  PROVE  DataInv'
<1>t. m_seekEvent \in BOOLEAN /\ m_seekEnded \in BOOLEAN /\ m_bStop \in BOOLEAN
  BY DEF IInv, TypeOK
<1>d. TargetsInFile /\ (~sourceFailed => SeekInHand)
  BY DEF DataInv
<1>1. ASSUME DataKept, target' \in Nat, UNCHANGED <<m_seekPos, m_seekEvent, m_seekEnded, m_bStop>>,
             client \notin {"asked", "closing", "closed"},
             client' \notin {"asked", "closing", "closed"}
      PROVE  DataInv'
  <2>1. TargetsInFile'
    BY <1>1, <1>d DEF TargetsInFile
  <2>2. ~sourceFailed => SeekInHand'
    BY <1>1, <1>d DEF SeekInHand
  <2>3. QED BY <1>1, <2>1, <2>2, ClientQuietStep
<1>2. CASE ReadSome
  BY <1>2, <1>1, <1>d DEF ReadSome, ReadFromCache, DataKept, TargetsInFile
<1>3. CASE ReadBlocks \/ ReadWaited \/ SeekToReadPos
  <2>1. DataKept /\ UNCHANGED <<target, m_seekPos, m_seekEvent, m_seekEnded, m_bStop>>
    BY <1>3 DEF ReadBlocks, ReadWaited, SeekToReadPos, DataKept, cacheVars, seekVars
  <2>2. client \in {"idle", "wait"} /\ client' \in {"idle", "wait", "retry"}
    BY <1>3 DEF ReadBlocks, ReadWaited, SeekToReadPos, Return
  <2>3. QED BY <2>1, <2>2, <1>1, <1>d DEF TargetsInFile
<1>4. ASSUME NEW t \in Nat, SeekHits(t) \/ SeekMisses(t), client \in {"idle", "seekWait"}
      PROVE  DataInv'
  <2>1. DataKept /\ UNCHANGED <<m_seekPos, m_seekEvent, m_seekEnded, m_bStop>>
    BY <1>4 DEF SeekHits, SeekMisses, DataKept, cacheVars
  <2>2. client' \in {"idle", "missed"} /\ target' \in {target, t}
    BY <1>4 DEF SeekHits, SeekMisses, Return
  <2>3. QED BY <2>1, <2>2, <1>1, <1>4, <1>d DEF TargetsInFile
<1>5. ASSUME NEW t \in Nat, SeekAheadOfData(t) PROVE DataInv'
  BY <1>5, <1>1 DEF SeekAheadOfData, DataKept, seekVars
<1>6. ASSUME NEW t \in Target, Seek(t) PROVE DataInv'
  BY <1>4, <1>5, <1>6 DEF Seek
<1>7. CASE SeekWaited
  BY <1>4, <1>7, <1>d DEF SeekWaited, TargetsInFile
<1>8. CASE AskForSeek
  <2>1. /\ DataKept /\ client = "missed" /\ client' = "asked" /\ m_seekEvent' = TRUE
        /\ m_seekPos' = Least(target, Greatest(0, Length - m_chunkSize))
        /\ UNCHANGED <<m_seekEnded, m_bStop, target>>
    BY <1>8 DEF AskForSeek, DataKept, cacheVars
  <2>2. Least(target, Greatest(0, Length - m_chunkSize)) \in 0 .. Length
    BY <1>d, Sizes DEF TargetsInFile, Least, Greatest
  <2>3. TargetsInFile'
    BY <1>d, <2>1, <2>2 DEF TargetsInFile
  <2>4. ~sourceFailed => SeekInHand'
    BY <1>d, <2>1 DEF SeekInHand
  <2>5. QED BY <2>1, <2>3, <2>4, ClientQuietStep
<1>9. CASE SeekEnded
  <2>1. /\ DataKept /\ client = "asked" /\ m_seekEnded /\ m_seekEnded' = FALSE
    BY <1>9 DEF SeekEnded, FinishSeek, DataKept, cacheVars
  <2>2. ~sourceFailed => ~m_seekEvent /\ ~m_seekEnded'
    BY <1>d, <2>1 DEF SeekInHand
  <2>3. CASE FinishSeek
    BY <2>1, <2>2, <2>3, FinishSeekInv
  <2>4. CASE client' = "rest" /\ UNCHANGED <<m_seekEvent, m_seekPos, m_bStop, target>>
    <3>1. TargetsInFile'
      BY <1>d, <2>4 DEF TargetsInFile
    <3>2. ~sourceFailed => SeekInHand'
      BY <1>d, <2>1, <2>2, <2>4 DEF SeekInHand
    <3>3. QED BY <2>1, <2>4, <3>1, <3>2, ClientQuietStep
  <2>5. QED BY <1>9, <2>3, <2>4 DEF SeekEnded
<1>10. CASE RestMissing \/ RestWaits
  <2>1. DataKept /\ UNCHANGED <<target, m_seekPos, m_seekEvent, m_seekEnded, m_bStop>>
    BY <1>10 DEF RestMissing, RestWaits, DataKept, cacheVars, seekVars
  <2>2. client = "rest" /\ client' \in {"idle", "restWait"}
    BY <1>10 DEF RestMissing, RestWaits, Return
  <2>3. QED BY <2>1, <2>2, <1>1, <1>d DEF TargetsInFile
<1>11. CASE RestDone
  <2>1. /\ DataKept /\ client \in {"rest", "restWait"} /\ FinishSeek
        /\ m_seekEnded' = m_seekEnded
    BY <1>11 DEF RestDone, FinishSeek, DataKept
  <2>2. ~sourceFailed => ~m_seekEvent /\ ~m_seekEnded'
    BY <1>d, <2>1 DEF SeekInHand
  <2>3. QED BY <2>1, <2>2, FinishSeekInv
<1>12. CASE Close \/ Closed
  <2>1. /\ DataKept /\ client' \in {"closing", "closed"}
        /\ UNCHANGED <<target, m_seekPos, m_seekEnded>>
        /\ (m_seekEvent => m_seekEvent') /\ (m_bStop => m_bStop')
    BY <1>12 DEF Close, Closed, DataKept, cacheVars, seekVars
  <2>2. TargetsInFile'
    BY <1>d, <2>1 DEF TargetsInFile
  <2>3. ~sourceFailed => SeekInHand'
    BY <2>1 DEF SeekInHand
  <2>4. QED BY <2>1, <2>2, <2>3, ClientQuietStep
<1>13. QED
  BY <1>2, <1>3, <1>6, <1>7, <1>8, <1>9, <1>10, <1>11, <1>12 DEF ClientStep, NewOperation

-----------------------------------------------------------------------------
(* The theorems                                                            *)

LEMMA NextDataInv ==
  ASSUME Target \subseteq Nat, IInv, DataInv, [Next]_vars
  PROVE  DataInv'
<1>1. CASE UNCHANGED vars
  <2>1. DataKept /\ UNCHANGED <<client, target, m_seekPos, m_seekEvent, m_seekEnded, m_bStop>>
    BY <1>1 DEF vars, DataKept, cacheVars, seekVars, clientVars
  <2>2. TargetsInFile' /\ (~sourceFailed => SeekInHand')
    BY <2>1 DEF DataInv, TargetsInFile, SeekInHand
  <2>3. QED BY <2>1, <2>2, ClientQuietStep
<1>2. QED BY <1>1, ProcessInv, ClientInv DEF Next

LEMMA DataInvariant ==
  ASSUME Target \subseteq Nat
  PROVE  Spec => []DataInv
<1>1. IInv /\ DataInv /\ [Next]_vars => DataInv'
  BY NextDataInv
<1> QED
  BY <1>1, InitDataInv, IInvariant, PTL DEF Spec

(* As long as the source works, every position of the cache holds the byte *)
(* of the file at that position: CCircularCache::WriteToCache, at the wrap *)
(* point and after every seek of CFileCache::Process.                      *)
THEOREM CacheIsTheFile ==
  ASSUME Target \subseteq Nat
  PROVE  Spec => []CacheHoldsTheFile
<1>1. DataInv => CacheHoldsTheFile
  BY DEF DataInv, Holds, CacheHoldsTheFile
<1> QED
  BY <1>1, DataInvariant, PTL

(* Whenever CFileCache::Process is about to read the source, or to write   *)
(* what it has read, that is where the data of the cache ends.             *)
THEOREM SourceIsInPlace ==
  ASSUME Target \subseteq Nat
  PROVE  Spec => []SourceFollowsCache
<1>1. DataInv => SourceFollowsCache
  BY DEF DataInv, Follows, SourceFollowsCache
<1> QED
  BY <1>1, DataInvariant, PTL

(* The end of the input (CCacheStrategy::EndOfInput) is signalled to the   *)
(* reader only when the cache reaches to the end of the file.              *)
THEOREM EndIsTheEnd ==
  ASSUME Target \subseteq Nat
  PROVE  Spec => []EndOfInputIsTrue
<1>1. DataInv => EndOfInputIsTrue
  BY DEF DataInv, Follows, EndOfInputIsTrue
<1> QED
  BY <1>1, DataInvariant, PTL
-----------------------------------------------------------------------------
(***************************************************************************)
(* Read gives the bytes at the position the client counts on.  Between     *)
(* operations the reader's position of the cache is the one CFileCache     *)
(* remembers in m_readPos, and the client's unless its last Seek failed;   *)
(* within a Seek it is anywhere until Process has answered, then where     *)
(* Process was asked to go, and the rest of the way goes to the target.    *)
(***************************************************************************)

AtSeekPos == m_cur = m_seekPos /\ m_readPos = m_seekPos

InPlace ==
    /\ client \in {"idle", "wait", "retry"} => m_cur = m_readPos /\ at \in {None, m_cur}
    /\ client \in {"asked", "rest", "restWait"} => m_seekPos <= target
    /\ client = "asked" /\ m_seekEnded => AtSeekPos
    /\ client = "rest" => AtSeekPos
    /\ client = "restWait" => m_cur = target

PositionInv == m_seekPossible /\ ~sourceFailed => InPlace

(* What Process leaves alone outside of a seek.                            *)
PlaceKept == UNCHANGED <<m_cur, m_readPos, m_seekPos, client, target, at>>

LEMMA InitPositionInv == Init => PositionInv
BY DEF Init, CacheInit, PositionInv, InPlace, None

(* No seek is answered but by Process itself.                              *)
LEMMA PlaceKeptInv ==
  ASSUME PositionInv, PlaceKept,
         m_seekPossible' => m_seekPossible, ~sourceFailed' => ~sourceFailed,
         ~sourceFailed' /\ m_seekEnded' => m_seekEnded \/ client # "asked"
  PROVE  PositionInv'
<1> SUFFICES ASSUME m_seekPossible', ~sourceFailed' PROVE InPlace'
  BY DEF PositionInv
<1>1. InPlace
  BY DEF PositionInv
<1> QED
  BY <1>1 DEF InPlace, AtSeekPos, PlaceKept

(* The seek of Process takes the reader where it was asked to go, unless   *)
(* the source fails: the position was within the file.                     *)
LEMMA HandleSeekPlaces ==
  ASSUME IInv, DataInv, PositionInv, HandleSeek
  PROVE  PositionInv'
<1>1. SUFFICES ASSUME m_seekPossible', ~sourceFailed' PROVE InPlace'
  BY DEF PositionInv
<1>t. sourceFailed \in BOOLEAN /\ m_seekPossible \in BOOLEAN /\ m_seekPos \in Int
      /\ m_beg \in Int /\ m_end \in Int /\ m_cur \in Int
  BY DEF IInv, TypeOK
<1>2. /\ m_seekEvent /\ UNCHANGED <<client, target, at, m_seekPos>>
  BY DEF HandleSeek, clientVars
<1>3. ~sourceFailed /\ m_seekPossible
  BY <1>1, <1>t DEF HandleSeek, SourceSeek
<1>4. InPlace /\ SeekInHand /\ Follows /\ m_seekPos \in 0 .. Length
  BY <1>3 DEF PositionInv, DataInv, TargetsInFile
<1>5. client \in {"asked", "closing", "closed"}
  BY <1>2, <1>4 DEF SeekInHand
<1>6. cacheMaxPos \in 0 .. Length
  BY <1>4 DEF cacheMaxPos, CachedDataEndPosIfSeekTo, Follows
<1>7. CacheSeek
  <2>1. CASE cacheMaxPos = Length
    BY <2>1 DEF HandleSeek
  <2>2. CASE cacheMaxPos # Length
    <3>1. PICK r \in {cacheMaxPos, None} :
            /\ SourceSeek(cacheMaxPos, r)
            /\ r = cacheMaxPos => CacheSeek
      BY <2>2 DEF HandleSeek
    <3>2. r = cacheMaxPos
      BY <1>1, <1>6, <3>1 DEF SourceSeek, None
    <3>3. QED BY <3>1, <3>2
  <2>3. QED BY <2>1, <2>2
<1>8. AtSeekPos'
  BY <1>2, <1>7 DEF CacheSeek, Reset, AtSeekPos
<1> QED
  BY <1>2, <1>4, <1>5, <1>8 DEF InPlace

LEMMA ProcessPlaces ==
  ASSUME IInv, DataInv, PositionInv, Process
  PROVE  PositionInv'
<1>1. CASE HandleSeek
  BY <1>1, HandleSeekPlaces
<1>2. CASE Continue \/ NoSeekWanted \/ CacheFull \/ ReadSource \/ ReadSourceFails \/ Wrote \/
           WriteStopped
  <2>1. PlaceKept /\ UNCHANGED <<m_seekPossible, m_seekEnded>>
    BY <1>2 DEF Continue, NoSeekWanted, CacheFull, ReadSource, ReadSourceFails, Wrote, WriteStopped,
                PlaceKept, cacheVars, seekVars, clientVars
  <2>2. ~sourceFailed' => ~sourceFailed
    BY <1>2 DEF Continue, NoSeekWanted, CacheFull, ReadSource, ReadSourceFails, Wrote, WriteStopped
  <2>3. QED BY <2>1, <2>2, PlaceKeptInv
<1>3. CASE HitEof \/ SeekAtEof
  <2>1. PlaceKept /\ UNCHANGED <<m_seekPossible, m_seekEnded, sourceFailed>>
    BY <1>3 DEF HitEof, SeekAtEof, PlaceKept, seekVars, clientVars
  <2>2. QED BY <2>1, PlaceKeptInv
<1>4. CASE Write
  <2>1. PlaceKept /\ UNCHANGED <<m_seekPossible, m_seekEnded, sourceFailed>>
    BY <1>4 DEF Write, WriteToCache, PlaceKept, seekVars, clientVars
  <2>2. QED BY <2>1, PlaceKeptInv
<1>5. CASE Exit
  <2>1. PlaceKept /\ m_bStop /\ UNCHANGED <<m_seekPossible, sourceFailed>>
    BY <1>5 DEF Exit, PlaceKept, clientVars
  <2>2. ~sourceFailed => client # "asked"
    BY <2>1 DEF DataInv, SeekInHand
  <2>3. QED BY <2>1, <2>2, PlaceKeptInv
<1> QED
  BY <1>1, <1>2, <1>3, <1>4, <1>5 DEF Process

(* The steps of the client.  A Seek that ends takes the reader to its      *)
(* target or, having failed, leaves it where m_readPos says.               *)
LEMMA ClientPlaces ==
  ASSUME Target \subseteq Nat, IInv, DataInv, PositionInv, ClientStep \/ NewOperation
  PROVE  PositionInv'
<1>t. /\ m_beg \in Int /\ m_cur \in Int /\ m_end \in Int /\ m_readPos \in Int /\ at \in Int
      /\ m_seekPos \in Int /\ target \in Nat /\ m_beg <= m_cur /\ m_cur <= m_end
  BY DEF IInv, TypeOK, CacheBounds, DataInv, TargetsInFile
<1>u. UNCHANGED <<m_seekPossible, sourceFailed>>
  BY DEF ClientStep, NewOperation, ReadSome, ReadBlocks, ReadWaited, SeekToReadPos, Seek,
         SeekAheadOfData, SeekHits, SeekMisses, SeekWaited, AskForSeek, SeekEnded, FinishSeek,
         RestMissing, RestWaits, RestDone, Close, Closed, writerVars
<1>1. SUFFICES ASSUME m_seekPossible, ~sourceFailed PROVE InPlace'
  BY <1>u DEF PositionInv
<1>i. InPlace /\ SeekInHand
  BY <1>1 DEF PositionInv, DataInv
<1>2. CASE ReadSome
  <2>1. PICK n \in 1 .. Readable :
             /\ m_cur' = m_cur + n /\ m_readPos' = m_readPos + n
             /\ at' = IF at = None THEN None ELSE at + n
    BY <1>2 DEF ReadSome, ReadFromCache
  <2>2. client' = "idle" /\ m_cur = m_readPos /\ at \in {None, m_cur}
    BY <1>2, <1>i DEF ReadSome, InPlace
  <2>3. QED BY <2>1, <2>2 DEF InPlace
<1>3. CASE ReadBlocks \/ ReadWaited \/ SeekToReadPos
  <2>1. /\ client \in {"idle", "wait"} /\ client' \in {"idle", "wait", "retry"}
        /\ UNCHANGED <<m_cur, m_readPos>> /\ at' \in {at, None, m_readPos}
    BY <1>3 DEF ReadBlocks, ReadWaited, SeekToReadPos, Return, cacheVars, seekVars
  <2>2. QED BY <1>i, <2>1 DEF InPlace
<1>4. ASSUME NEW t \in Nat, SeekHits(t) \/ SeekMisses(t) PROVE InPlace'
  <2>1. CASE SeekHits(t)
    BY <2>1 DEF SeekHits, Return, InPlace
  <2>2. CASE SeekMisses(t)
    BY <2>2, <1>1 DEF SeekMisses, InPlace
  <2>3. QED BY <1>4, <2>1, <2>2
<1>5. ASSUME NEW t \in Target, Seek(t) PROVE InPlace'
  <2>1. CASE SeekAheadOfData(t)
    BY <2>1 DEF SeekAheadOfData, InPlace
  <2>2. QED BY <1>4, <1>5, <2>1 DEF Seek
<1>6. CASE SeekWaited
  BY <1>4, <1>6, <1>t DEF SeekWaited
<1>7. CASE AskForSeek
  <2>1. /\ client = "missed" /\ client' = "asked" /\ UNCHANGED <<m_seekEnded, target>>
        /\ m_seekPos' = Least(target, Greatest(0, Length - m_chunkSize))
    BY <1>7 DEF AskForSeek
  <2>2. m_seekPos' <= target'
    BY <1>t, <2>1, Sizes DEF Least, Greatest
  <2>3. ~m_seekEnded'
    BY <1>i, <2>1 DEF SeekInHand
  <2>4. QED BY <2>1, <2>2, <2>3 DEF InPlace
<1>8. CASE SeekEnded
  <2>1. /\ client = "asked" /\ UNCHANGED <<m_cur, m_seekPos, target>>
        /\ AtSeekPos /\ m_seekPos <= target
    BY <1>8, <1>i DEF SeekEnded, FinishSeek, cacheVars, InPlace
  <2>2. CASE ~RestLeft /\ FinishSeek
    <3>1. m_cur' = target
      BY <1>t, <2>1, <2>2 DEF RestLeft, AtSeekPos
    <3>2. client' = "idle" /\ m_readPos' = target /\ at' \in {None, target}
      BY <2>2 DEF FinishSeek, Return
    <3>3. QED BY <3>1, <3>2 DEF InPlace
  <2>3. CASE client' = "rest" /\ UNCHANGED m_readPos
    BY <2>1, <2>3 DEF InPlace, AtSeekPos
  <2>4. QED BY <1>8, <2>2, <2>3 DEF SeekEnded
<1>9. CASE RestMissing
  <2>1. client = "rest" /\ client' = "idle" /\ at' = None /\ UNCHANGED <<m_cur, m_readPos>>
    BY <1>9 DEF RestMissing, Return, cacheVars, seekVars
  <2>2. QED BY <1>i, <2>1 DEF InPlace, AtSeekPos
<1>10. CASE RestWaits
  <2>1. /\ client = "rest" /\ client' = "restWait" /\ m_cur' = m_end
        /\ UNCHANGED <<m_seekPos, target>>
        /\ m_end - m_cur >= target - m_seekPos /\ target >= m_end
    BY <1>10 DEF RestWaits, Front, SeekWaits, seekVars
  <2>2. m_cur = m_seekPos /\ m_seekPos <= target
    BY <1>i, <2>1 DEF InPlace, AtSeekPos
  <2>3. m_end = target
    BY <1>t, <2>1, <2>2
  <2>4. QED BY <2>1, <2>2, <2>3 DEF InPlace
<1>11. CASE RestDone
  <2>1. /\ client' = "idle" /\ m_readPos' = target /\ at' \in {None, target}
        /\ m_cur' = IF IsCachedPosition(target) THEN target ELSE m_cur
    BY <1>11 DEF RestDone, FinishSeek, Return
  <2>2. IsCachedPosition(target)
    <3>1. CASE client = "rest" /\ m_end - m_cur >= target - m_seekPos
      <4>1. m_cur = m_seekPos /\ m_seekPos <= target
        BY <1>i, <3>1 DEF InPlace, AtSeekPos
      <4>2. QED BY <1>t, <3>1, <4>1 DEF IsCachedPosition
    <3>2. CASE client = "restWait"
      BY <1>t, <1>i, <3>2 DEF InPlace, IsCachedPosition
    <3>3. QED BY <1>11, <3>1, <3>2 DEF RestDone, Front
  <2>3. QED BY <2>1, <2>2 DEF InPlace
<1>12. CASE Close \/ Closed
  BY <1>12 DEF Close, Closed, InPlace
<1> QED
  BY <1>2, <1>3, <1>5, <1>6, <1>7, <1>8, <1>9, <1>10, <1>11, <1>12 DEF ClientStep, NewOperation

LEMMA PositionInvariant ==
  ASSUME Target \subseteq Nat
  PROVE  Spec => []PositionInv
<1>1. ASSUME IInv, DataInv, PositionInv, [Next]_vars PROVE PositionInv'
  <2>1. CASE UNCHANGED vars
    BY <1>1, <2>1 DEF vars, PositionInv, InPlace, AtSeekPos, cacheVars, seekVars, writerVars,
                      clientVars
  <2>2. QED BY <1>1, <2>1, ProcessPlaces, ClientPlaces DEF Next
<1>2. IInv /\ DataInv /\ PositionInv /\ [Next]_vars => PositionInv'
  BY <1>1
<1> QED
  BY <1>2, InitPositionInv, IInvariant, DataInvariant, PTL DEF Spec

(* Every Read gives the bytes of the file from the position on that the    *)
(* client asked its last successful Seek for, plus what it has read since: *)
(* CFileCache::Read and Seek, from a source that can seek and has not      *)
(* failed.  (The position that Seek returns may be another one.)           *)
THEOREM ReadsAreRight ==
  ASSUME Target \subseteq Nat
  PROVE  Spec => ReadsTheFile
<1>1. ASSUME IInv, DataInv, PositionInv, m_seekPossible, ~sourceFailed, at # None, ReadSome,
             NEW i \in 0 .. (m_cur' - m_cur) - 1
      PROVE  ByteRead(i) = at + i
  <2>1. /\ m_beg \in Int /\ m_cur \in Int /\ m_end \in Int /\ m_beg <= m_cur
    BY <1>1 DEF IInv, TypeOK, CacheBounds
  <2>2. at = m_cur
    BY <1>1 DEF PositionInv, InPlace, ReadSome
  <2>3. PICK n \in 1 .. Readable : m_cur' = m_cur + n
    BY <1>1 DEF ReadSome, ReadFromCache
  <2>4. Slot(m_cur) \in 0 .. m_size - 1
    BY <2>1, SlotInBuffer
  <2>5. n \in Nat /\ n <= m_size - Slot(m_cur) /\ n <= m_end - m_cur
    BY <2>1, <2>3, <2>4, Sizes DEF Readable, Least, Front
  <2>6. i \in Nat /\ i < n
    BY <1>1, <2>1, <2>3, <2>5
  <2>7. Slot(m_cur) + i < m_size
    BY <2>4, <2>5, <2>6, Sizes
  <2>8. Slot(m_cur + i) = Slot(m_cur) + i
    BY <2>1, <2>6, <2>7, NextSlots
  <2>9. m_cur + i \in m_beg .. m_end - 1
    BY <2>1, <2>5, <2>6
  <2>10. m_buf[Slot(m_cur + i)] = m_cur + i
    BY <1>1, <2>9 DEF DataInv, Holds
  <2>11. QED BY <2>2, <2>8, <2>10 DEF ByteRead
<1>2. IInv /\ DataInv /\ PositionInv /\ [Next]_vars
        => [m_seekPossible /\ ~sourceFailed => ReadRight]_vars
  BY <1>1 DEF ReadRight
<1> QED
  BY <1>2, IInvariant, DataInvariant, PositionInvariant, PTL DEF ReadsTheFile, Spec
=============================================================================
