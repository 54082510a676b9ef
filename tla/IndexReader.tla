----------------------------- MODULE IndexReader -----------------------------
(***************************************************************************)
(* Reading an archive through its index: the binary search of              *)
(* DynamicIndexReader, BufferedDynamicReader with its LRU cache            *)
(* (backup/dynamic_index.rs, tools/lru_cache.rs), AsyncIndexReader         *)
(* (backup/async_index_reader.rs) over a fixed or a dynamic index, and the *)
(* chunk readers below them, which may fail for any chunk                  *)
(* (client/remote_chunk_reader.rs, backup/read_chunk.rs).                  *)
(*                                                                         *)
(* A chunk is its digest; its content is its bytes <<digest, i>>, so that  *)
(* a byte shows where it comes from.  Both readers serve the same sequence *)
(* of seeks and reads, and what a read returns is compared with the        *)
(* archive itself.                                                         *)
(***************************************************************************)
EXTENDS Naturals, Sequences, SequencesExt, FiniteSets

CONSTANTS
    Archives,       \* the archives: sequences of digests
    ChunkLen,       \* length of a chunk, by digest
    CacheSize,      \* capacity of the LRU cache (32 in the code)
    MostUsed,       \* capacity of the chunk cache hint (8 in the code)
    ReadSizes,      \* sizes of the read buffers
    AsyncLoadsFail, \* whether a chunk may fail to load for AsyncIndexReader
    MaxReads        \* bound on the operations

VARIABLES
    index,          \* the archive
    buffered,       \* BufferedDynamicReader
    async,          \* AsyncIndexReader
    remote,         \* RemoteChunkReader::cache
    returned,            \* history: the last read, [at, data, ok]
    reads

idxVars == <<index, buffered, async, remote, returned, reads>>

-----------------------------------------------------------------------------
(* The index.                                                              *)

\* DynamicIndexReader::chunk_end, 0-based as in the code.
ChunkEnd(pos) ==
    LET sum[i \in 0..Len(index)] == IF i = 0 THEN 0 ELSE sum[i - 1] + ChunkLen[index[i]]
    IN  sum[pos + 1]

IndexBytes == IF index = <<>> THEN 0 ELSE ChunkEnd(Len(index) - 1)

\* chunk_info: where a chunk starts and ends.
ChunkInfo(pos) ==
    [start |-> IF pos = 0 THEN 0 ELSE ChunkEnd(pos - 1), end |-> ChunkEnd(pos),
     digest |-> index[pos + 1]]

\* binary_search over the ends of the chunks; NotFound is an error.
NotFound == Len(index)

BinarySearch(offset) ==
    LET search[s \in 0..Len(index), e \in 0..Len(index)] ==
          IF s = e THEN s
          ELSE LET middle == (s + e) \div 2 IN
               IF offset < ChunkEnd(middle) THEN search[s, middle]
                                            ELSE search[middle + 1, e]
    IN  IF offset >= IndexBytes THEN NotFound ELSE search[0, Len(index) - 1]

\* The content of a chunk, and of the archive.
Bytes(digest) == [i \in 1..ChunkLen[digest] |-> <<digest, i>>]
Archive == FlattenSeq([i \in DOMAIN index |-> Bytes(index[i])])

Take(s, from, n) == SubSeq(s, from + 1, IF from + n < Len(s) THEN from + n ELSE Len(s))

-----------------------------------------------------------------------------
(* The chunk readers.                                                      *)

\* find_most_used_chunks: digests used more than once, at most MostUsed of
\* them, in an order the hash map decides.
Repeated == {d \in ToSet(index) : Cardinality({i \in DOMAIN index : index[i] = d}) > 1}
CacheHint == {S \in SUBSET Repeated :
                Cardinality(S) = IF Cardinality(Repeated) < MostUsed
                                 THEN Cardinality(Repeated) ELSE MostUsed}

\* RemoteChunkReader::read_chunk: a hinted chunk is kept after it was
\* downloaded, checked for its crypt mode and decoded with its digest.
MayLoad(d, fails) == d \in remote.cache \/ ~fails
Loaded(d) == remote' = [remote EXCEPT
                !.cache = IF d \in remote.hint THEN @ \cup {d} ELSE @]

-----------------------------------------------------------------------------
(* LruCache, most recent first.                                            *)

\* access: bring_to_front, or push_front and pop_tail beyond the capacity.
LruAccess(lru, key) ==
    LET front == <<key>> \o SelectSeq(lru, LAMBDA k: k # key)
    IN  SubSeq(front, 1, IF Len(front) < CacheSize THEN Len(front) ELSE CacheSize)

-----------------------------------------------------------------------------
\* What a read returned: bytes, where none is the end of the file, or an error.
AnswerRead(at, data) == [at |-> at, data |-> data, ok |-> TRUE]
NoRead(at) == [at |-> at, data |-> <<>>, ok |-> FALSE]

IdxInit ==
    /\ index \in Archives
    /\ buffered = [idx |-> 0, start |-> 0, data |-> <<>>, offset |-> 0, lru |-> <<>>]
    /\ async = [st |-> "NoData", info |-> <<>>, idx |-> 0, offset |-> 0,
                pos |-> 0, data |-> <<>>, store |-> TRUE]
    /\ \E h \in CacheHint: remote = [hint |-> h, cache |-> {}]
    /\ returned = NoRead(0)
    /\ reads = 0

\* seek of both readers; a position behind the end is an error of the one and
\* the end for the other, and both accept the end itself.  A caller that
\* gives up a read while its chunk is loaded drops the load and the store.
Seek(pos) ==
    /\ reads < MaxReads /\ pos <= IndexBytes
    /\ async.st = "WaitForData" => AsyncLoadsFail
    /\ reads' = reads + 1
    /\ buffered' = [buffered EXCEPT !.offset = pos]
    /\ async' = [async EXCEPT !.pos = pos, !.st = "NoData"]
    /\ returned' = NoRead(pos)
    /\ UNCHANGED <<index, remote>>

-----------------------------------------------------------------------------
(* BufferedDynamicReader.                                                  *)

\* buffered_read: which chunk serves an offset: the buffered one, the next
\* one, or the result of the binary search.
BufferEnd == buffered.start + Len(buffered.data)

\* MUTANT: the chunk after the buffered one is taken without looking at its end.
ChunkFor_Next(offset) ==
    IF /\ buffered.data # <<>> /\ offset >= buffered.start /\ offset < BufferEnd
    THEN buffered.idx
    ELSE IF /\ buffered.data # <<>> /\ buffered.idx + 1 < Len(index)
            /\ offset >= BufferEnd
    THEN buffered.idx + 1
    ELSE BinarySearch(offset)

ChunkFor(offset) ==
    IF /\ buffered.data # <<>> /\ offset >= buffered.start /\ offset < BufferEnd
    THEN buffered.idx
    ELSE IF /\ buffered.data # <<>> /\ buffered.idx + 1 < Len(index)
            /\ offset >= BufferEnd /\ offset < ChunkEnd(buffered.idx + 1)
    THEN buffered.idx + 1
    ELSE BinarySearch(offset)

\* buffer_chunk: through the cache; an error leaves the buffer as it was.
BufferChunk(idx) ==
    LET info == ChunkInfo(idx) IN
    IF buffered.data # <<>> /\ idx = buffered.idx THEN buffered
    ELSE [buffered EXCEPT !.idx = idx, !.start = info.start,
                          !.data = Bytes(info.digest), !.lru = LruAccess(@, idx)]

\* read
ReadBuffered(n) ==
    /\ reads < MaxReads /\ reads' = reads + 1
    /\ LET at == buffered.offset IN
       IF at = IndexBytes
       THEN returned' = AnswerRead(at, <<>>) /\ UNCHANGED <<buffered, remote>>
       ELSE LET idx == ChunkFor(at)
                d == index[idx + 1]
                cached == idx \in ToSet(buffered.lru) \/ (buffered.data # <<>> /\ idx = buffered.idx)
            IN  \/ /\ cached \/ MayLoad(d, FALSE)
                   /\ LET b == BufferChunk(idx)
                          data == Take(b.data, at - b.start, n)
                      IN  /\ buffered' = [b EXCEPT !.offset = at + Len(data)]
                          /\ returned' = AnswerRead(at, data)
                   /\ IF cached THEN UNCHANGED remote ELSE Loaded(d)
                \/ /\ ~cached /\ ~MayLoad(d, TRUE)
                   /\ returned' = NoRead(at)
                   /\ UNCHANGED <<buffered, remote>>
    /\ UNCHANGED <<index, async>>

-----------------------------------------------------------------------------
(* AsyncIndexReader::poll_read.                                            *)

\* state NoData: the next chunk of a sequential read, or chunk_from_offset.
\* A chunk with the digest of the current one is not loaded again.
FindChunk ==
    /\ async.st = "NoData" /\ reads < MaxReads
    /\ LET idx == IF async.info # <<>> /\ async.pos = async.info[1].end
                  THEN async.idx + 1 ELSE BinarySearch(async.pos)
           offset == IF async.info # <<>> /\ async.pos = async.info[1].end
                     THEN 0 ELSE async.pos - ChunkInfo(idx).start
       IN  IF idx >= Len(index)
           THEN /\ returned' = AnswerRead(async.pos, <<>>)
                /\ reads' = reads + 1
                /\ UNCHANGED async
           ELSE /\ LET info == ChunkInfo(idx)
                       hit == async.info # <<>> /\ async.info[1].digest = info.digest
                   IN  IF hit \/ async.store
                       THEN async' = [async EXCEPT !.info = <<info>>, !.idx = idx,
                               !.offset = offset, !.store = hit /\ @,
                               !.st = IF hit THEN "HaveData" ELSE "WaitForData"]
                       ELSE async' = [async EXCEPT !.info = <<info>>, !.idx = idx,
                               !.offset = offset]
                /\ UNCHANGED <<returned, reads>>
    /\ UNCHANGED <<index, buffered, remote>>

\* state WaitForData: the chunk arrives and the store comes back with it, or
\* the read fails and the store is gone with the future.
LoadChunk ==
    /\ async.st = "WaitForData"
    /\ LET d == async.info[1].digest IN
       \/ /\ async' = [async EXCEPT !.st = "HaveData", !.data = Bytes(d), !.store = TRUE]
          /\ Loaded(d)
          /\ UNCHANGED <<returned, reads>>
       \/ /\ AsyncLoadsFail /\ d \notin remote.cache
          /\ returned' = NoRead(async.pos)
          /\ reads' = reads + 1
          /\ async' = [async EXCEPT !.st = "Failed"]
          /\ UNCHANGED remote
    /\ UNCHANGED <<index, buffered>>

\* state HaveData
ReadAsync(n) ==
    /\ async.st = "HaveData" /\ reads < MaxReads
    /\ LET data == Take(async.data, async.offset, n)
           last == async.offset + Len(data) >= Len(async.data)
       IN  /\ returned' = AnswerRead(async.pos, data)
           /\ async' = [async EXCEPT !.pos = @ + Len(data),
                 !.offset = IF last THEN @ ELSE @ + Len(data),
                 !.st = IF last THEN "NoData" ELSE "HaveData"]
    /\ reads' = reads + 1
    /\ UNCHANGED <<index, buffered, remote>>

IdxNext ==
    \/ \E pos \in 0..IndexBytes: Seek(pos)
    \/ \E n \in ReadSizes: ReadBuffered(n) \/ ReadAsync(n)
    \/ FindChunk \/ LoadChunk

IdxSpec == IdxInit /\ [][IdxNext]_idxVars

-----------------------------------------------------------------------------
(* Properties.                                                             *)

\* Whatever was read, sought, cached or failed before, the bytes a read
\* returns are the bytes of the archive at the offset it was asked for, and a
\* read that returns none (the end of the file) is at the archive's end.
ReadsAreRight ==
    returned.ok =>
        /\ returned.data = Take(Archive, returned.at, Len(returned.data))
        /\ returned.data = <<>> => returned.at = IndexBytes
=============================================================================
