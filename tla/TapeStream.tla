----------------------------- MODULE TapeStream -----------------------------
(***************************************************************************)
(* What is on a tape: files that are written in blocks (blocked_writer.rs) *)
(* until the drive warns of the end of the medium, the chunk archives,     *)
(* snapshot archives and multi-volume streams written in them, and what a  *)
(* reader (blocked_reader.rs and the decoders) gets back from them.  Data  *)
(* is counted in units: a block holds Payload of them, and an entry header *)
(* is one.  The drive is the virtual one of the repository's tests.        *)
(***************************************************************************)
EXTENDS Integers, Sequences, FiniteSets, SequencesExt

CONSTANTS Payload,     \* the units in a block
          TapeBlocks,  \* the blocks a tape holds before the end of medium warning
          TapeCount,   \* the tapes, numbered from 1
          StreamJobs,  \* what may be written: records [kind, parts, close]
          MaxStreams   \* bound on what is written

VARIABLES tapes,     \* the files of every tape, sequences of blocks
          drive,     \* the loaded tape, 0 for none, and the file it is at
          writer,    \* the open file
          stream,    \* what is being written
          recorded,  \* what was reported to be on tape
          made       \* the number of streams so far

streamVars == <<tapes, drive, writer, stream, recorded, made>>

Block(seq, data, end, incomplete) == [seq |-> seq, data |-> data, end |-> end, incomplete |-> incomplete]
Smaller(a, b) == IF a < b THEN a ELSE b
Larger(a, b) == IF a > b THEN a ELSE b

----------------------------------------------------------------------------
(* BlockedWriter.  The drive takes two blocks after its first warning.     *)
NewWriter(cap) == [blocks |-> <<>>, buf |-> <<>>, cap |-> cap, leom |-> FALSE, err |-> FALSE]
WriteBlocks(w, bs) ==
  LET fit == Smaller(Len(bs), w.cap + 2 - Len(w.blocks)) IN
  [w EXCEPT !.blocks = @ \o SubSeq(bs, 1, fit),
            !.leom = @ \/ (fit > 0 /\ Len(w.blocks) + fit > w.cap),
            !.err = @ \/ fit < Len(bs)]
\* the full blocks of the data are written, the rest stays in the buffer
WriteAll(w, data) ==
  LET all == w.buf \o data
      n == Len(all) \div Payload
      first == Len(w.blocks) IN
  [WriteBlocks(w, [k \in 1..n |-> Block(first + k - 1, SubSeq(all, (k - 1) * Payload + 1, k * Payload),
                                        FALSE, FALSE)])
   EXCEPT !.buf = SubSeq(all, n * Payload + 1, Len(all))]
FinishFile(w, incomplete) ==
  WriteBlocks(w, <<Block(Len(w.blocks), w.buf, TRUE, incomplete)>>)

----------------------------------------------------------------------------
(* BlockedReader: the data of a file, whether its end marker was found and *)
(* with the incomplete flag.  A block out of sequence, an empty one that   *)
(* is not the end and one that follows the end are errors.                 *)
CheckBuffer(b, seq) == b.seq = seq /\ (b.data = <<>> => b.end)
ReadsBlock(file, i) == CheckBuffer(file[i], i - 1) /\ (file[i].end => i = Len(file))
GoodBlocks(file) == CHOOSE n \in 0..Len(file) :
  /\ \A i \in 1..n : ReadsBlock(file, i)
  /\ n = Len(file) \/ ~ReadsBlock(file, n + 1)
Contents(file) == LET n == GoodBlocks(file) IN
  [data |-> FlattenSeq([i \in 1..n |-> file[i].data]),
   end |-> n > 0 /\ file[n].end,
   incomplete |-> n > 0 /\ file[n].incomplete]

(* ChunkArchiveDecoder: the chunks from a position on; the last one may    *)
(* lack its end, a read error ends everything with an error.               *)
ChunkEntry(c, size) == <<<<"entry", c, size>>>>
ChunkData(c, size) == [k \in 1..size |-> <<"data", c, k>>]
Chunks(data) ==
  LET next_chunk[p \in 1..Len(data) + 1] ==
        IF p > Len(data) \/ data[Smaller(p, Len(data))][1] # "entry" THEN <<>>
        ELSE LET size == data[p][3] IN
             IF p + size > Len(data) THEN <<>> ELSE <<data[p][2]>> \o next_chunk[p + size + 1] IN
  next_chunk[2]    \* after the header of the archive

(* MultiVolumeReader: the parts that follow an incomplete one must have    *)
(* the header of the same stream and the next number.                      *)
Header(id, part) == <<<<"header", id, part>>>>
PartIsRight(data, id, part) == data # <<>> /\ data[1] = Header(id, part)[1]
VolumesRead(files, id) ==
  LET part == [k \in DOMAIN files |-> Contents(tapes[files[k][1]][files[k][2]])] IN
  [data |-> FlattenSeq([k \in DOMAIN files |-> Tail(part[k].data)]),
   ok |-> \A k \in DOMAIN files :
            PartIsRight(part[k].data, id, k - 1) /\ part[k].end /\ (part[k].incomplete <=> k < Len(files))]

----------------------------------------------------------------------------
(* The drive.  Writing a file removes the files after it, and what is free *)
(* is what the files before it leave of the tape.                          *)
Tape == tapes[drive.tape]
UsedBlocks(files) == Len(FlattenSeq(files))
OpenWriter(t, pos) ==
  LET before == SubSeq(tapes[t], 1, pos) IN
  /\ tapes' = [tapes EXCEPT ![t] = Append(before, <<>>)]
  /\ drive' = [tape |-> t, pos |-> pos + 1]
\* what a new writer finds: at least two blocks
Capacity(t, pos) == Larger(2, TapeBlocks - UsedBlocks(SubSeq(tapes[t], 1, pos)))

Idle == stream.at = "none"
NoStream == [at |-> "none", id |-> 0, job |-> [kind |-> "none"], i |-> 0, start |-> 0,
             files |-> <<>>, claimed |-> <<>>]
NoWriter == NewWriter(0)
Same == UNCHANGED <<writer, stream, recorded, made>>

InsertTape(t) == Idle /\ drive.tape # t /\ drive' = [tape |-> t, pos |-> 0] /\ UNCHANGED tapes /\ Same
EjectMedia == Idle /\ drive.tape # 0 /\ drive' = [tape |-> 0, pos |-> 0] /\ UNCHANGED tapes /\ Same
Rewind == Idle /\ drive.pos > 0 /\ drive' = [drive EXCEPT !.pos = 0] /\ UNCHANGED tapes /\ Same
ReadNextFile == /\ Idle /\ drive.tape # 0 /\ drive.pos < Len(Tape)
                /\ drive' = [drive EXCEPT !.pos = @ + 1] /\ UNCHANGED tapes /\ Same
\* the records of a tape that is written from a position on
Keep(t, pos) == {r \in recorded : \A k \in DOMAIN r.files : r.files[k][1] # t \/ r.files[k][2] =< pos}
LabelFile == <<Block(0, <<<<"header", 0, 0>>>>, TRUE, FALSE)>>
EraseTape ==
  /\ Idle /\ drive.tape # 0 /\ Tape # <<>>
  /\ tapes' = [tapes EXCEPT ![drive.tape] = <<>>]
  /\ drive' = [drive EXCEPT !.pos = 0]
  /\ recorded' = Keep(drive.tape, 0)
  /\ UNCHANGED <<writer, stream, made>>
WriteMediaSetLabel ==
  /\ Idle /\ drive.tape # 0 /\ Tape # <<>>
  /\ tapes' = [tapes EXCEPT ![drive.tape] = <<Head(Tape), LabelFile>>]
  /\ drive' = [drive EXCEPT !.pos = 2]
  /\ recorded' = Keep(drive.tape, 1)
  /\ UNCHANGED <<writer, stream, made>>

----------------------------------------------------------------------------
(* Writing.  MoveToEom comes first: the pool writer appends.               *)
MoveToEom(t) == Len(tapes[t])
StartStream(work) ==
  /\ Idle /\ drive.tape # 0 /\ made < MaxStreams
  /\ LET pos == MoveToEom(drive.tape) IN
     /\ OpenWriter(drive.tape, pos)
     /\ writer' = NewWriter(Capacity(drive.tape, pos))
     /\ stream' = [NoStream EXCEPT !.at = work.kind, !.id = made + 1, !.job = work, !.i = 1,
                                   !.files = <<<<drive.tape, pos + 1>>>>]
  /\ made' = made + 1
  /\ UNCHANGED recorded

StoreTape(w) == writer' = w /\ tapes' = [tapes EXCEPT ![drive.tape][drive.pos] = w.blocks]
\* the file is closed and what is on it reported, or the writer fails
Report(w, ok, kind) ==
  /\ stream' = NoStream /\ writer' = NoWriter
  /\ tapes' = [tapes EXCEPT ![drive.tape][drive.pos] = w.blocks]
  /\ recorded' = IF ok /\ ~w.err
                 THEN recorded \union {[files |-> stream.files, kind |-> kind, id |-> stream.id,
                                        job |-> stream.job, claimed |-> stream.claimed]}
                 ELSE recorded
Writes(kind) == stream.at = kind /\ UNCHANGED <<drive, made>>
Parts == stream.job.parts
Piece(size, start) == Smaller(Payload + 1, size - start)

(* ChunkArchiveWriter.  A piece of a chunk is as long as a block with its  *)
(* header; when the drive warns, an archive that closes then reports the   *)
(* chunk only if the piece was its last.                                   *)
ChunkIsComplete_Always(start, size) == TRUE
ChunkIsComplete(start, size) == start + (Payload + 1) > size
ChunkHeader ==
  /\ Writes("chunks") /\ stream.i =< Len(Parts) /\ stream.start = 0
  /\ LET w0 == IF stream.i = 1 THEN WriteAll(writer, Header(stream.id, 0)) ELSE writer
         w == WriteAll(w0, ChunkEntry(stream.i, Parts[stream.i]))
     IN IF w.err THEN Report(w, FALSE, "chunks")
        ELSE StoreTape(w) /\ stream' = [stream EXCEPT !.at = "pieces"] /\ UNCHANGED recorded
ChunkPiece ==
  /\ Writes("pieces")
  /\ LET size == Parts[stream.i]
         end == stream.start + Piece(size, stream.start)
         w == WriteAll(writer, SubSeq(ChunkData(stream.i, size), stream.start + 1, end))
         done == Append(stream.claimed, stream.i)
         closed == FinishFile(w, FALSE)
     IN \/ w.err /\ Report(w, FALSE, "chunks")
        \/ /\ ~w.err /\ w.leom /\ stream.job.close
           /\ stream' = [stream EXCEPT !.at = "closed",
                !.claimed = IF ChunkIsComplete(stream.start, size) THEN done ELSE @]
           /\ StoreTape(closed) /\ UNCHANGED recorded
        \/ /\ ~w.err /\ ~(w.leom /\ stream.job.close)
           /\ stream' = IF end = size THEN [stream EXCEPT !.at = "chunks", !.i = @ + 1, !.start = 0, !.claimed = done]
                        ELSE [stream EXCEPT !.start = end]
           /\ StoreTape(w) /\ UNCHANGED recorded
FinishChunks ==
  \/ Writes("closed") /\ Report(writer, TRUE, "chunks")
  \/ Writes("chunks") /\ stream.i > Len(Parts) /\ Report(FinishFile(writer, FALSE), TRUE, "chunks")

(* tape_write_snapshot_archive: the warning of the drive is an error, and  *)
(* the archive is then closed with the incomplete flag.                    *)
FileEntry(f, size) == <<<<"entry", f, size>>>> \o ChunkData(f, size)
SnapshotData(work, id) == Header(id, 0) \o FlattenSeq([f \in DOMAIN work.parts |-> FileEntry(f, work.parts[f])])
                         \o <<<<"goodbye", 0, 0>>>>
SnapshotPiece ==
  /\ Writes("snapshot") /\ stream.start < Len(SnapshotData(stream.job, stream.id))
  /\ LET all == SnapshotData(stream.job, stream.id)
         end == stream.start + Piece(Len(all), stream.start)
         w == WriteAll(writer, SubSeq(all, stream.start + 1, end))
     IN IF w.leom \/ w.err THEN Report(FinishFile(w, TRUE), w.leom, "partial")
        ELSE StoreTape(w) /\ stream' = [stream EXCEPT !.start = end] /\ UNCHANGED recorded
FinishSnapshot ==
  /\ Writes("snapshot") /\ stream.start = Len(SnapshotData(stream.job, stream.id))
  /\ Report(FinishFile(writer, FALSE), TRUE, "snapshot")

(* MultiVolumeWriter: after a warning the next write ends the part and     *)
(* asks for another volume.                                                *)
VolumeWrite ==
  /\ Writes("volumes") /\ stream.i =< Len(Parts) /\ (writer.leom => stream.start = 0)
  /\ LET w0 == IF stream.start = 0 THEN WriteAll(writer, Header(stream.id, Len(stream.files) - 1)) ELSE writer
         w == WriteAll(w0, ChunkData(stream.i, Parts[stream.i]))
     IN IF w.err THEN Report(w, FALSE, "volumes")
        ELSE /\ StoreTape(w) /\ UNCHANGED recorded
             /\ stream' = [stream EXCEPT !.i = @ + 1, !.start = 1]
NextVolume ==
  /\ stream.at = "volumes" /\ stream.i =< Len(Parts) /\ writer.leom /\ stream.start = 1
  /\ LET w == FinishFile(writer, TRUE)
         t == drive.tape + 1
     IN IF w.err \/ t > TapeCount THEN Report(w, FALSE, "volumes") /\ UNCHANGED drive
        ELSE LET pos == MoveToEom(t) IN
             /\ tapes' = [tapes EXCEPT ![drive.tape][drive.pos] = w.blocks,
                                       ![t] = Append(SubSeq(@, 1, pos), <<>>)]
             /\ drive' = [tape |-> t, pos |-> pos + 1]
             /\ writer' = NewWriter(Capacity(t, pos))
             /\ stream' = [stream EXCEPT !.start = 0, !.files = Append(@, <<t, pos + 1>>)]
             /\ UNCHANGED recorded
  /\ UNCHANGED made
FinishVolumes ==
  /\ Writes("volumes") /\ stream.i > Len(Parts)
  /\ Report(FinishFile(writer, FALSE), TRUE, "volumes")

(* The program stops: the file has no end marker.                          *)
StreamCrash == ~Idle /\ stream' = NoStream /\ writer' = NoWriter /\ UNCHANGED <<tapes, drive, recorded, made>>

----------------------------------------------------------------------------
StreamInit ==
  /\ tapes = [t \in 1..TapeCount |-> <<LabelFile, LabelFile>>]
  /\ drive = [tape |-> 0, pos |-> 0] /\ writer = NoWriter /\ stream = NoStream
  /\ recorded = {} /\ made = 0
StreamNext ==
  \/ \E t \in 1..TapeCount : InsertTape(t)
  \/ EjectMedia \/ Rewind \/ ReadNextFile \/ EraseTape \/ WriteMediaSetLabel
  \/ \E work \in StreamJobs : StartStream(work)
  \/ ChunkHeader \/ ChunkPiece \/ FinishChunks \/ SnapshotPiece \/ FinishSnapshot
  \/ VolumeWrite \/ NextVolume \/ FinishVolumes \/ StreamCrash
StreamSpec == StreamInit /\ [][StreamNext]_streamVars

----------------------------------------------------------------------------
(* What a writer reported is what a reader gets, wherever the end of the   *)
(* medium fell, whatever was appended after it and whatever crashed later: *)
(* the chunks of a chunk archive that were reported, a snapshot archive    *)
(* with its end marker and everything in it, one that ran out of tape with *)
(* the incomplete flag, and the parts of a multi-volume stream in order.   *)
(* One chunk may be readable that was not reported: the one whose last     *)
(* piece ended with the block (chunk_archive.rs compares with >).          *)
ChunksAreThere(r, c) ==
  LET found == Chunks(c.data) IN
  c.end /\ ~c.incomplete /\ Len(found) - Len(r.claimed) \in {0, 1} /\ IsPrefix(r.claimed, found)
RecordedIsReadable ==
  \A r \in recorded : LET c == Contents(tapes[r.files[1][1]][r.files[1][2]]) IN
    CASE r.kind = "chunks" -> ChunksAreThere(r, c)
      [] r.kind = "snapshot" -> c.end /\ ~c.incomplete /\ c.data = SnapshotData(r.job, r.id)
      [] r.kind = "partial" -> c.end /\ c.incomplete
      [] r.kind = "volumes" ->
           VolumesRead(r.files, r.id) =
             [data |-> FlattenSeq([i \in DOMAIN r.job.parts |-> ChunkData(i, r.job.parts[i])]), ok |-> TRUE]
=============================================================================
