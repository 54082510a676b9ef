------------------------------ MODULE Chunker ------------------------------
(***************************************************************************)
(* How the client cuts a stream into chunks (src/backup/chunker.rs and     *)
(* chunk_stream.rs).  The input comes in pieces of any size; a dynamic     *)
(* stream is cut where the rolling hash of the last bytes says so, a fixed *)
(* one by size.  The hash is the buzhash of the code with a narrower word  *)
(* (HashBits for 32 bits), a shorter window, which is a multiple of it,    *)
(* and two byte values.                                                    *)
(***************************************************************************)
EXTENDS Integers, Sequences, SequencesExt

CONSTANTS HashBits,     \* the width of the hash
          WindowSize,   \* the bytes it is computed from
          ByteTable,    \* [byte -> hash word], the code's BUZHASH_TABLE
          ChunkMin, ChunkMax, BreakTest, \* the sizes and the words that end a chunk
          FixedSize,    \* the size of the chunks of a fixed stream
          PieceSizes,   \* the sizes of the pieces of the input
          StreamLength  \* bound on the bytes of the input

ASSUME WindowIsAligned == WindowSize % HashBits = 0

VARIABLES fixed,    \* the kind of the stream
          input,    \* the bytes the stream has had so far
          buffer,   \* the bytes that are not cut yet
          scanPos,  \* how many of them were scanned
          scanner,  \* the state of the chunker
          chunks,   \* the chunks, in order
          closed    \* the input has ended

chunkerVars == <<fixed, input, buffer, scanPos, scanner, chunks, closed>>

Byte == DOMAIN ByteTable
Bits == 0..HashBits - 1
ZeroHash == [b \in Bits |-> 0]
Xor(g, h) == [b \in Bits |-> (g[b] + h[b]) % 2]
RotateLeft(h, n) == [b \in Bits |-> h[(b - n) % HashBits]]

----------------------------------------------------------------------------
NewScanner == [h |-> ZeroHash, filled |-> 0, size |-> 0, window |-> [i \in 0..WindowSize - 1 |-> 0], cut |-> 0]

ShallBreak(s) == s.size >= ChunkMax \/ (s.size >= ChunkMin /\ s.h \in BreakTest)

(* After a break the hash and the window start anew; the bytes in the      *)
(* window stay, they are overwritten before they are used.                 *)
Reset_NoWindow(s) == [s EXCEPT !.h = ZeroHash, !.size = 0]
Reset(s) == [s EXCEPT !.h = ZeroHash, !.size = 0, !.filled = 0]

\* a byte while the window is being filled: no break is possible
Fill(s, byte) == [s EXCEPT !.h = Xor(RotateLeft(@, 1), ByteTable[byte]),
                           !.window[s.filled] = byte, !.filled = @ + 1, !.size = @ + 1]
\* a byte that replaces the oldest one of the full window
Roll(s, byte) ==
  LET idx == s.size % WindowSize IN
  [s EXCEPT !.h = Xor(Xor(RotateLeft(@, 1), ByteTable[s.window[idx]]), ByteTable[byte]),
            !.window[idx] = byte, !.size = @ + 1]

(* scan: the position of the first break in the data, 0 when there is none. *)
ScanByte(s, byte, pos) ==
  IF s.cut # 0 THEN s
  ELSE IF s.filled < WindowSize THEN Fill(s, byte)
  ELSE LET r == Roll(s, byte) IN IF ShallBreak(r) THEN [Reset(r) EXCEPT !.cut = pos] ELSE r
Scan(s, data) ==
  LET after[n \in 0..Len(data)] == IF n = 0 THEN [s EXCEPT !.cut = 0] ELSE ScanByte(after[n - 1], data[n], n)
  IN after[Len(data)]

----------------------------------------------------------------------------
(* ChunkStream::poll_next: what was not scanned yet is scanned; a chunk is *)
(* taken off the buffer, and the next scan starts after it.                *)
ScanStart(pos) == pos
NextChunk ==
  /\ ~fixed /\ scanPos < Len(buffer)
  /\ LET from == ScanStart(scanPos)
         s == Scan(scanner, SubSeq(buffer, from + 1, Len(buffer)))
         size == from + s.cut IN
     /\ scanner' = [s EXCEPT !.cut = 0]
     /\ IF s.cut = 0 THEN scanPos' = Len(buffer) /\ UNCHANGED <<buffer, chunks>>
        ELSE /\ chunks' = Append(chunks, SubSeq(buffer, 1, size))
             /\ buffer' = SubSeq(buffer, size + 1, Len(buffer))
             /\ scanPos' = 0
  /\ UNCHANGED <<fixed, input, closed>>

NextFixedChunk ==
  /\ fixed /\ Len(buffer) >= FixedSize
  /\ chunks' = Append(chunks, SubSeq(buffer, 1, FixedSize))
  /\ buffer' = SubSeq(buffer, FixedSize + 1, Len(buffer))
  /\ UNCHANGED <<fixed, input, scanPos, scanner, closed>>

\* more input is asked for when there is nothing left to scan or to cut
NeedsInput == ~closed /\ IF fixed THEN Len(buffer) < FixedSize ELSE scanPos >= Len(buffer)
Receive ==
  /\ NeedsInput
  /\ \E n \in PieceSizes : Len(input) + n =< StreamLength /\ \E piece \in [1..n -> Byte] :
       /\ input' = input \o piece
       /\ buffer' = buffer \o piece
  /\ UNCHANGED <<fixed, scanPos, scanner, chunks, closed>>

\* the end of the input: the rest is the last chunk
EndOfInput ==
  /\ NeedsInput
  /\ closed' = TRUE /\ scanPos' = 0
  /\ chunks' = IF buffer = <<>> THEN chunks ELSE Append(chunks, buffer)
  /\ buffer' = <<>>
  /\ UNCHANGED <<fixed, input, scanner>>

ChunkerInit ==
  /\ fixed \in BOOLEAN /\ input = <<>> /\ buffer = <<>> /\ scanPos = 0
  /\ scanner = NewScanner /\ chunks = <<>> /\ closed = FALSE
ChunkerNext == NextChunk \/ NextFixedChunk \/ Receive \/ EndOfInput
ChunkerSpec == ChunkerInit /\ [][ChunkerNext]_chunkerVars

----------------------------------------------------------------------------
(* Deduplication needs the same data to be cut the same way.  The cuts of  *)
(* a finished stream are a function of its bytes, whatever pieces they     *)
(* came in and whatever was scanned before: each chunk ends at the first   *)
(* place where it has the maximal size, or at least the minimal one and a  *)
(* hash, taken from its own last bytes only, that ends it; the chunks are  *)
(* the stream; and a fixed stream has chunks of one size but for the last. *)
HashOf(bytes) ==
  LET h[n \in 0..Len(bytes)] == IF n = 0 THEN ZeroHash
                                ELSE Xor(h[n - 1], RotateLeft(ByteTable[bytes[n]], Len(bytes) - n))
  IN h[Len(bytes)]
EndsAt(chunk, n) ==
  /\ n > WindowSize
  /\ \/ n >= ChunkMax
     \/ n >= ChunkMin /\ HashOf(SubSeq(chunk, n - WindowSize + 1, n)) \in BreakTest
CutsAreCanonical ==
  closed =>
    /\ FlattenSeq(chunks) = input
    /\ \A i \in DOMAIN chunks : LET c == chunks[i] IN
         IF fixed THEN Len(c) = FixedSize \/ (i = Len(chunks) /\ Len(c) < FixedSize)
         ELSE /\ \A n \in 1..Len(c) - 1 : ~EndsAt(c, n)
              /\ EndsAt(c, Len(c)) \/ i = Len(chunks)
=============================================================================
