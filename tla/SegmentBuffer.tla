---------------------------- MODULE SegmentBuffer ----------------------------
(***************************************************************************)
(* One m3u8buf_t of istb_m3u8.c: the segmenter appends to it and makes it  *)
(* grow (istb_m3u8_buffer_write) while the HTTP thread reads from it       *)
(* (istb_m3u8_buffer_read).  No lock is held, and the build does not       *)
(* optimise, so every look at a field the other thread changes is a step.  *)
(*                                                                         *)
(* The byte at position i of the stream of writes is i; what is kept of    *)
(* the contents is how far the storage is filled.  Blocks of the heap have *)
(* numbers, and only the last one allocated is in use.  A copy of negative *)
(* length or from a null pointer is undefined, and so is a sum that is no  *)
(* int: nothing is said after it.  A read before the storage, or from a    *)
(* block that has moved, returns whatever lies there.                      *)
(***************************************************************************)
EXTENDS Integers

CONSTANTS
  BufSize,        \* M3U8_SEGMENT_BUFFER_SIZE
  WriteLens,      \* lengths of the writes
  ReadLens,       \* lengths asked for by reads: conn->cl, as an int
  Offsets,        \* what reads are sent to by a seek
  MaxInt,         \* INT_MAX
  MaxWritten,     \* bound: bytes written
  ReallocMayFail  \* may realloc return a null pointer?

Ints == -MaxInt - 1 .. MaxInt

ASSUME BufferAssumption ==
  /\ BufSize \in Nat \ {0}
  /\ WriteLens \subseteq Nat
  /\ MaxInt \in Nat /\ MaxWritten \in Nat
  /\ ReadLens \subseteq Ints /\ Offsets \subseteq Ints
  /\ \A len \in ReadLens : MaxWritten + len <= MaxInt
  /\ ReallocMayFail \in BOOLEAN

VARIABLES
  buf, bufsize, write_ptr, read_ptr,   \* the fields of m3u8buf_t
  block, size,                         \* the block in use and its size
  filled,                              \* bytes copied into it
  writing, wlen,                           \* the segmenter, and its length
  reading, asked, readlen, from,           \* the HTTP thread, and its locals
  complete,                            \* nothing more will be written
  calm,                                \* the read began after that
  within                               \* history: and within the data

buffer == <<buf, bufsize, write_ptr, read_ptr>>
heap == <<block, size, filled>>
writer == <<writing, wlen, complete>>
reader == <<reading, asked, readlen, from, calm, within>>
bufferVars == <<buffer, heap, writer, reader>>

NullBlock == 0

\* istb_m3u8_buffer_create.
BufferInit ==
  /\ buf = 1 /\ bufsize = BufSize /\ write_ptr = 0 /\ read_ptr = 0
  /\ block = 1 /\ size = BufSize /\ filled = 0
  /\ writing = "idle" /\ wlen = 0 /\ complete = FALSE
  /\ reading = "idle" /\ asked = 0 /\ readlen = 0 /\ from = NullBlock
  /\ calm = FALSE /\ within = FALSE

-----------------------------------------------------------------------------
(* istb_m3u8_buffer_write.                                                 *)

\* Mutant of Room: a block that is exactly filled, or one byte over.
RoomUpTo(len) == bufsize >= write_ptr + len - 1
Room(len) == bufsize > write_ptr + len

StartWrite ==
  /\ writing = "idle" /\ ~complete
  /\ \E len \in WriteLens :
       /\ write_ptr + len <= MaxWritten
       /\ wlen' = len
       /\ writing' = IF Room(len) THEN "copy" ELSE "grow"
  /\ UNCHANGED <<buffer, heap, complete, reader>>

\* The step of growth for a write of wlen bytes.
GrowthFixed == BufSize                                  \* mutant of Growth
Growth == IF wlen < BufSize THEN BufSize ELSE BufSize + wlen

Enlarge ==
  /\ writing = "grow"
  /\ bufsize' = bufsize + Growth
  /\ writing' = "realloc"
  /\ UNCHANGED <<buf, write_ptr, read_ptr, heap, wlen, complete, reader>>

\* The block grows where it is or moves; the old one is free at once.
Realloc ==
  /\ writing = "realloc"
  /\ block' \in {block, block + 1}
  /\ size' = bufsize
  /\ writing' = "assign"
  /\ UNCHANGED <<buffer, filled, wlen, complete, reader>>

\* Mutant of Assign: what realloc returns is dropped.
AssignNot ==
  /\ writing = "assign"
  /\ writing' = "copy"
  /\ UNCHANGED <<buffer, heap, wlen, complete, reader>>

Assign ==
  /\ writing = "assign"
  /\ buf' = block
  /\ writing' = "copy"
  /\ UNCHANGED <<bufsize, write_ptr, read_ptr, heap, wlen, complete, reader>>

\* The write returns -1 and leaves buf null.  write_index_file gives the
\* buffer up.  For a segment nobody looks: libavformat keeps the error and
\* writes no more, av_interleaved_write_frame is only logged (line 737), and
\* the segment is completed and named in the index like any other.
ReallocFails ==
  /\ ReallocMayFail
  /\ writing = "realloc"
  /\ buf' = NullBlock
  /\ writing' = "failed"
  /\ UNCHANGED <<bufsize, write_ptr, read_ptr, heap, wlen, complete, reader>>

\* Mutant of Copy: the pointer is moved before the bytes are there.
CopyLate ==
  /\ writing = "copy"
  /\ write_ptr' = write_ptr + wlen
  /\ writing' = "advance"
  /\ UNCHANGED <<buf, bufsize, read_ptr, heap, wlen, complete, reader>>

Copy ==
  /\ writing = "copy"
  /\ filled' = write_ptr + wlen
  /\ writing' = "advance"
  /\ UNCHANGED <<buffer, block, size, wlen, complete, reader>>

\* Mutant of Advance: the bytes are counted twice.
AdvanceTwice ==
  /\ writing = "advance"
  /\ write_ptr' = filled + wlen
  /\ writing' = "idle"
  /\ UNCHANGED <<buf, bufsize, read_ptr, heap, wlen, complete, reader>>

Advance ==
  /\ writing = "advance"
  /\ write_ptr' = write_ptr + wlen
  /\ writing' = "idle"
  /\ UNCHANGED <<buf, bufsize, read_ptr, heap, wlen, complete, reader>>

\* The segment is closed: av_write_trailer and avio_flush have returned.
\* Only then does an index name it.
Complete ==
  /\ writing \in {"idle", "failed"} /\ ~complete
  /\ complete' = TRUE
  /\ UNCHANGED <<buffer, heap, writing, wlen, reader>>

-----------------------------------------------------------------------------
(* istb_m3u8_buffer_read, called by istb_m3u8_api_read.                    *)

StartRead ==
  /\ reading = "idle"
  /\ \E len \in ReadLens :
       /\ asked' = len
       /\ readlen' = len
       /\ reading' = IF read_ptr + len \notin Ints THEN "undefined"
                     ELSE IF read_ptr + len > write_ptr THEN "cut" ELSE "load"
       /\ within' = (read_ptr \in 0 .. write_ptr /\ len >= 0)
  /\ calm' = complete
  /\ UNCHANGED <<buffer, heap, writer, from>>

\* write_ptr is read a second time.
Cut ==
  /\ reading = "cut"
  /\ readlen' = write_ptr - read_ptr
  /\ reading' = "load"
  /\ UNCHANGED <<buffer, heap, writer, asked, from, calm, within>>

LoadBuf ==
  /\ reading = "load"
  /\ from' = buf
  /\ reading' = "copy"
  /\ UNCHANGED <<buffer, heap, writer, asked, readlen, calm, within>>

\* What memcpy can do: nothing is copied from nowhere.
Copyable == readlen = 0 \/ (readlen > 0 /\ from # NullBlock)

\* The copy is over: read_ptr moves on, the bytes are counted.
FinishRead ==
  /\ reading = "copy" /\ Copyable
  /\ read_ptr' = read_ptr + readlen
  /\ reading' = "idle"
  /\ UNCHANGED <<buf, bufsize, write_ptr, heap, writer, asked, readlen, from,
                 calm, within>>

\* memcpy with a negative length, or from a null pointer.
FaultyRead ==
  /\ reading = "copy" /\ ~Copyable
  /\ reading' = "undefined"
  /\ UNCHANGED <<buffer, heap, writer, asked, readlen, from, calm, within>>

\* istb_m3u8_api_seek: wherever a Range header says.  mg_write_range has
\* only made sure that it was not negative before it became an int.
Seek ==
  /\ reading = "idle"
  /\ \E offset \in Offsets : read_ptr' = offset
  /\ UNCHANGED <<buf, bufsize, write_ptr, heap, writer, reader>>

-----------------------------------------------------------------------------
Write ==
  \/ StartWrite \/ Enlarge \/ Realloc \/ Assign \/ ReallocFails \/ Copy
  \/ Advance \/ Complete
Read == StartRead \/ Cut \/ LoadBuf \/ FinishRead \/ FaultyRead \/ Seek

BufferNext == reading # "undefined" /\ (Write \/ Read)
BufferSpec == BufferInit /\ [][BufferNext]_bufferVars

-----------------------------------------------------------------------------
(* Properties.                                                             *)

BufferTypeOK ==
  /\ buf \in Nat /\ bufsize \in Nat
  /\ write_ptr \in 0 .. MaxWritten /\ read_ptr \in Int
  /\ block \in Nat \ {0} /\ size \in Nat /\ filled \in Nat
  /\ writing \in {"idle", "grow", "realloc", "assign", "failed", "copy",
                  "advance"}
  /\ wlen \in Nat /\ complete \in BOOLEAN
  /\ reading \in {"idle", "cut", "load", "copy", "undefined"}
  /\ asked \in Int /\ readlen \in Int /\ from \in Nat
  /\ calm \in BOOLEAN /\ within \in BOOLEAN

\* Whatever lengths are written in whatever order, a write copies into the
\* block in use and stays inside it.
WritesFit == writing = "copy" => buf = block /\ write_ptr + wlen <= size

\* No read reaches beyond what has been copied in, wherever a seek sent it
\* and also when a write comes between its two looks at write_ptr; and if it
\* began within the data its length does not turn negative.  Proviso: a seek
\* past the end does make it negative (lines 1482 and 1283).
ReadsOnlyWritten ==
  /\ reading \in {"load", "copy"} => read_ptr + readlen <= filled
  /\ reading \in {"load", "copy", "undefined"} /\ within => 0 <= readlen

\* A segment that an index names needs no lock: a read of a complete buffer
\* that begins within the data copies all that was asked for or all there is,
\* out of storage that does not move away.  Proviso: if the realloc of a write
\* failed, buf is null; the segment is completed and named in the index all
\* the same, and reading from it is undefined.  That is the only way such a
\* read goes wrong.
CompleteReadsSafe ==
  /\ calm /\ reading = "copy" =>
       /\ from = IF writing = "failed" THEN NullBlock ELSE block
       /\ readlen = IF read_ptr + asked > write_ptr THEN write_ptr - read_ptr
                                                    ELSE asked
       /\ within => readlen \in 0 .. asked
  /\ calm /\ within /\ reading = "undefined" => writing = "failed"
=============================================================================
