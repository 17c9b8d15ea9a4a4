---------------------------- MODULE SegmentStore ----------------------------
(***************************************************************************)
(* The segmenter thread of istb_m3u8.c (istb_m3u8_task) and the memory it  *)
(* publishes to the HTTP thread: the queue of segment buffers and the m3u8 *)
(* index that hangs off the queue's head.                                  *)
(*                                                                         *)
(* Nothing here is protected by a lock (m3u8queue_t.locker is never used), *)
(* so every point at which another thread can find something different in  *)
(* the shared memory is a step of its own.  A media byte is one unit;      *)
(* what libavformat writes and when it flushes is external: any number of  *)
(* units in SegLens may reach the segment at each write.                   *)
(***************************************************************************)
EXTENDS Integers, Sequences, FiniteSets

CONSTANTS
  NumSegments,   \* options.num_segments, the -n of the command line
  MaxSegments,   \* bound: segments the stream is cut into
  SegLens,       \* bytes one write may add to a segment
  MaxLen,        \* bound: bytes in a segment
  SetupMayFail,  \* may opening the input or the first output fail?
  IndexMayFail,  \* may the allocations of write_index_file fail?
  OpenMayFail    \* may opening a further segment fail (goto fail)?

ASSUME StoreAssumption ==
  /\ NumSegments \in Nat
  /\ MaxSegments \in Nat \ {0}
  /\ SegLens \subseteq Nat
  /\ MaxLen \in Nat
  /\ SetupMayFail \in BOOLEAN
  /\ IndexMayFail \in BOOLEAN
  /\ OpenMayFail \in BOOLEAN

VARIABLES
  pc,             \* where istb_m3u8_task is
  closing,        \* it has left the packet loop
  first_segment, last_segment, output_index, write_index, remove_file,
  queue,          \* the linked list: segment numbers, oldest first
  head,           \* queue_head->m3u8data, as an index number; NoIndex is NULL
  index,          \* the text of each index: which segments it names
  mem,            \* the m3u8buf_t buffers
  unlinked,       \* the segment istb_m3u8_queue_remove is about to free; 0
  ready           \* how often M3U8_SEGMENT_READY was reported

storeVars == <<pc, closing, first_segment, last_segment, output_index,
               write_index, remove_file, queue, head, index, mem,
               unlinked, ready>>

NoIndex == -1

\* The segment buffers by segment number; the index buffers by the
\* last_segment they were written for, which no two share.
Segments == 1 .. MaxSegments
Indexes  == 0 .. MaxSegments
Seg(k) == <<"seg", k>>
Idx(g) == <<"idx", g>>
Buffers == {Seg(k) : k \in Segments} \cup {Idx(g) : g \in Indexes}

NoBuffer == [st |-> "none", write_ptr |-> 0, read_ptr |-> 0]
Fresh(len) == [st |-> "live", write_ptr |-> len, read_ptr |-> 0]

Current == output_index - 1      \* the segment being written

\* What an index lists; the name lines are one unit each in its text.
Listing(g) == index[g].first .. index[g].last
IndexLength(first, last, end) ==
  1 + Cardinality(first .. last) + (IF end THEN 1 ELSE 0)

Init ==
  /\ pc = "start"
  /\ closing = FALSE
  /\ first_segment = 1
  /\ last_segment = 0
  /\ output_index = 1
  /\ write_index = TRUE
  /\ remove_file = FALSE
  /\ queue = <<>>
  /\ head = NoIndex
  /\ index = [g \in Indexes |-> [first |-> 1, last |-> 0, end |-> FALSE]]
  /\ mem = [b \in Buffers |-> NoBuffer]
  /\ unlinked = 0
  /\ ready = 0

-----------------------------------------------------------------------------
(* Before the loop: queue, first segment, first (empty) index.  The HTTP   *)
(* thread does not exist yet.                                              *)
Setup ==
  /\ pc = "start"
  /\ queue' = <<1>>
  /\ output_index' = 2
  /\ \/ /\ mem' = [mem EXCEPT ![Seg(1)] = Fresh(0),
                              ![Idx(0)] = Fresh(IndexLength(1, 0, FALSE))]
        /\ head' = 0
        /\ UNCHANGED write_index
     \/ /\ IndexMayFail
        /\ mem' = [mem EXCEPT ![Seg(1)] = Fresh(0)]
        /\ write_index' = FALSE
        /\ UNCHANGED head
  /\ pc' = "loop"
  /\ UNCHANGED <<closing, first_segment, last_segment, remove_file, index,
                 unlinked, ready>>

\* The input is not a transport stream or ends at once, or the first output
\* cannot be opened: goto fail, without or with the first segment.
SetupFails ==
  /\ SetupMayFail
  /\ pc = "start"
  /\ \/ UNCHANGED <<queue, output_index, mem>>
     \/ /\ queue' = <<1>>
        /\ output_index' = 2
        /\ mem' = [mem EXCEPT ![Seg(1)] = Fresh(0)]
  /\ pc' = "destroy"
  /\ UNCHANGED <<closing, first_segment, last_segment, write_index,
                 remove_file, head, index, unlinked, ready>>

\* istb_m3u8_buffer_write on the current segment.
Grow(len) ==
  /\ len \in SegLens
  /\ mem[Seg(Current)].write_ptr + len <= MaxLen
  /\ mem' = [mem EXCEPT ![Seg(Current)].write_ptr = @ + len]

\* A packet that does not start a segment: av_interleaved_write_frame.
WriteFrame ==
  /\ pc = "loop"
  /\ \E len \in SegLens : Grow(len)
  /\ UNCHANGED <<pc, closing, first_segment, last_segment, output_index,
                 write_index, remove_file, queue, head, index, unlinked,
                 ready>>

\* More segments than num_segments would be kept: drop the oldest.
DueLate ==                                              \* mutant of Due
  NumSegments # 0 /\ last_segment - first_segment > NumSegments - 1
Due == NumSegments # 0 /\ last_segment - first_segment >= NumSegments - 1

\* Mutant of AfterClose: the segment is removed before the index is renewed.
AfterCloseRemove(removing, over) ==
  IF removing THEN "unlink" ELSE IF write_index THEN "index"
  ELSE IF over THEN "destroy" ELSE "open"
AfterClose(removing, over) ==
  IF write_index THEN "index"
  ELSE IF removing THEN "unlink" ELSE IF over THEN "destroy" ELSE "open"

\* The current segment is complete: trailer and flush, then the decision
\* what to drop.  over: the packet loop is left as well.
Close(over) ==
  /\ pc = "loop"
  /\ \E len \in SegLens : Grow(len)
  /\ remove_file' = Due
  /\ first_segment' = IF Due THEN first_segment + 1 ELSE first_segment
  /\ closing' = over
  /\ pc' = AfterClose(Due, over)
  /\ UNCHANGED <<last_segment, output_index, write_index, queue, head, index,
                 unlinked, ready>>

Rotate == output_index <= MaxSegments /\ Close(FALSE)

\* terminate is set, or av_read_frame, av_dup_packet or the muxer ends it.
EndOfStream == Close(TRUE)

-----------------------------------------------------------------------------
(* write_index_file, then istb_m3u8_queue_head_update in two steps: the    *)
(* old index is destroyed before the pointer to it is replaced.            *)

AfterIndexOpen ==                                       \* mutant of AfterIndex
  IF remove_file THEN "unlink" ELSE "open"
AfterIndex ==
  IF remove_file THEN "unlink" ELSE IF closing THEN "destroy" ELSE "open"

\* The text of the index that ends with segment number last.
IndexTextStale(last) ==                                 \* mutant of IndexText
  [first |-> first_segment, last |-> last - 1, end |-> closing]
IndexText(last) == [first |-> first_segment, last |-> last, end |-> closing]

BuildIndex ==
  /\ pc = "index"
  /\ last_segment' = last_segment + 1
  /\ index' = [index EXCEPT ![last_segment'] = IndexText(last_segment')]
  /\ mem' = [mem EXCEPT ![Idx(last_segment')] =
               Fresh(IndexLength(first_segment, last_segment', closing))]
  /\ pc' = IF head = NoIndex THEN "swap_index" ELSE "free_index"
  /\ UNCHANGED <<closing, first_segment, output_index, write_index,
                 remove_file, queue, head, unlinked, ready>>

\* An allocation failed: the new index is given up, and with it all others.
\* At the end of the stream nobody looks at the result.
IndexFails ==
  /\ IndexMayFail
  /\ pc = "index"
  /\ last_segment' = last_segment + 1
  /\ write_index' = (write_index /\ closing)
  /\ pc' = AfterIndex
  /\ UNCHANGED <<closing, first_segment, output_index, remove_file, queue,
                 head, index, mem, unlinked, ready>>

FreeIndex ==
  /\ pc = "free_index"
  /\ mem' = [mem EXCEPT ![Idx(head)].st = "freed"]
  /\ pc' = "swap_index"
  /\ UNCHANGED <<closing, first_segment, last_segment, output_index,
                 write_index, remove_file, queue, head, index, unlinked,
                 ready>>

SwapIndex ==
  /\ pc = "swap_index"
  /\ head' = last_segment
  /\ pc' = AfterIndex
  /\ UNCHANGED <<closing, first_segment, last_segment, output_index,
                 write_index, remove_file, queue, index, mem, unlinked,
                 ready>>

-----------------------------------------------------------------------------
(* istb_m3u8_queue_remove: the oldest node is unlinked, then its buffer    *)
(* and the node itself are freed.                                          *)

\* Mutant of Unlink: the newest complete segment goes instead of the oldest.
UnlinkNewest ==
  /\ pc = "unlink"
  /\ queue # <<>>
  /\ unlinked' = queue[Len(queue)]
  /\ queue' = SubSeq(queue, 1, Len(queue) - 1)
  /\ pc' = "free_segment"
  /\ UNCHANGED <<closing, first_segment, last_segment, output_index,
                 write_index, remove_file, head, index, mem, ready>>

Unlink ==
  /\ pc = "unlink"
  /\ queue # <<>>
  /\ unlinked' = Head(queue)
  /\ queue' = Tail(queue)
  /\ pc' = "free_segment"
  /\ UNCHANGED <<closing, first_segment, last_segment, output_index,
                 write_index, remove_file, head, index, mem, ready>>

FreeSegment ==
  /\ pc = "free_segment"
  /\ mem' = [mem EXCEPT ![Seg(unlinked)].st = "freed"]
  /\ unlinked' = 0
  /\ pc' = IF closing THEN "destroy" ELSE "open"
  /\ UNCHANGED <<closing, first_segment, last_segment, output_index,
                 write_index, remove_file, queue, head, index, ready>>

\* Mutant of AddSegment: named by output_index after its increment.
AddSegmentLate ==
  /\ pc = "open"
  /\ mem' = [mem EXCEPT ![Seg(output_index)] = Fresh(0)]
  /\ queue' = Append(queue, output_index + 1)
  /\ output_index' = output_index + 1

\* The next segment: created, put at the tail, READY when three are done.
AddSegment ==
  /\ pc = "open"
  /\ mem' = [mem EXCEPT ![Seg(output_index)] = Fresh(0)]
  /\ queue' = Append(queue, output_index)
  /\ output_index' = output_index + 1

IsReadyFrom == last_segment >= 3                        \* mutant of IsReady
IsReady == last_segment = 3

OpenSegment ==
  /\ AddSegment
  /\ ready' = IF IsReady THEN ready + 1 ELSE ready
  /\ pc' = "loop"
  /\ UNCHANGED <<closing, first_segment, last_segment, write_index,
                 remove_file, head, index, unlinked>>

\* No output context or no header: goto fail, without a last index.
OpenFails ==
  /\ OpenMayFail
  /\ AddSegment
  /\ pc' = "destroy"
  /\ UNCHANGED <<closing, first_segment, last_segment, write_index,
                 remove_file, head, index, unlinked, ready>>

\* istb_m3u8_queue_destroy: all segments, the index and the head node are
\* freed.  queue_head itself keeps pointing there.
Freed(bufs) ==
  [b \in Buffers |-> IF b \in bufs THEN [mem[b] EXCEPT !.st = "freed"]
                                  ELSE mem[b]]
QueuedButFirst ==                                       \* mutant of QueuedBuffers
  {Seg(queue[i]) : i \in DOMAIN queue \ {1}}
QueuedBuffers == {Seg(queue[i]) : i \in DOMAIN queue}

Destroy ==
  /\ pc = "destroy"
  /\ head # NoIndex
  /\ mem' = Freed(QueuedBuffers \cup {Idx(head)})
  /\ pc' = "finished"
  /\ UNCHANGED <<closing, first_segment, last_segment, output_index,
                 write_index, remove_file, queue, head, index, unlinked,
                 ready>>

\* With no index ever written, its text is printed through a null pointer.
DestroyWithoutIndex ==
  /\ pc = "destroy"
  /\ head = NoIndex
  /\ mem' = Freed(QueuedBuffers)
  /\ pc' = "crashed"
  /\ UNCHANGED <<closing, first_segment, last_segment, output_index,
                 write_index, remove_file, queue, head, index, unlinked,
                 ready>>

StoreNext ==
  \/ Setup \/ SetupFails \/ WriteFrame \/ Rotate \/ EndOfStream
  \/ BuildIndex \/ IndexFails \/ FreeIndex \/ SwapIndex
  \/ Unlink \/ FreeSegment \/ OpenSegment \/ OpenFails
  \/ Destroy \/ DestroyWithoutIndex

\* The thread runs on while it has something to do; when the input ends is
\* the source's choice, but a step once begun is completed.
StoreSpec ==
  /\ Init
  /\ [][StoreNext]_storeVars
  /\ WF_storeVars(StoreNext /\ pc # "loop")

-----------------------------------------------------------------------------
(* Properties.                                                             *)

StoreTypeOK ==
  /\ pc \in {"start", "loop", "index", "free_index", "swap_index", "unlink",
             "free_segment", "open", "destroy", "finished", "crashed"}
  /\ closing \in BOOLEAN
  /\ first_segment \in Nat \ {0}
  /\ last_segment \in Nat
  /\ output_index \in 1 .. MaxSegments + 1
  /\ write_index \in BOOLEAN
  /\ remove_file \in BOOLEAN
  /\ queue \in Seq(Segments)
  /\ head \in Indexes \cup {NoIndex}
  /\ index \in [Indexes -> [first : Nat, last : Nat, end : BOOLEAN]]
  /\ mem \in [Buffers -> [st : {"none", "live", "freed"},
                          write_ptr : Nat, read_ptr : Nat]]
  /\ unlinked \in Segments \cup {0}
  /\ ready \in Nat

Live(b) == mem[b].st = "live"

\* A segment is complete once a later one exists or the stream has ended.
Complete(k) == k < Current \/ (k = Current /\ (closing \/ pc # "loop"))

\* The last index that was due could not be written (nor will any other be):
\* last_segment counts those tried, head is the one published.
IndexLost ==
  head # last_segment /\ pc \notin {"free_index", "swap_index"}

Kept(k) ==
  /\ \E i \in DOMAIN queue : queue[i] = k
  /\ Live(Seg(k))
  /\ Complete(k)

\* Whoever fetches the index finds every segment it names in the queue, and
\* complete: the new index is published before the segment it no longer
\* names is unlinked (istb_m3u8_task, lines 696 to 705 and 759 to 768).
\* Proviso: once an index could not be written the old one stays, and what it
\* names is removed under it, oldest first.  Of such an index only what
\* first_segment has not passed can still be fetched, and all of that.
IndexNamesKeptSegments ==
  (head # NoIndex /\ Live(Idx(head))) =>
     \A k \in Listing(head) :
        ~IndexLost \/ k >= first_segment => Kept(k)

\* -n bounds what is kept: the segments an index names and the one being
\* written, as long as no index could not be written.  After one that could
\* not, last_segment stands still and the queue grows as long as the stream.
KeptAtMost == NumSegments # 0 => Len(queue) <= NumSegments + 1
BoundedWhileIndexed == write_index => KeptAtMost

\* READY makes main start the HTTP server (main.c, line 82).  It is never
\* reported before three segments are complete and an index that ends with
\* the second or the third is published; it is reported once the index of the
\* third has been tried; and it is reported again only if that index could not
\* be written, since last_segment then stays at 3 and line 731 holds in every
\* rotation.  Proviso: if an earlier index fails last_segment never comes to
\* 3, and READY never comes.
ReadyWithThree ==
  /\ ready > 0 => /\ last_segment >= 3 /\ head >= 2
                  /\ \A k \in 1 .. 3 : Complete(k)
  /\ last_segment >= 3 /\ pc = "loop" => ready > 0
  /\ ready > 1 => IndexLost /\ head = 2

\* A published index moves on by one segment and drops at most one.
PlaylistSlides ==
  [][(head' # head /\ head # NoIndex) =>
       /\ index[head'].last = index[head].last + 1
       /\ index[head'].first - index[head].first \in {0, 1}]_storeVars

\* When the thread is done it has given back every buffer it made; so it has
\* when it goes down in its clean-up for want of an index.
NoLeak == pc \in {"finished", "crashed"} => \A b \in Buffers : ~Live(b)

\* Once the input has ended the thread comes to its end with every buffer
\* freed, and the last index it published ends the list (EXT-X-ENDLIST) and
\* names the last segment, unless an index could not be written.  If not even
\* the first one could, it does not finish: the clean-up follows the null
\* pointer in queue_head->m3u8data (line 1363).
EndsClean ==
  closing ~>
    \/ /\ pc = "finished"
       /\ \A b \in Buffers : ~Live(b)
       /\ IndexLost \/ (index[head].end /\ index[head].last = Current)
    \/ pc = "crashed" /\ head = NoIndex
=============================================================================
