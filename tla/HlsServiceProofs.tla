-------------------------- MODULE HlsServiceProofs --------------------------
(***************************************************************************)
(* What the segmenter's store and the HTTP thread that serves it promise,  *)
(* proved for any window size, number of connections and segments, any of  *)
(* the failures, any Range headers and any block size.                     *)
(*                                                                         *)
(* The store.  The segmenter keeps four counts of the same things: the     *)
(* numbers in the queue, first_segment, last_segment and output_index.     *)
(* They agree only up to what the step at hand has already done, so the    *)
(* inductive invariant StoreInv says for each place how far apart they     *)
(* are, and what is allocated there.                                       *)
(*                                                                         *)
(* The service.  Nothing is locked, so the argument is one of non-         *)
(* interference.  The segmenter leaves alone what a connection depends on: *)
(* the read_ptr of every buffer made so far, and the bytes already written *)
(* (StoreTouches).  The HTTP thread in turn only moves read_ptr, on which  *)
(* nothing of StoreInv depends (StoreStays).  What is left is to relate    *)
(* read_ptr to what the readers of the buffer have got: alone, the reader  *)
(* is exactly where read_ptr is (AloneInv); together, and as long as       *)
(* nobody seeks, none has got a byte twice (SharedInv).                    *)
(***************************************************************************)
EXTENDS HlsService, FiniteSetTheorems, SequenceTheorems, TLAPS

-----------------------------------------------------------------------------
(* The store.                                                              *)

Ended == pc \in {"finished", "crashed"}
Running == pc \in {"loop", "index", "free_index", "swap_index", "unlink",
                   "free_segment", "open"}
Publishing == pc \in {"free_index", "swap_index"}
Removing ==
  remove_file /\ pc \in {"index", "free_index", "swap_index", "unlink"}

\* The first number in the queue, were it not empty.
Oldest == output_index - Len(queue)

\* The queue is the numbers from Oldest to Current.
QueueInv ==
  /\ Len(queue) < output_index
  /\ \A i \in DOMAIN queue : queue[i] = Oldest + i - 1

\* What is known of the place alone.
PlaceInv ==
  /\ pc = "start" =>
       /\ queue = <<>> /\ output_index = 1 /\ head = NoIndex
       /\ first_segment = 1 /\ last_segment = 0 /\ ready = 0
       /\ index[0].first = 1 /\ index[0].last = 0 /\ write_index
  /\ Running => output_index >= 2
  /\ pc \in {"index", "free_index", "swap_index"} => write_index
  /\ pc = "unlink" => remove_file
  /\ pc = "open" => ~closing
  /\ Running /\ pc # "loop" /\ ~closing => output_index <= MaxSegments

\* The buffers that are allocated.
Held == {b \in Buffers : Live(b)}

\* Which buffers are live, segment buffers first.
MemInv ==
  /\ ~Ended => \A k \in Segments :
                  Seg(k) \in Held <=> k \in Oldest .. Current \/ k = unlinked
  /\ Ended => \A k \in Segments : Seg(k) \notin Held
  /\ \A g \in Indexes : Idx(g) \in Held =>
        \/ pc = "swap_index" /\ g = last_segment
        \/ pc = "free_index" /\ g = last_segment
        \/ pc # "swap_index" /\ ~Ended /\ g = head
  /\ unlinked # 0 => pc = "free_segment" /\ unlinked < Oldest
  /\ pc = "free_segment" => unlinked # 0

\* As long as every index could be written: how the four counts differ, what
\* the published index names, and the next one.
WindowInv ==
  ~IndexLost /\ Running =>
    /\ last_segment = IF pc \in {"loop", "index"} THEN Current - 1 ELSE Current
    /\ head = IF Publishing THEN last_segment - 1 ELSE last_segment
    /\ index[head].last = head
    /\ index[head].first =
         IF pc \in {"index", "free_index", "swap_index"} THEN Oldest
                                                         ELSE first_segment
    /\ Publishing => /\ index[last_segment].first = first_segment
                     /\ index[last_segment].last = last_segment

\* An index is lost in one step, which clears write_index except at the end
\* of the stream.  The one before it stays, and names no newer segment.
LostInv ==
  /\ Running /\ write_index /\ (~closing \/ pc \in {"loop", "index"}) =>
       ~IndexLost
  /\ ~IndexLost => write_index
  /\ IndexLost /\ head # NoIndex => /\ head = last_segment - 1
                                    /\ index[head].last = head
                                    /\ head < Current

\* first_segment follows the queue, with or without an index.
FirstInv == first_segment = IF Removing THEN Oldest + 1 ELSE Oldest

\* Without a first index there is never another one, and no server.
PublishedInv ==
  head = NoIndex => /\ last_segment = 0 /\ ready = 0
                    /\ Running => ~write_index

\* The last index, if it could be written, names nothing that is gone.
LastIndexInv ==
  ~IndexLost /\ pc = "destroy" =>
    Oldest <= index[head].first /\ index[head].last <= Current

\* The window is at its largest when a segment was just opened.
SlackInv ==
  write_index /\ NumSegments # 0 =>
    /\ Len(queue) <= NumSegments + 1
    /\ pc \in {"free_segment", "open"} => Len(queue) <= NumSegments
    /\ pc \in {"index", "free_index", "swap_index"} /\ ~remove_file =>
         Len(queue) <= NumSegments

\* READY comes with the fourth segment, and again only on a lost index.
ReadyInv ==
  /\ ready > 0 => last_segment >= 3 /\ head >= 2 /\ output_index >= 5
  /\ last_segment >= 4 \/ (last_segment >= 3 /\ pc \in {"loop", "index"}) =>
       ready > 0
  /\ ready > 1 => IndexLost /\ head = 2

StoreInv ==
  /\ StoreTypeOK /\ QueueInv /\ PlaceInv /\ MemInv
  /\ WindowInv /\ LostInv /\ FirstInv /\ PublishedInv /\ LastIndexInv
  /\ SlackInv /\ ReadyInv

BufferType == [st : {"none", "live", "freed"}, write_ptr : Nat, read_ptr : Nat]

USE StoreAssumption DEF Ended, Running, Publishing, Removing, IndexLost

-----------------------------------------------------------------------------
(* What a step does to the buffers.                                        *)

\* No two names stand for the same buffer.
LEMMA BufferNames ==
  /\ \A k \in Segments : Seg(k) \in Buffers
  /\ \A g \in Indexes : Idx(g) \in Buffers
  /\ \A k \in Segments, g \in Indexes : Seg(k) # Idx(g)
  /\ \A j, k \in Segments : Seg(j) = Seg(k) => j = k
  /\ \A g, h \in Indexes : Idx(g) = Idx(h) => g = h
  /\ \A b \in Buffers : \/ \E k \in Segments : b = Seg(k)
                        \/ \E g \in Indexes : b = Idx(g)
  BY DEF Seg, Idx, Buffers

LEMMA MakesLive ==
  ASSUME mem \in [Buffers -> BufferType], NEW b \in Buffers, NEW n \in Nat,
         mem' = [mem EXCEPT ![b] = Fresh(n)]
  PROVE  mem' \in [Buffers -> BufferType] /\ Held' = Held \cup {b}
  BY DEF Held, Live, BufferType, Fresh

LEMMA MakesFreed ==
  ASSUME mem \in [Buffers -> BufferType], NEW b \in Buffers,
         mem' = [mem EXCEPT ![b].st = "freed"]
  PROVE  mem' \in [Buffers -> BufferType] /\ Held' = Held \ {b}
  BY DEF Held, Live, BufferType

LEMMA FreesAll ==
  ASSUME mem \in [Buffers -> BufferType], NEW bufs, mem' = Freed(bufs)
  PROVE  mem' \in [Buffers -> BufferType] /\ Held' = Held \ bufs
  BY DEF Held, Live, BufferType, Freed

LEMMA Grows ==
  ASSUME mem \in [Buffers -> BufferType], NEW b \in Buffers, NEW n \in Nat,
         mem' = [mem EXCEPT ![b].write_ptr = @ + n]
  PROVE  mem' \in [Buffers -> BufferType] /\ Held' = Held
  BY DEF Held, Live, BufferType

LEMMA LengthType ==
  ASSUME NEW f \in Nat, NEW l \in Nat, NEW e \in BOOLEAN
  PROVE  IndexLength(f, l, e) \in Nat
<1>1. f \in Int /\ l \in Int
  OBVIOUS
<1>2. IsFiniteSet(f .. l)
  BY <1>1, FS_Interval
<1>3. Cardinality(f .. l) \in Nat
  BY <1>2, FS_CardinalityType
<1> QED BY <1>3 DEF IndexLength

-----------------------------------------------------------------------------
(* The invariant is inductive: one lemma for each action.                  *)

LEMMA InitInv == Init => StoreInv
<1> SUFFICES ASSUME Init PROVE StoreInv
  OBVIOUS
<1> USE StoreAssumption DEF Init, NoIndex
<1>1. mem \in [Buffers -> BufferType] /\ Held = {}
  BY DEF NoBuffer, BufferType, Held, Live
<1>2. StoreTypeOK
  <2>1. /\ closing \in BOOLEAN /\ write_index \in BOOLEAN
        /\ remove_file \in BOOLEAN
    OBVIOUS
  <2>2. index \in [Indexes -> [first : Nat, last : Nat, end : BOOLEAN]]
    OBVIOUS
  <2>3. queue \in Seq(Segments) /\ output_index \in 1 .. MaxSegments + 1
    OBVIOUS
  <2> QED BY <1>1, <2>1, <2>2, <2>3 DEF StoreTypeOK, BufferType
<1>3. QueueInv
  BY DEF QueueInv, Oldest
<1>4. PlaceInv
  BY DEF PlaceInv, Indexes, Running
<1>5. MemInv
  BY <1>1 DEF MemInv, Ended, Oldest, Current, Segments
<1>6. WindowInv /\ LastIndexInv /\ FirstInv /\ PublishedInv
  BY DEF WindowInv, LastIndexInv, FirstInv, PublishedInv, Oldest, Running
<1>7. SlackInv /\ ReadyInv /\ LostInv
  BY DEF SlackInv, ReadyInv, LostInv
<1> QED BY <1>2, <1>3, <1>4, <1>5, <1>6, <1>7 DEF StoreInv


LEMMA WriteFrameKeeps == ASSUME StoreInv, WriteFrame PROVE StoreInv'
<1> USE DEF StoreInv
<1>1. mem' \in [Buffers -> BufferType] /\ Held' = Held
  <2>1. PICK len \in SegLens : Grow(len)
    BY DEF WriteFrame
  <2>2. Current \in Segments /\ len \in Nat
    BY DEF WriteFrame, StoreTypeOK, PlaceInv, Current, Segments
  <2> QED BY <2>1, <2>2, Grows, BufferNames DEF Grow, StoreTypeOK, BufferType
<1>2. StoreTypeOK'
  BY <1>1 DEF WriteFrame, StoreTypeOK, BufferType
<1>3. QueueInv'
  BY DEF WriteFrame, StoreTypeOK, QueueInv, Oldest
<1>4. PlaceInv'
  BY DEF WriteFrame, StoreTypeOK, PlaceInv
<1>5. MemInv'
  BY <1>1, BufferNames DEF WriteFrame, StoreTypeOK, MemInv, Oldest, Current
<1>6. WindowInv'
  BY DEF WriteFrame, StoreTypeOK, PlaceInv, WindowInv, Oldest, Current, LostInv
<1>7. LastIndexInv'
  BY DEF WriteFrame, StoreTypeOK, WindowInv, FirstInv, LastIndexInv, Oldest,
     Current, LostInv
<1>8. SlackInv'
  BY DEF WriteFrame, StoreTypeOK, WindowInv, SlackInv, Oldest, Current, LostInv
<1>9. ReadyInv'
  BY DEF WriteFrame, StoreTypeOK, ReadyInv, WindowInv, LostInv, PlaceInv,
     PublishedInv, Current, NoIndex
<1>10. FirstInv'
  BY DEF WriteFrame, StoreTypeOK, PlaceInv, FirstInv, Oldest
<1>11. PublishedInv'
  BY DEF WriteFrame, StoreTypeOK, PlaceInv, WindowInv, PublishedInv, NoIndex,
     Current, LostInv
<1>12. LostInv'
  BY DEF WriteFrame, StoreTypeOK, WindowInv, LostInv, PlaceInv, PublishedInv,
     Current, NoIndex
<1> QED BY <1>2, <1>3, <1>4, <1>5, <1>6, <1>7, <1>8, <1>9, <1>10, <1>11, <1>12

LEMMA CloseKeeps ==
  ASSUME StoreInv, NEW over \in BOOLEAN, Close(over),
         over \/ output_index <= MaxSegments
  PROVE  StoreInv'
<1> USE DEF StoreInv
<1>1. mem' \in [Buffers -> BufferType] /\ Held' = Held
  <2>1. PICK len \in SegLens : Grow(len)
    BY DEF Close
  <2>2. Current \in Segments /\ len \in Nat
    BY DEF Close, StoreTypeOK, PlaceInv, Current, Segments
  <2> QED BY <2>1, <2>2, Grows, BufferNames DEF Grow, StoreTypeOK, BufferType
<1>2. StoreTypeOK'
  BY <1>1 DEF Close, Due, AfterClose, StoreTypeOK, BufferType
<1>3. QueueInv'
  BY DEF Close, Due, AfterClose, StoreTypeOK, QueueInv, Oldest
<1>4. PlaceInv'
  BY DEF Close, Due, AfterClose, StoreTypeOK, PlaceInv
<1>5. MemInv'
  BY <1>1, BufferNames DEF Close, Due, AfterClose, StoreTypeOK, MemInv,
     Oldest, Current
<1>6. WindowInv'
  BY DEF Close, Due, AfterClose, StoreTypeOK, PlaceInv, WindowInv, FirstInv,
     Oldest, Current, LostInv
<1>7. LastIndexInv'
  BY DEF Close, Due, AfterClose, StoreTypeOK, WindowInv, FirstInv,
     LastIndexInv, Oldest,
     Current, LostInv
<1>8. SlackInv'
  <2>1. Len(queue) \in Nat /\ Len(queue') = Len(queue)
    BY DEF Close, StoreTypeOK
  <2> SUFFICES ASSUME write_index, NumSegments # 0, ~Due
               PROVE  Len(queue) <= NumSegments
    BY <2>1, Zenon DEF Close, AfterClose, SlackInv
  <2>2. pc = "loop" /\ ~IndexLost
    BY DEF Close, LostInv
  <2>3. last_segment - first_segment = Len(queue) - 2
    BY <2>1, <2>2 DEF StoreTypeOK, WindowInv, FirstInv, Oldest, Current
  <2> QED BY <2>1, <2>3 DEF Due, StoreTypeOK
<1>9. ReadyInv'
  BY DEF Close, Due, AfterClose, StoreTypeOK, ReadyInv, WindowInv, LostInv,
     PlaceInv, PublishedInv, Current, NoIndex
<1>10. FirstInv'
  BY DEF Close, Due, AfterClose, StoreTypeOK, PlaceInv, FirstInv, Oldest
<1>11. PublishedInv'
  BY DEF Close, Due, AfterClose, StoreTypeOK, PlaceInv, WindowInv,
     PublishedInv, NoIndex, Current, LostInv
<1>12. LostInv'
  BY DEF Close, Due, AfterClose, StoreTypeOK, WindowInv, LostInv, PlaceInv,
     PublishedInv, Current, NoIndex
<1> QED BY <1>2, <1>3, <1>4, <1>5, <1>6, <1>7, <1>8, <1>9, <1>10, <1>11, <1>12

LEMMA BuildIndexKeeps == ASSUME StoreInv, BuildIndex PROVE StoreInv'
<1> USE DEF StoreInv
<1>1. /\ last_segment' = Current /\ last_segment' \in Indexes
      /\ head \in Indexes /\ head = last_segment /\ head # last_segment'
  <2>1. pc = "index" /\ ~IndexLost
    BY DEF BuildIndex, PlaceInv, LostInv
  <2> QED BY <2>1 DEF BuildIndex, StoreTypeOK, PlaceInv, WindowInv, Current,
     Indexes
<1>2. /\ mem' \in [Buffers -> BufferType]
      /\ Held' = Held \cup {Idx(last_segment')}
  <2>1. IndexLength(first_segment, last_segment', closing) \in Nat
    <3>1. first_segment \in Nat /\ last_segment' \in Nat /\ closing \in BOOLEAN
      BY <1>1 DEF StoreTypeOK, Indexes
    <3> QED BY <3>1, LengthType
  <2> QED BY <1>1, <2>1, MakesLive, BufferNames DEF BuildIndex, StoreTypeOK,
     BufferType
<1>3. index' = [index EXCEPT ![last_segment'] = IndexText(last_segment')]
  BY DEF BuildIndex
<1>4. StoreTypeOK'
  <2>1. index' \in [Indexes -> [first : Nat, last : Nat, end : BOOLEAN]]
    BY <1>1, <1>3 DEF IndexText, StoreTypeOK, Indexes
  <2> QED BY <1>1, <1>2, <2>1, SMTT(30) DEF BuildIndex, StoreTypeOK,
     BufferType
<1>5. QueueInv'
  BY DEF BuildIndex, StoreTypeOK, QueueInv, Oldest
<1>6. PlaceInv'
  BY DEF BuildIndex, StoreTypeOK, PlaceInv
<1>7. MemInv'
  <2>1. \A k \in Segments : Seg(k) \in Held' <=> Seg(k) \in Held
    BY <1>1, <1>2, BufferNames
  <2>2. \A g \in Indexes :
          Idx(g) \in Held' => Idx(g) \in Held \/ g = last_segment'
    BY <1>1, <1>2, BufferNames
  <2> QED BY <1>1, <2>1, <2>2 DEF BuildIndex, StoreTypeOK, MemInv, Oldest,
     Current, NoIndex, Indexes
<1>8. WindowInv'
  BY <1>1, <1>3 DEF BuildIndex, IndexText, StoreTypeOK, PlaceInv, WindowInv,
     Oldest, Current, NoIndex, Indexes, LostInv
<1>9. LastIndexInv'
  BY DEF BuildIndex, StoreTypeOK, WindowInv, FirstInv, LastIndexInv, Oldest,
     Current, LostInv
<1>10. SlackInv'
  BY DEF BuildIndex, StoreTypeOK, WindowInv, SlackInv, Oldest, Current, LostInv
<1>11. ReadyInv'
  BY DEF BuildIndex, StoreTypeOK, ReadyInv, WindowInv, LostInv, PlaceInv,
     PublishedInv, Current, NoIndex
<1>12. FirstInv'
  BY DEF BuildIndex, StoreTypeOK, PlaceInv, FirstInv, Oldest
<1>13. PublishedInv'
  BY DEF BuildIndex, StoreTypeOK, PlaceInv, WindowInv, PublishedInv, NoIndex,
     Current, LostInv
<1>14. LostInv'
  BY DEF BuildIndex, StoreTypeOK, WindowInv, LostInv, PlaceInv, PublishedInv,
     Current, NoIndex
<1> QED BY <1>4, <1>5, <1>6, <1>7, <1>8, <1>9, <1>10, <1>11, <1>12, <1>13,
     <1>14

LEMMA IndexFailsKeeps == ASSUME StoreInv, IndexFails PROVE StoreInv'
<1> USE DEF StoreInv
<1>0. /\ pc = "index" /\ ~IndexLost /\ write_index /\ IndexLost'
  <2>1. pc = "index" /\ ~IndexLost /\ write_index
    BY DEF IndexFails, PlaceInv, LostInv
  <2>2. head' = last_segment /\ last_segment' = last_segment + 1
    BY <2>1 DEF IndexFails
  <2>3. last_segment \in Nat
    BY DEF StoreTypeOK
  <2>4. pc' \notin {"free_index", "swap_index"}
    BY DEF IndexFails, AfterIndex
  <2> QED BY <2>1, <2>2, <2>3, <2>4
<1>1. mem' \in [Buffers -> BufferType] /\ Held' = Held
  BY DEF IndexFails, StoreTypeOK, BufferType, Held, Live
<1>2. StoreTypeOK'
  <2>1. write_index' \in BOOLEAN
    BY Zenon DEF IndexFails
  <2> QED BY <1>1, <2>1 DEF IndexFails, AfterIndex, StoreTypeOK, BufferType
<1>3. QueueInv'
  BY DEF IndexFails, AfterIndex, StoreTypeOK, QueueInv, Oldest
<1>4. PlaceInv'
  BY DEF IndexFails, AfterIndex, StoreTypeOK, PlaceInv
<1>5. MemInv'
  BY <1>1, BufferNames DEF IndexFails, AfterIndex, StoreTypeOK, MemInv,
     Oldest, Current
<1>6. WindowInv'
  BY <1>0 DEF WindowInv
<1>7. LastIndexInv'
  BY <1>0 DEF LastIndexInv
<1>8. SlackInv'
  BY DEF IndexFails, AfterIndex, StoreTypeOK, WindowInv, SlackInv, Oldest,
     Current, LostInv
<1>9. ReadyInv'
  BY DEF IndexFails, AfterIndex, StoreTypeOK, ReadyInv, WindowInv, LostInv,
     PlaceInv, PublishedInv, Current, NoIndex
<1>10. FirstInv'
  BY DEF IndexFails, AfterIndex, StoreTypeOK, PlaceInv, FirstInv, Oldest
<1>11. PublishedInv'
  BY DEF IndexFails, AfterIndex, StoreTypeOK, PlaceInv, WindowInv,
     PublishedInv, NoIndex, Current, LostInv
<1>12. LostInv'
  BY DEF IndexFails, AfterIndex, StoreTypeOK, WindowInv, LostInv, PlaceInv,
     PublishedInv, Current, NoIndex
<1> QED BY <1>2, <1>3, <1>4, <1>5, <1>6, <1>7, <1>8, <1>9, <1>10, <1>11, <1>12

LEMMA FreeIndexKeeps == ASSUME StoreInv, FreeIndex PROVE StoreInv'
<1> USE DEF StoreInv
<1>1. head \in Indexes /\ head = last_segment - 1
  BY DEF FreeIndex, StoreTypeOK, PlaceInv, WindowInv, Current, Indexes
<1>2. mem' \in [Buffers -> BufferType] /\ Held' = Held \ {Idx(head)}
  BY <1>1, MakesFreed, BufferNames DEF FreeIndex, StoreTypeOK, BufferType
<1>3. StoreTypeOK'
  BY <1>2 DEF FreeIndex, StoreTypeOK, BufferType
<1>4. QueueInv'
  BY DEF FreeIndex, StoreTypeOK, QueueInv, Oldest
<1>5. PlaceInv'
  BY DEF FreeIndex, StoreTypeOK, PlaceInv
<1>6. MemInv'
  <2>1. \A k \in Segments : Seg(k) \in Held' <=> Seg(k) \in Held
    BY <1>1, <1>2, BufferNames
  <2>2. \A g \in Indexes : Idx(g) \in Held' => Idx(g) \in Held /\ g # head
    BY <1>1, <1>2, BufferNames
  <2> QED BY <2>1, <2>2 DEF FreeIndex, StoreTypeOK, MemInv, Oldest, Current
<1>7. WindowInv'
  BY DEF FreeIndex, StoreTypeOK, PlaceInv, WindowInv, Oldest, Current, LostInv
<1>8. LastIndexInv'
  BY DEF FreeIndex, StoreTypeOK, WindowInv, FirstInv, LastIndexInv, Oldest,
     Current, LostInv
<1>9. SlackInv'
  BY DEF FreeIndex, StoreTypeOK, WindowInv, SlackInv, Oldest, Current, LostInv
<1>10. ReadyInv'
  BY DEF FreeIndex, StoreTypeOK, ReadyInv, WindowInv, LostInv, PlaceInv,
     PublishedInv, Current, NoIndex
<1>11. FirstInv'
  BY DEF FreeIndex, StoreTypeOK, PlaceInv, FirstInv, Oldest
<1>12. PublishedInv'
  BY DEF FreeIndex, StoreTypeOK, PlaceInv, WindowInv, PublishedInv, NoIndex,
     Current, LostInv
<1>13. LostInv'
  BY DEF FreeIndex, StoreTypeOK, WindowInv, LostInv, PlaceInv, PublishedInv,
     Current, NoIndex
<1> QED BY <1>3, <1>4, <1>5, <1>6, <1>7, <1>8, <1>9, <1>10, <1>11, <1>12, <1>13

LEMMA SwapIndexKeeps == ASSUME StoreInv, SwapIndex PROVE StoreInv'
<1> USE DEF StoreInv
<1>1. mem' \in [Buffers -> BufferType] /\ Held' = Held
  BY DEF SwapIndex, StoreTypeOK, BufferType, Held, Live
<1>2. StoreTypeOK'
  <2>1. last_segment \in Indexes
    BY DEF SwapIndex, StoreTypeOK, PlaceInv, WindowInv, Current, Indexes
  <2> QED BY <1>1, <2>1 DEF SwapIndex, AfterIndex, StoreTypeOK, BufferType
<1>3. QueueInv'
  BY DEF SwapIndex, AfterIndex, StoreTypeOK, QueueInv, Oldest
<1>4. PlaceInv'
  BY DEF SwapIndex, AfterIndex, StoreTypeOK, PlaceInv
<1>5. MemInv'
  BY <1>1, BufferNames DEF SwapIndex, AfterIndex, StoreTypeOK, MemInv, Oldest,
     Current
<1>6. WindowInv'
  BY DEF SwapIndex, AfterIndex, StoreTypeOK, PlaceInv, WindowInv, FirstInv,
     Oldest, Current, LostInv
<1>7. LastIndexInv'
  BY DEF SwapIndex, AfterIndex, StoreTypeOK, WindowInv, FirstInv,
     LastIndexInv, Oldest,
     Current, LostInv
<1>8. SlackInv'
  BY DEF SwapIndex, AfterIndex, StoreTypeOK, WindowInv, SlackInv, Oldest,
     Current, LostInv
<1>9. ReadyInv'
  BY DEF SwapIndex, AfterIndex, StoreTypeOK, ReadyInv, WindowInv, LostInv,
     PlaceInv, PublishedInv, Current, NoIndex
<1>10. FirstInv'
  BY DEF SwapIndex, AfterIndex, StoreTypeOK, PlaceInv, FirstInv, Oldest
<1>11. PublishedInv'
  BY DEF SwapIndex, AfterIndex, StoreTypeOK, PlaceInv, WindowInv,
     PublishedInv, NoIndex, Current, LostInv
<1>12. LostInv'
  BY DEF SwapIndex, AfterIndex, StoreTypeOK, WindowInv, LostInv, PlaceInv,
     PublishedInv, Current, NoIndex
<1> QED BY <1>2, <1>3, <1>4, <1>5, <1>6, <1>7, <1>8, <1>9, <1>10, <1>11, <1>12

LEMMA UnlinkKeeps == ASSUME StoreInv, Unlink PROVE StoreInv'
<1> USE DEF StoreInv
<1>1. mem' \in [Buffers -> BufferType] /\ Held' = Held
  BY DEF Unlink, StoreTypeOK, BufferType, Held, Live
<1>2. /\ unlinked' = Oldest /\ unlinked' \in Segments
      /\ queue' \in Seq(Segments) /\ Len(queue') = Len(queue) - 1
      /\ Oldest' = Oldest + 1 /\ Len(queue) \in Nat
  <2>1. /\ Len(queue) \in Nat \ {0} /\ Head(queue) = queue[1]
        /\ Tail(queue) \in Seq(Segments) /\ Len(Tail(queue)) = Len(queue) - 1
        /\ 1 \in DOMAIN queue
    BY DEF Unlink, StoreTypeOK
  <2>2. /\ unlinked' = Head(queue) /\ queue' = Tail(queue)
        /\ output_index' = output_index /\ output_index \in Nat
    BY DEF Unlink, StoreTypeOK
  <2>3. queue[1] = Oldest /\ queue[1] \in Segments
    BY <2>1, SMTT(30) DEF StoreTypeOK, QueueInv, Oldest
  <2> QED BY <2>1, <2>2, <2>3 DEF Oldest
<1>3. StoreTypeOK'
  BY <1>1, <1>2 DEF Unlink, StoreTypeOK, BufferType
<1>4. QueueInv'
  BY DEF Unlink, StoreTypeOK, QueueInv, Oldest
<1>5. PlaceInv'
  BY DEF Unlink, StoreTypeOK, PlaceInv
<1>6. MemInv'
  BY <1>1, <1>2, SMTT(30) DEF Unlink, StoreTypeOK, MemInv, Oldest, Current,
     Segments
<1>7. WindowInv'
  <2>1. /\ pc = "unlink" /\ pc' = "free_segment"
        /\ UNCHANGED <<first_segment, last_segment, output_index, write_index,
                       remove_file, head, index>>
    BY DEF Unlink
  <2> QED BY <1>2, <2>1 DEF StoreTypeOK, PlaceInv, WindowInv, Current
<1>8. LastIndexInv'
  BY DEF Unlink, LastIndexInv, LostInv
<1>9. SlackInv'
  BY <1>2 DEF Unlink, StoreTypeOK, SlackInv, LostInv
<1>10. ReadyInv'
  BY DEF Unlink, StoreTypeOK, ReadyInv, WindowInv, LostInv, PlaceInv,
     PublishedInv, Current, NoIndex
<1>11. FirstInv'
  BY <1>2 DEF Unlink, StoreTypeOK, PlaceInv, FirstInv, Oldest
<1>12. PublishedInv'
  BY DEF Unlink, StoreTypeOK, PlaceInv, WindowInv, PublishedInv, NoIndex,
     Current, LostInv
<1>13. LostInv'
  BY DEF Unlink, StoreTypeOK, WindowInv, LostInv, PlaceInv, PublishedInv,
     Current, NoIndex
<1> QED BY <1>3, <1>4, <1>5, <1>6, <1>7, <1>8, <1>9, <1>10, <1>11, <1>12, <1>13

LEMMA FreeSegmentKeeps == ASSUME StoreInv, FreeSegment PROVE StoreInv'
<1> USE DEF StoreInv
<1>1. unlinked \in Segments
  BY DEF FreeSegment, StoreTypeOK, MemInv
<1>2. mem' \in [Buffers -> BufferType] /\ Held' = Held \ {Seg(unlinked)}
  BY <1>1, MakesFreed, BufferNames DEF FreeSegment, StoreTypeOK, BufferType
<1>3. StoreTypeOK'
  BY <1>2 DEF FreeSegment, StoreTypeOK, BufferType
<1>4. QueueInv'
  BY DEF FreeSegment, StoreTypeOK, QueueInv, Oldest
<1>5. PlaceInv'
  BY DEF FreeSegment, StoreTypeOK, PlaceInv
<1>6. MemInv'
  <2>1. \A k \in Segments :
          Seg(k) \in Held' <=> Seg(k) \in Held /\ k # unlinked
    BY <1>1, <1>2, BufferNames
  <2>2. \A g \in Indexes : Idx(g) \in Held' <=> Idx(g) \in Held
    BY <1>1, <1>2, BufferNames
  <2> QED BY <1>1, <2>1, <2>2, SMTT(30) DEF FreeSegment, StoreTypeOK, MemInv,
     Oldest, Current, Segments
<1>7. WindowInv'
  BY DEF FreeSegment, StoreTypeOK, PlaceInv, WindowInv, Oldest, Current,
     LostInv
<1>8. LastIndexInv'
  BY DEF FreeSegment, StoreTypeOK, WindowInv, FirstInv, LastIndexInv, Oldest,
     Current, LostInv
<1>9. SlackInv'
  BY DEF FreeSegment, StoreTypeOK, WindowInv, SlackInv, Oldest, Current,
     LostInv
<1>10. ReadyInv'
  BY DEF FreeSegment, StoreTypeOK, ReadyInv, WindowInv, LostInv, PlaceInv,
     PublishedInv, Current, NoIndex
<1>11. FirstInv'
  BY DEF FreeSegment, StoreTypeOK, PlaceInv, FirstInv, Oldest
<1>12. PublishedInv'
  BY DEF FreeSegment, StoreTypeOK, PlaceInv, WindowInv, PublishedInv, NoIndex,
     Current, LostInv
<1>13. LostInv'
  BY DEF FreeSegment, StoreTypeOK, WindowInv, LostInv, PlaceInv, PublishedInv,
     Current, NoIndex
<1> QED BY <1>3, <1>4, <1>5, <1>6, <1>7, <1>8, <1>9, <1>10, <1>11, <1>12, <1>13

LEMMA OpenSegmentKeeps == ASSUME StoreInv, OpenSegment PROVE StoreInv'
<1> USE DEF StoreInv
<1>1. /\ output_index \in Segments
      /\ queue' \in Seq(Segments) /\ Len(queue') = Len(queue) + 1
      /\ Len(queue) \in Nat
      /\ \A i \in DOMAIN queue' :
           queue'[i] = IF i = Len(queue) + 1 THEN output_index ELSE queue[i]
      /\ output_index' = output_index + 1 /\ Oldest' = Oldest
  BY DEF OpenSegment, AddSegment, StoreTypeOK, PlaceInv, Segments, Oldest
<1>2. mem' \in [Buffers -> BufferType] /\ Held' = Held \cup {Seg(output_index)}
  BY <1>1, MakesLive, BufferNames DEF OpenSegment, AddSegment, StoreTypeOK,
     BufferType
<1>3. StoreTypeOK'
  BY <1>1, <1>2 DEF OpenSegment, AddSegment, StoreTypeOK, BufferType, Segments
<1>4. QueueInv'
  <2>1. DOMAIN queue = 1 .. Len(queue) /\ DOMAIN queue' = 1 .. Len(queue')
    BY <1>1 DEF StoreTypeOK
  <2>2. Len(queue') < output_index' /\ output_index = Oldest + Len(queue)
    BY <1>1 DEF StoreTypeOK, QueueInv, Oldest
  <2>3. ASSUME NEW i \in DOMAIN queue' PROVE queue'[i] = Oldest' + i - 1
    BY <1>1, <2>1, <2>2, <2>3 DEF QueueInv
  <2> QED BY <2>2, <2>3 DEF QueueInv
<1>5. PlaceInv'
  BY <1>1 DEF OpenSegment, AddSegment, StoreTypeOK, PlaceInv
<1>6. MemInv'
  <2>1. \A k \in Segments :
          Seg(k) \in Held' <=> Seg(k) \in Held \/ k = output_index
    BY <1>1, <1>2, BufferNames
  <2>2. \A g \in Indexes : Idx(g) \in Held' <=> Idx(g) \in Held
    BY <1>1, <1>2, BufferNames
  <2>3. Oldest \in Int /\ Oldest <= output_index
    BY DEF QueueInv, Oldest, StoreTypeOK
  <2> QED BY <1>1, <2>1, <2>2, <2>3 DEF OpenSegment, AddSegment, StoreTypeOK,
     MemInv, Current, Segments
<1>7. WindowInv'
  BY <1>1 DEF OpenSegment, AddSegment, StoreTypeOK, PlaceInv, WindowInv,
     Current, LostInv
<1>8. LastIndexInv'
  BY <1>1 DEF OpenSegment, AddSegment, StoreTypeOK, WindowInv, FirstInv,
     LastIndexInv,
     Current, Oldest, LostInv
<1>9. SlackInv'
  BY <1>1 DEF OpenSegment, AddSegment, StoreTypeOK, SlackInv, LostInv
<1>10. ReadyInv'
  BY <1>1 DEF OpenSegment, AddSegment, IsReady, StoreTypeOK, ReadyInv, LostInv,
     PlaceInv, PublishedInv, NoIndex, WindowInv, Current
<1>11. FirstInv'
  BY <1>2 DEF OpenSegment, AddSegment, StoreTypeOK, PlaceInv, FirstInv, Oldest
<1>12. PublishedInv'
  BY DEF OpenSegment, AddSegment, IsReady, StoreTypeOK, PlaceInv, WindowInv,
     PublishedInv, NoIndex, Current, LostInv
<1>13. LostInv'
  BY <1>1 DEF OpenSegment, AddSegment, IsReady, StoreTypeOK, LostInv, PlaceInv,
     PublishedInv, NoIndex, WindowInv, Current
<1> QED BY <1>3, <1>4, <1>5, <1>6, <1>7, <1>8, <1>9, <1>10, <1>11, <1>12, <1>13

LEMMA OpenFailsKeeps == ASSUME StoreInv, OpenFails PROVE StoreInv'
<1> USE DEF StoreInv
<1>1. /\ output_index \in Segments
      /\ queue' \in Seq(Segments) /\ Len(queue') = Len(queue) + 1
      /\ Len(queue) \in Nat
      /\ \A i \in DOMAIN queue' :
           queue'[i] = IF i = Len(queue) + 1 THEN output_index ELSE queue[i]
      /\ output_index' = output_index + 1 /\ Oldest' = Oldest
  BY DEF OpenFails, AddSegment, StoreTypeOK, PlaceInv, Segments, Oldest
<1>2. mem' \in [Buffers -> BufferType] /\ Held' = Held \cup {Seg(output_index)}
  BY <1>1, MakesLive, BufferNames DEF OpenFails, AddSegment, StoreTypeOK,
     BufferType
<1>3. StoreTypeOK'
  BY <1>1, <1>2 DEF OpenFails, AddSegment, StoreTypeOK, BufferType, Segments
<1>4. QueueInv'
  <2>1. DOMAIN queue = 1 .. Len(queue) /\ DOMAIN queue' = 1 .. Len(queue')
    BY <1>1 DEF StoreTypeOK
  <2>2. Len(queue') < output_index' /\ output_index = Oldest + Len(queue)
    BY <1>1 DEF StoreTypeOK, QueueInv, Oldest
  <2>3. ASSUME NEW i \in DOMAIN queue' PROVE queue'[i] = Oldest' + i - 1
    BY <1>1, <2>1, <2>2, <2>3 DEF QueueInv
  <2> QED BY <2>2, <2>3 DEF QueueInv
<1>5. PlaceInv'
  BY <1>1 DEF OpenFails, AddSegment, StoreTypeOK, PlaceInv
<1>6. MemInv'
  <2>1. \A k \in Segments :
          Seg(k) \in Held' <=> Seg(k) \in Held \/ k = output_index
    BY <1>1, <1>2, BufferNames
  <2>2. \A g \in Indexes : Idx(g) \in Held' <=> Idx(g) \in Held
    BY <1>1, <1>2, BufferNames
  <2>3. Oldest \in Int /\ Oldest <= output_index
    BY DEF QueueInv, Oldest, StoreTypeOK
  <2> QED BY <1>1, <2>1, <2>2, <2>3 DEF OpenFails, AddSegment, StoreTypeOK,
     MemInv, Current, Segments
<1>7. WindowInv'
  BY <1>1 DEF OpenFails, AddSegment, StoreTypeOK, PlaceInv, WindowInv, Current,
     LostInv
<1>8. LastIndexInv'
  BY <1>1 DEF OpenFails, AddSegment, StoreTypeOK, WindowInv, FirstInv,
     LastIndexInv,
     Current, Oldest, LostInv
<1>9. SlackInv'
  BY <1>1 DEF OpenFails, AddSegment, StoreTypeOK, SlackInv, LostInv
<1>10. ReadyInv'
  BY <1>1 DEF OpenFails, AddSegment, StoreTypeOK, ReadyInv, WindowInv, LostInv,
     PlaceInv, PublishedInv, Current, NoIndex
<1>11. FirstInv'
  BY <1>2 DEF OpenFails, AddSegment, StoreTypeOK, PlaceInv, FirstInv, Oldest
<1>12. PublishedInv'
  BY DEF OpenFails, AddSegment, StoreTypeOK, PlaceInv, WindowInv,
     PublishedInv, NoIndex, Current, LostInv
<1>13. LostInv'
  BY <1>1 DEF OpenFails, AddSegment, StoreTypeOK, WindowInv, LostInv, PlaceInv,
     PublishedInv, Current, NoIndex
<1> QED BY <1>3, <1>4, <1>5, <1>6, <1>7, <1>8, <1>9, <1>10, <1>11, <1>12, <1>13

\* Both ways out of the setup make the first segment; Setup adds an index.
LEMMA SetupKeeps == ASSUME StoreInv, Setup PROVE StoreInv'
<1> USE DEF StoreInv
<1>1. /\ Held = {} /\ 1 \in Segments /\ 0 \in Indexes
      /\ pc = "start" /\ head = NoIndex /\ output_index = 1 /\ unlinked = 0
      /\ first_segment = 1 /\ last_segment = 0 /\ ready = 0
      /\ index[0].first = 1 /\ index[0].last = 0 /\ write_index
  <2>1. pc = "start"
    BY DEF Setup
  <2>2. \A k \in Segments : Seg(k) \notin Held
    BY <2>1 DEF PlaceInv, MemInv, StoreTypeOK, Oldest, Current, Segments
  <2>3. \A g \in Indexes : Idx(g) \notin Held
    BY <2>1 DEF PlaceInv, MemInv, NoIndex, Indexes
  <2>4. Held = {}
    BY <2>2, <2>3, BufferNames DEF Held
  <2> QED BY <2>1, <2>4 DEF PlaceInv, MemInv, Segments, Indexes
<1>2. /\ pc' = "loop" /\ queue' = <<1>> /\ output_index' = 2
      /\ UNCHANGED <<closing, first_segment, last_segment, remove_file, index,
                     unlinked, ready>>
  BY DEF Setup
<1>3. /\ mem' \in [Buffers -> BufferType]
      /\ \/ Held' = {Seg(1)} /\ ~write_index' /\ head' = NoIndex
         \/ Held' = {Seg(1), Idx(0)} /\ write_index' /\ head' = 0
  <2> DEFINE n == IndexLength(1, 0, FALSE)
             one == [mem EXCEPT ![Seg(1)] = Fresh(0)]
  <2>1. n \in Nat
    BY LengthType
  <2>2. /\ mem \in [Buffers -> BufferType]
        /\ Seg(1) \in Buffers /\ Idx(0) \in Buffers
    BY <1>1, BufferNames DEF StoreTypeOK, BufferType
  <2> HIDE DEF n
  <2>3. CASE /\ mem' = [mem EXCEPT ![Seg(1)] = Fresh(0), ![Idx(0)] = Fresh(n)]
             /\ head' = 0 /\ UNCHANGED write_index
    BY <1>1, <2>1, <2>2, <2>3 DEF Held, Live, BufferType, Fresh
  <2>4. CASE mem' = one /\ write_index' = FALSE /\ UNCHANGED head
    BY <1>1, <2>2, <2>4, MakesLive
  <2> QED BY <2>3, <2>4 DEF Setup, n
<1>4. /\ Len(queue') = 1 /\ queue'[1] = 1 /\ DOMAIN queue' = {1}
      /\ queue' \in Seq(Segments) /\ Oldest' = 1 /\ Current' = 1
  BY <1>1, <1>2 DEF Oldest, Current
<1>5. StoreTypeOK'
  <2>1. write_index' \in BOOLEAN
    BY Zenon DEF Setup, StoreTypeOK
  <2> QED BY <1>1, <1>2, <1>3, <1>4, <2>1 DEF StoreTypeOK, BufferType
<1>6. QueueInv' /\ PlaceInv'
  BY <1>2, <1>4 DEF QueueInv, PlaceInv
<1>7. MemInv'
  <2>1. \A k \in Segments : Seg(k) \in Held' <=> k = 1
    BY <1>1, <1>3, BufferNames
  <2>2. \A g \in Indexes : Idx(g) \in Held' => g = head'
    BY <1>1, <1>3, BufferNames
  <2> QED BY <1>1, <1>2, <1>4, <2>1, <2>2 DEF MemInv, Segments
<1>8. WindowInv' /\ LastIndexInv'
  BY <1>1, <1>2, <1>3, <1>4 DEF WindowInv, LastIndexInv
<1>9. FirstInv' /\ PublishedInv'
  BY <1>1, <1>2, <1>3, <1>4 DEF FirstInv, PublishedInv, NoIndex
<1>10. SlackInv' /\ ReadyInv' /\ LostInv'
  BY <1>1, <1>2, <1>3, <1>4 DEF SlackInv, ReadyInv, LostInv, NoIndex
<1> QED BY <1>5, <1>6, <1>7, <1>8, <1>10, <1>9

LEMMA SetupFailsKeeps == ASSUME StoreInv, SetupFails PROVE StoreInv'
<1> USE DEF StoreInv
<1>1. /\ pc = "start" /\ pc' = "destroy" /\ head = NoIndex /\ head' = NoIndex
      /\ unlinked = 0 /\ ready = 0 /\ output_index = 1 /\ queue = <<>>
      /\ 1 \in Segments
      /\ UNCHANGED <<closing, first_segment, last_segment, write_index,
                     remove_file, index, unlinked, ready>>
  BY DEF SetupFails, PlaceInv, MemInv, Segments
<1>2. /\ mem' \in [Buffers -> BufferType]
      /\ \/ queue' = <<>> /\ output_index' = 1 /\ Held' = Held
         \/ queue' = <<1>> /\ output_index' = 2 /\ Held' = Held \cup {Seg(1)}
  <2>1. CASE UNCHANGED <<queue, output_index, mem>>
    BY <1>1, <2>1 DEF StoreTypeOK, BufferType, Held, Live
  <2>2. CASE /\ queue' = <<1>> /\ output_index' = 2
             /\ mem' = [mem EXCEPT ![Seg(1)] = Fresh(0)]
    BY <1>1, <2>2, MakesLive, BufferNames DEF StoreTypeOK, BufferType
  <2> QED BY <2>1, <2>2 DEF SetupFails
<1>3. /\ queue' \in Seq(Segments) /\ Len(queue') < output_index'
      /\ \A i \in DOMAIN queue' : queue'[i] = i
      /\ Oldest' = 1 /\ Len(queue') <= 1
  <2>1. CASE queue' = <<>> /\ output_index' = 1
    BY <2>1 DEF Oldest
  <2>2. CASE queue' = <<1>> /\ output_index' = 2
    BY <1>1, <2>2 DEF Oldest
  <2> QED BY <1>2, <2>1, <2>2
<1>4. StoreTypeOK'
  BY <1>1, <1>2, <1>3 DEF StoreTypeOK, BufferType
<1>5. QueueInv' /\ PlaceInv'
  BY <1>1, <1>3 DEF QueueInv, PlaceInv
<1>6. MemInv'
  <2>1. \A k \in Segments : Seg(k) \notin Held
    BY <1>1 DEF MemInv, StoreTypeOK, Oldest, Current, Segments
  <2>2. \A g \in Indexes : Idx(g) \notin Held
    BY <1>1 DEF MemInv, NoIndex, Indexes
  <2>3. \A k \in Segments : Seg(k) \in Held' <=> k \in 1 .. Current'
    BY <1>1, <1>2, <2>1, BufferNames DEF Current, Segments
  <2>4. \A g \in Indexes : Idx(g) \notin Held'
    BY <1>1, <1>2, <2>2, BufferNames
  <2> QED BY <1>1, <1>3, <2>3, <2>4 DEF MemInv, Segments
<1>7. WindowInv' /\ LostInv' /\ LastIndexInv' /\ SlackInv' /\ ReadyInv'
  BY <1>1, <1>3 DEF WindowInv, LostInv, LastIndexInv, SlackInv, ReadyInv,
     PlaceInv, NoIndex
<1>8. FirstInv' /\ PublishedInv'
  BY <1>1, <1>3 DEF FirstInv, PlaceInv, PublishedInv
<1> QED BY <1>4, <1>5, <1>6, <1>7, <1>8

\* Whichever way it ends, nothing is left.
LEMMA DestroyKeeps ==
  ASSUME StoreInv, Destroy \/ DestroyWithoutIndex PROVE StoreInv'
<1> USE DEF StoreInv
<1>1. /\ pc = "destroy" /\ pc' \in {"finished", "crashed"} /\ unlinked = 0
      /\ UNCHANGED <<closing, first_segment, last_segment, output_index,
                     write_index, remove_file, queue, head, index, unlinked,
                     ready>>
  BY DEF Destroy, DestroyWithoutIndex, MemInv
<1>2. /\ mem' \in [Buffers -> BufferType]
      /\ \A k \in Segments : Seg(k) \notin Held'
      /\ \A g \in Indexes : Idx(g) \notin Held'
  <2>1. mem \in [Buffers -> BufferType]
    BY DEF StoreTypeOK, BufferType
  <2>2. \A k \in Segments : Seg(k) \in Held => Seg(k) \in QueuedBuffers
    <3> SUFFICES ASSUME NEW k \in Segments, k \in Oldest .. Current
                 PROVE  Seg(k) \in QueuedBuffers
      BY <1>1 DEF MemInv, Segments
    <3>1. k - Oldest + 1 \in DOMAIN queue /\ queue[k - Oldest + 1] = k
      BY DEF StoreTypeOK, QueueInv, Oldest, Current, Segments
    <3> QED BY <3>1 DEF QueuedBuffers
  <2>3. \A g \in Indexes : Idx(g) \in Held => g = head
    BY <1>1 DEF MemInv
  <2>4. CASE Destroy
    BY <2>1, <2>2, <2>3, <2>4, FreesAll DEF Destroy
  <2>5. CASE DestroyWithoutIndex
    BY <2>1, <2>2, <2>3, <2>5, FreesAll DEF DestroyWithoutIndex, NoIndex,
       Indexes
  <2> QED BY <2>4, <2>5
<1>3. StoreTypeOK'
  BY <1>1, <1>2 DEF StoreTypeOK, BufferType
<1>4. QueueInv' /\ PlaceInv'
  BY <1>1 DEF StoreTypeOK, QueueInv, PlaceInv, Oldest
<1>5. MemInv'
  BY <1>1, <1>2 DEF MemInv, Oldest
<1>6. WindowInv' /\ LostInv' /\ LastIndexInv' /\ SlackInv' /\ ReadyInv'
  BY <1>1 DEF WindowInv, LostInv, LastIndexInv, SlackInv, ReadyInv, Current
<1>7. FirstInv' /\ PublishedInv'
  BY <1>1 DEF FirstInv, PublishedInv, Oldest
<1> QED BY <1>3, <1>4, <1>5, <1>6, <1>7

LEMMA StutterKeeps == ASSUME StoreInv, UNCHANGED storeVars PROVE StoreInv'
<1>1. Held' = Held
  BY DEF storeVars, Held, Live
<1> QED BY <1>1 DEF storeVars, StoreInv, StoreTypeOK, QueueInv, PlaceInv,
   MemInv, WindowInv, LostInv, FirstInv, PublishedInv, LastIndexInv, SlackInv,
   ReadyInv, Oldest, Current

LEMMA StepKeeps == ASSUME StoreInv, [StoreNext]_storeVars PROVE StoreInv'
<1>1. CASE Rotate \/ EndOfStream
  BY <1>1, CloseKeeps DEF Rotate, EndOfStream
<1> QED BY <1>1, SetupKeeps, SetupFailsKeeps, WriteFrameKeeps, BuildIndexKeeps,
     IndexFailsKeeps, FreeIndexKeeps, SwapIndexKeeps, UnlinkKeeps,
     FreeSegmentKeeps, OpenSegmentKeeps, OpenFailsKeeps, DestroyKeeps,
     StutterKeeps DEF StoreNext

LEMMA StoreInductive == StoreSpec => []StoreInv
BY InitInv, StepKeeps, PTL DEF StoreSpec

\* What the segments named by an index that is still there have in common.
LEMMA NamedInv == StoreInv => IndexNamesKeptSegments
<1> SUFFICES ASSUME StoreInv, head # NoIndex, Live(Idx(head)),
                    NEW k \in Listing(head),
                    ~IndexLost \/ k >= first_segment
             PROVE  Kept(k)
  BY DEF IndexNamesKeptSegments
<1> USE DEF StoreInv
<1>1. head \in Indexes /\ Idx(head) \in Held
  BY BufferNames DEF StoreTypeOK, Held
<1>2. pc # "start" /\ ~Ended
  BY <1>1 DEF PlaceInv, MemInv, StoreTypeOK
<1>3. k \in Oldest .. Current /\ (pc = "loop" => k < Current)
  <2>1. /\ k \in index[head].first .. index[head].last
        /\ index[head].first \in Nat
    BY <1>1 DEF Listing, StoreTypeOK
  <2>2. CASE ~IndexLost /\ Running
    <3>1. /\ index[head].last = head /\ index[head].first >= Oldest
          /\ head <= Current /\ (pc = "loop" => head < Current)
      BY <1>1, <2>2, SMTT(30) DEF WindowInv, FirstInv, StoreTypeOK, QueueInv,
         Oldest, Current, Indexes
    <3> QED BY <1>1, <2>1, <3>1 DEF StoreTypeOK, Oldest, Current, Indexes
  <2>3. CASE ~IndexLost /\ pc = "destroy"
    BY <1>1, <2>1, <2>3, SMTT(30) DEF LastIndexInv, StoreTypeOK, QueueInv,
       Oldest, Current, Indexes
  <2>4. CASE IndexLost
    <3>1. index[head].last = head /\ head < Current
      BY <2>4 DEF LostInv
    <3>2. k >= Oldest
      BY <2>1, <2>4 DEF FirstInv, StoreTypeOK, Oldest
    <3> QED BY <1>1, <2>1, <3>1, <3>2 DEF StoreTypeOK, Oldest, Current, Indexes
  <2> QED BY <1>2, <2>2, <2>3, <2>4 DEF StoreTypeOK
<1>4. k \in Segments
  BY <1>3 DEF StoreTypeOK, QueueInv, Oldest, Current, Segments
<1>5. k - Oldest + 1 \in DOMAIN queue /\ queue[k - Oldest + 1] = k
  BY <1>3 DEF StoreTypeOK, QueueInv, Oldest, Current
<1>6. Live(Seg(k))
  BY <1>2, <1>3, <1>4 DEF MemInv, Held
<1>7. Complete(k)
  BY <1>3, <1>4 DEF Complete, StoreTypeOK, Oldest, Current, Segments
<1> QED BY <1>5, <1>6, <1>7 DEF Kept

LEMMA BoundedInv == StoreInv => BoundedWhileIndexed
BY DEF StoreInv, SlackInv, BoundedWhileIndexed, KeptAtMost

LEMMA ReadyWithThreeInv == StoreInv => ReadyWithThree
BY DEF StoreInv, ReadyInv, ReadyWithThree, StoreTypeOK, Complete, Current

LEMMA NoLeakInv == StoreInv => NoLeak
BY BufferNames DEF StoreInv, MemInv, NoLeak, Held

-----------------------------------------------------------------------------
(* The theorems.                                                           *)

\* Every number stays in its range: no index and no segment is made beyond
\* the bounds the names are made for, and no counter goes below zero.
THEOREM StoreTypes == StoreSpec => []StoreTypeOK
<1>1. StoreInv => StoreTypeOK
  BY DEF StoreInv
<1> QED BY <1>1, StoreInductive, PTL

\* Whoever fetches the index can fetch every segment it names, whatever the
\* window and wherever the segmenter is between its rotations, as long as the
\* last index due could be written; and of an index that could not be replaced
\* every segment that has not been dropped since.
THEOREM NamedIsKept == StoreSpec => []IndexNamesKeptSegments
BY NamedInv, StoreInductive, PTL

\* The window holds at most num_segments and one more, for every num_segments,
\* while indexes can be written: the test on first_segment and last_segment in
\* istb_m3u8_task does not come one too late.
THEOREM WindowBounded == StoreSpec => []BoundedWhileIndexed
BY BoundedInv, StoreInductive, PTL

\* main's callback is told M3U8_SEGMENT_READY with the third finished segment,
\* not sooner, with an index published, and a second time only if the index of
\* that segment could not be written.
THEOREM ReadyInTime == StoreSpec => []ReadyWithThree
BY ReadyWithThreeInv, StoreInductive, PTL

\* However the thread ends (setup, index or output failing, end of stream),
\* all the buffers it made are freed.
THEOREM GivesAllBack == StoreSpec => []NoLeak
BY NoLeakInv, StoreInductive, PTL

\* From one index to the next the list of a client moves on by one segment
\* and loses at most the first.
THEOREM IndexSlides == StoreSpec => PlaylistSlides
<1>1. ASSUME StoreInv, [StoreNext]_storeVars, head' # head, head # NoIndex
      PROVE  /\ index[head'].last = index[head].last + 1
             /\ index[head'].first - index[head].first \in {0, 1}
  <2>1. SwapIndex
    BY <1>1 DEF storeVars, StoreNext, Setup, SetupFails, WriteFrame, Rotate,
       EndOfStream,
       Close, BuildIndex, IndexFails, FreeIndex, Unlink, FreeSegment,
       OpenSegment, OpenFails, Destroy, DestroyWithoutIndex, StoreInv, PlaceInv
  <2>2. pc = "swap_index" /\ head' = last_segment
    BY <1>1, <2>1 DEF SwapIndex
  <2>3. last_segment \in Nat /\ Oldest \in Int
    BY <1>1 DEF StoreInv, StoreTypeOK, Oldest
  <2>4. /\ head = last_segment - 1 /\ index[head].last = head
        /\ index[last_segment].last = last_segment
        /\ index[last_segment].first = first_segment
        /\ first_segment \in {Oldest, Oldest + 1}
        /\ index[head].first = Oldest
    BY <1>1, <2>2 DEF StoreInv, WindowInv, FirstInv
  <2> QED BY <2>2, <2>3, <2>4
<1> QED BY <1>1, StoreInductive, PTL DEF StoreSpec, PlaylistSlides

-----------------------------------------------------------------------------
(* The service.                                                            *)

\* The buffers made so far, by the numbers they were made for.
Made ==
  {Seg(k) : k \in 1 .. Current} \cup
  {Idx(g) : g \in IF pc = "start" THEN {} ELSE 0 .. last_segment}

\* The handler has set up the reply.
Replied(c) == conn[c].st \in {"open", "closed", "gone"}
ReaderOf(c, b) == Replied(c) /\ conn[c].handle = b

\* What a connection has holds of its own.
ConnOK(c) ==
  /\ conn[c].handle # NoHandle => conn[c].handle \in Made
  /\ conn[c].handle = NoHandle \/ ~Replied(c) => conn[c].got = <<>>
  /\ conn[c].st = "idle" => conn[c].handle = NoHandle
  /\ conn[c].st # "idle" => ready > 0
  /\ conn[c].name = IndexName =>
       \A k \in Segments : Replied(c) => conn[c].handle # Seg(k)
  /\ (/\ conn[c].st = "found"
      /\ conn[c].name # IndexName /\ conn[c].handle # NoHandle) =>
       conn[c].size <= mem[conn[c].handle].write_ptr
  /\ Replied(c) => conn[c].promised = conn[c].cl + Len(conn[c].got)
  /\ conn[c].got # <<>> => conn[c].cl >= 0
  /\ Replied(c) /\ conn[c].range = NoRange =>
       /\ conn[c].cl >= 0
       /\ conn[c].name # IndexName /\ conn[c].handle # NoHandle =>
            conn[c].promised <= mem[conn[c].handle].write_ptr
ConnInv == \A c \in Conns : ConnOK(c)

\* What opens says of the readers of a buffer.
OpensOK(b) ==
  /\ opens[b] > 0 => b \in Made
  /\ opens[b] = 0 => /\ mem[b].read_ptr = 0
                     /\ \A c \in Conns : ~ReaderOf(c, b)
  /\ opens[b] = 1 =>
       \A c, d \in Conns : ReaderOf(c, b) /\ ReaderOf(d, b) => c = d
OpensInv == \A b \in Buffers : OpensOK(b)

\* The first byte of the reply.
From(c) == IF conn[c].range = NoRange THEN 0 ELSE conn[c].range[1]

\* Who alone reads a buffer finds read_ptr where it has left it.
AloneOK(c, b) ==
  ReaderOf(c, b) /\ opens[b] = 1 =>
    /\ conn[c].got = [i \in 1 .. Len(conn[c].got) |-> From(c) + i - 1]
    /\ mem[b].read_ptr = From(c) + Len(conn[c].got)
    /\ conn[c].got # <<>> => mem[b].read_ptr <= mem[b].write_ptr
    /\ conn[c].st = "closed" /\ conn[c].range = NoRange
         /\ conn[c].name # IndexName => conn[c].cl = 0
AloneInv == \A c \in Conns, b \in Buffers : AloneOK(c, b)

\* Where nobody seeks, read_ptr only moves on.
Unsought(b) == \A e \in Conns : ReaderOf(e, b) => conn[e].range = NoRange
Apart(c, d) ==
  \A i \in DOMAIN conn[c].got, j \in DOMAIN conn[d].got :
     conn[c].got[i] # conn[d].got[j]
SharedOK(c, b) ==
  /\ \A i \in DOMAIN conn[c].got : conn[c].got[i] < mem[b].read_ptr
  /\ \A d \in Conns \ {c} : ReaderOf(d, b) => Apart(c, d)
SharedInv ==
  \A b \in Buffers : Unsought(b) =>
    \A c \in Conns : ReaderOf(c, b) => SharedOK(c, b)

\* What a step of the segmenter does not do to a buffer.
Undisturbed(b) ==
  /\ b \in Made => /\ b \in Made' /\ mem'[b].read_ptr = mem[b].read_ptr
                   /\ mem[b].write_ptr <= mem'[b].write_ptr
  /\ b \notin Made => mem'[b].read_ptr \in {0, mem[b].read_ptr}

\* The published index is one of those that were made; the thread only
\* crashes without one.
HeadInv ==
  /\ head <= last_segment
  /\ pc = "crashed" => head = NoIndex

HlsInv ==
  /\ StoreInv /\ HlsTypeOK /\ HeadInv
  /\ ConnInv /\ OpensInv /\ AloneInv /\ SharedInv

USE StoreAssumption, ServiceAssumption
    DEF Ended, Running, Publishing, Removing, Made, Replied, ReaderOf,
        ConnOK, OpensOK, AloneOK, SharedOK, Unsought, Apart,
        Undisturbed

-----------------------------------------------------------------------------
(* The segmenter's steps.                                                  *)

\* A buffer that was made keeps its read_ptr and what is written in it.
LEMMA StoreTouches ==
  ASSUME StoreInv, StoreNext, NEW b \in Buffers
  PROVE  Undisturbed(b)
<1> USE DEF StoreInv
<1>1. /\ mem \in [Buffers -> BufferType] /\ output_index \in Nat
      /\ last_segment \in Nat
  BY DEF StoreTypeOK, BufferType
<1>2. ASSUME NEW x \in Buffers, NEW n \in Nat, x \notin Made,
             mem' = [mem EXCEPT ![x] = Fresh(n)], Made \subseteq Made'
      PROVE  Undisturbed(b)
  <2> HIDE DEF Made
  <2> QED BY <1>1, <1>2 DEF BufferType, Fresh
<1>3. ASSUME UNCHANGED <<output_index, last_segment>>,
             pc # "start", pc' # "start",
             mem' = mem
               \/ (\E x \in Buffers : mem' = [mem EXCEPT ![x].st = "freed"])
               \/ (\E x : mem' = Freed(x))
               \/ (\E x \in Buffers, n \in Nat :
                     mem' = [mem EXCEPT ![x].write_ptr = @ + n])
      PROVE  Undisturbed(b)
  <2>1. Made' = Made
    BY <1>3 DEF Current
  <2> HIDE DEF Made
  <2> QED BY <1>1, <1>3, <2>1 DEF BufferType, Freed
<1>4. CASE WriteFrame \/ Rotate \/ EndOfStream
  <2>1. \E x \in Buffers, n \in Nat :
          mem' = [mem EXCEPT ![x].write_ptr = @ + n]
    <3>1. PICK len \in SegLens : Grow(len)
      BY <1>4 DEF WriteFrame, Rotate, EndOfStream, Close
    <3>2. pc = "loop"
      BY <1>4 DEF WriteFrame, Rotate, EndOfStream, Close
    <3>3. Current \in Segments
      BY <3>2 DEF StoreTypeOK, PlaceInv, Current, Segments
    <3>4. len \in Nat
      BY <3>1 DEF Grow
    <3> QED BY <3>1, <3>3, <3>4, BufferNames DEF Grow
  <2> QED BY <1>3, <1>4, <2>1 DEF WriteFrame, Rotate, EndOfStream, Close,
     AfterClose
<1>5. CASE FreeIndex \/ SwapIndex \/ Unlink \/ FreeSegment \/ Destroy
           \/ DestroyWithoutIndex
  <2>1. FreeIndex => head \in Indexes
    BY SMTT(30) DEF FreeIndex, StoreTypeOK, PlaceInv, WindowInv, Current,
       Indexes
  <2>2. FreeSegment => unlinked \in Segments
    BY DEF FreeSegment, StoreTypeOK, MemInv
  <2>3. /\ UNCHANGED <<output_index, last_segment>>
        /\ pc # "start" /\ pc' # "start"
    BY <1>5 DEF FreeIndex, SwapIndex, AfterIndex, Unlink, FreeSegment, Destroy,
       DestroyWithoutIndex
  <2>4. mem' = mem
          \/ (\E x \in Buffers : mem' = [mem EXCEPT ![x].st = "freed"])
          \/ (\E x : mem' = Freed(x))
    BY <1>5, <2>1, <2>2, BufferNames DEF FreeIndex, SwapIndex, Unlink,
       FreeSegment, Destroy, DestroyWithoutIndex
  <2> QED BY <1>3, <2>3, <2>4
<1>6. CASE BuildIndex
  <2>1. /\ last_segment' = last_segment + 1 /\ last_segment' \in Indexes
        /\ UNCHANGED output_index /\ pc # "start" /\ pc' # "start"
    <3>1. pc = "index" /\ ~IndexLost
      BY <1>6 DEF BuildIndex, PlaceInv, LostInv
    <3> QED BY <1>6, <3>1 DEF BuildIndex, StoreTypeOK, PlaceInv, WindowInv,
       Current, Indexes
  <2>2. IndexLength(first_segment, last_segment', closing) \in Nat
    <3>1. first_segment \in Nat /\ last_segment' \in Nat /\ closing \in BOOLEAN
      BY <1>1, <2>1 DEF StoreTypeOK
    <3> QED BY <3>1, LengthType
  <2>3. Idx(last_segment') \notin Made /\ Made \subseteq Made'
    BY <1>1, <2>1 DEF Current, Seg, Idx
  <2> QED BY <1>2, <1>6, <2>1, <2>2, <2>3, BufferNames DEF BuildIndex
<1>7. CASE IndexFails
  <2>1. /\ last_segment' = last_segment + 1 /\ UNCHANGED <<output_index, mem>>
        /\ pc # "start" /\ pc' # "start"
    BY <1>7 DEF IndexFails, AfterIndex
  <2>2. Made \subseteq Made'
    BY <1>1, <2>1 DEF Current
  <2> QED BY <1>1, <2>1, <2>2 DEF BufferType
<1>8. CASE OpenSegment \/ OpenFails
  <2>1. /\ output_index' = output_index + 1 /\ output_index \in Segments
        /\ UNCHANGED last_segment /\ pc # "start" /\ pc' # "start"
        /\ mem' = [mem EXCEPT ![Seg(output_index)] = Fresh(0)]
    BY <1>8 DEF OpenSegment, OpenFails, AddSegment, PlaceInv, StoreTypeOK,
       Segments
  <2>2. Seg(output_index) \notin Made /\ Made \subseteq Made'
    BY <1>1, <2>1 DEF Current, Seg, Idx
  <2> QED BY <1>2, <2>1, <2>2, BufferNames
<1>9. CASE Setup \/ SetupFails
  <2>1. pc = "start" /\ Made = {} /\ 1 \in Segments /\ 0 \in Indexes
    <3>1. pc = "start"
      BY <1>9 DEF Setup, SetupFails
    <3>2. Current = 0
      BY <3>1 DEF PlaceInv, Current
    <3> QED BY <3>1, <3>2 DEF Segments, Indexes
  <2>2. \/ mem' = mem
        \/ \E n \in Nat :
             mem' = [mem EXCEPT ![Seg(1)] = Fresh(0), ![Idx(0)] = Fresh(n)]
        \/ mem' = [mem EXCEPT ![Seg(1)] = Fresh(0)]
    <3>1. IndexLength(1, 0, FALSE) \in Nat
      BY LengthType
    <3> QED BY <1>9, <3>1 DEF Setup, SetupFails
  <2> HIDE DEF Made
  <2> QED BY <1>1, <2>1, <2>2, BufferNames DEF BufferType, Fresh
<1> QED BY <1>4, <1>5, <1>6, <1>7, <1>8, <1>9 DEF StoreNext

\* READY is never taken back.
LEMMA ReadyGrows ==
  ASSUME StoreInv, StoreNext
  PROVE  ready' \in Nat /\ ready' >= ready
<1>1. ready' = ready \/ ready' = ready + 1
  BY DEF StoreNext, Setup, SetupFails, WriteFrame, Rotate, EndOfStream, Close,
     BuildIndex, IndexFails, FreeIndex, SwapIndex, Unlink, FreeSegment,
     OpenSegment, OpenFails, Destroy, DestroyWithoutIndex
<1> QED BY <1>1 DEF StoreInv, StoreTypeOK

\* The head moves only to the last index that was written.
LEMMA HeadStays == ASSUME StoreInv, HeadInv, StoreNext PROVE HeadInv'
<1>1. last_segment \in Nat /\ head \in Int
  BY DEF StoreInv, StoreTypeOK, Indexes, NoIndex
<1>2. pc' = "crashed" => DestroyWithoutIndex
  BY DEF StoreNext, Setup, SetupFails, WriteFrame, Rotate, EndOfStream, Close,
     AfterClose, BuildIndex, IndexFails, AfterIndex, FreeIndex, SwapIndex,
     Unlink, FreeSegment, OpenSegment, OpenFails, Destroy
<1>3. DestroyWithoutIndex => head' = NoIndex
  BY DEF DestroyWithoutIndex
<1>4. CASE Setup
  <2>1. head' = 0 \/ head' = head
    BY <1>4, Zenon DEF Setup
  <2>2. last_segment' = last_segment
    BY <1>4, Zenon DEF Setup
  <2> QED BY <1>1, <1>2, <1>3, <2>1, <2>2 DEF HeadInv
<1>5. CASE SwapIndex
  BY <1>1, <1>2, <1>3, <1>5 DEF SwapIndex, HeadInv
<1>6. CASE ~Setup /\ ~SwapIndex
  <2>1. head' = head /\ last_segment' \in {last_segment, last_segment + 1}
    BY <1>6 DEF StoreNext, SetupFails, WriteFrame, Rotate, EndOfStream, Close,
       BuildIndex, IndexFails, FreeIndex, Unlink, FreeSegment, OpenSegment,
       OpenFails, AddSegment, Destroy, DestroyWithoutIndex
  <2> QED BY <1>1, <1>2, <1>3, <2>1 DEF HeadInv
<1> QED BY <1>4, <1>5, <1>6

\* Whatever the segmenter does next, no reader notices.
LEMMA SegmenterKeeps ==
  ASSUME HlsInv, StoreNext, UNCHANGED httpVars
  PROVE  HlsInv'
<1> USE DEF HlsInv, httpVars
<1>1. StoreInv' /\ HeadInv'
  BY StepKeeps, HeadStays
<1>2. \A b \in Buffers : Undisturbed(b)
  BY StoreTouches, Zenon
<1>3. ready' \in Nat /\ ready' >= ready /\ ready \in Nat
  BY ReadyGrows DEF StoreInv, StoreTypeOK
<1>4. /\ conn' = conn /\ opens' = opens /\ conn \in [Conns -> ConnType]
      /\ opens \in [Buffers -> Nat]
      /\ \A b \in Buffers :
           /\ mem[b].write_ptr \in Nat /\ mem'[b].write_ptr \in Nat
           /\ mem[b].read_ptr \in Nat /\ mem'[b].read_ptr \in Nat
  BY <1>1 DEF HlsTypeOK, StoreInv, StoreTypeOK
<1> HIDE DEF Made
<1>5. HlsTypeOK'
  <2>1. StoreTypeOK'
    BY <1>1 DEF StoreInv
  <2>2. ub' \in BOOLEAN
    BY DEF HlsTypeOK
  <2> QED BY <1>4, <2>1, <2>2 DEF HlsTypeOK, ConnType
<1>6. ConnInv'
  <2> SUFFICES ASSUME NEW c \in Conns PROVE ConnOK(c)'
    BY DEF ConnInv
  <2>1. conn[c] \in ConnType
    BY <1>4
  <2>2. ConnOK(c)
    BY DEF ConnInv
  <2> QED BY <1>2, <1>3, <1>4, <2>1, <2>2 DEF ConnType
<1>7. OpensInv'
  BY <1>2, <1>4 DEF OpensInv
<1>8. \A c \in Conns, b \in Buffers : ReaderOf(c, b) => b \in Made
  BY DEF ConnInv, NoHandle, Buffers, Seg, Idx
<1>9. AloneInv'
  <2> SUFFICES ASSUME NEW c \in Conns, NEW b \in Buffers,
                      ReaderOf(c, b), opens[b] = 1
               PROVE AloneOK(c, b)'
    BY <1>4, SMTT(30) DEF AloneInv
  <2>1. AloneOK(c, b) /\ b \in Made
    BY <1>8 DEF AloneInv
  <2> QED BY <1>2, <1>4, <2>1 DEF From
<1>10. SharedInv'
  BY <1>2, <1>4, <1>8 DEF SharedInv
<1> QED BY <1>1, <1>5, <1>6, <1>7, <1>9, <1>10

-----------------------------------------------------------------------------
(* The steps of the HTTP thread.                                           *)

\* What the segmenter's invariant says does not depend on a read_ptr.
LEMMA StoreStays ==
  ASSUME StoreInv, NEW b \in Buffers, NEW p \in Nat,
         mem' = [mem EXCEPT ![b].read_ptr = p],
         UNCHANGED <<pc, closing, first_segment, last_segment, output_index,
                     write_index, remove_file, queue, head, index, unlinked,
                     ready>>
  PROVE  StoreInv'
<1> USE DEF StoreInv
<1>1. mem' \in [Buffers -> BufferType] /\ Held' = Held
  BY ZenonT(40) DEF StoreTypeOK, BufferType, Held, Live
<1>2. StoreTypeOK'
  BY <1>1 DEF StoreTypeOK, BufferType
<1>3. QueueInv' /\ PlaceInv' /\ FirstInv' /\ PublishedInv'
  BY DEF QueueInv, PlaceInv, FirstInv, PublishedInv, Oldest
<1>4. MemInv'
  BY <1>1 DEF MemInv, Oldest, Current
<1>5. WindowInv' /\ LostInv' /\ LastIndexInv' /\ SlackInv' /\ ReadyInv'
  BY DEF WindowInv, LostInv, LastIndexInv, SlackInv, ReadyInv, Oldest, Current
<1> QED BY <1>2, <1>3, <1>4, <1>5

\* The index that is served has been made, and so has every listed segment.
LEMMA TargetMade ==
  ASSUME HlsInv, ready > 0, NEW name \in Names
  PROVE  /\ Idx(head) \in Made /\ Idx(head) \in Buffers
         /\ Target(name) \in Made \cup {NoHandle}
         /\ Target(name) \in Buffers \cup {NoHandle}
<1> USE DEF HlsInv, StoreInv
<1>1. /\ head \in Indexes /\ pc # "start" /\ last_segment \in Nat
      /\ head \in 0 .. last_segment
  BY DEF PublishedInv, StoreTypeOK, PlaceInv, HeadInv, Indexes
<1>2. ASSUME NEW i \in DOMAIN queue, queue[i] = name
      PROVE  name \in 1 .. Current /\ name \in Segments
  BY <1>2, SMTT(30) DEF StoreTypeOK, QueueInv, Oldest, Current, Segments
<1> QED BY <1>1, <1>2, BufferNames DEF Target

\* The handle of a segment that is not listed is not a buffer.
LEMMA NoSuchBuffer == NoHandle \notin Buffers
BY DEF NoHandle, Buffers, Seg, Idx

\* The handle and its length are taken down; nobody reads yet.
LEMMA LookupKeeps ==
  ASSUME HlsInv, NEW c \in Conns, NEW name \in Names,
         NEW range \in Ranges \cup {NoRange},
         Lookup(c, name, range), ~LookupFails(name)
  PROVE  HlsInv'
<1> USE DEF HlsInv
<1> DEFINE b == Target(name)
           size == IF b = NoHandle THEN 0 ELSE mem[b].write_ptr
<1>1. /\ conn' = [conn EXCEPT ![c].st = "found", ![c].name = name,
                              ![c].range = range, ![c].handle = b,
                              ![c].size = size]
      /\ UNCHANGED <<opens, ub, storeVars>>
      /\ conn[c].st = "idle" /\ ready > 0
  BY DEF Lookup, Serving
<1>2. /\ conn \in [Conns -> ConnType] /\ opens \in [Buffers -> Nat]
      /\ \A x \in Buffers : mem[x].write_ptr \in Nat /\ mem[x].read_ptr \in Nat
  BY DEF HlsTypeOK, StoreTypeOK
<1>3. b \in Made \cup {NoHandle} /\ b \in Buffers \cup {NoHandle}
  BY <1>1, TargetMade
<1> HIDE DEF Made, b
<1>4. size \in Nat /\ (b # NoHandle => size = mem[b].write_ptr)
  BY <1>2, <1>3
<1> HIDE DEF size
<1>5. /\ conn'[c] \in ConnType
      /\ conn'[c].st = "found" /\ conn'[c].name = name /\ conn'[c].handle = b
      /\ conn'[c].size = size /\ conn'[c].got = conn[c].got
      /\ \A e \in Conns \ {c} : conn'[e] = conn[e]
      /\ conn' \in [Conns -> ConnType]
  <2>1. conn[c] \in ConnType /\ c \in DOMAIN conn
    BY <1>2
  <2>2. conn'[c] = [conn[c] EXCEPT !.st = "found", !.name = name,
                      !.range = range, !.handle = b, !.size = size]
    BY <1>1, <2>1
  <2>3. /\ conn'[c] \in ConnType
        /\ conn'[c].st = "found" /\ conn'[c].name = name /\ conn'[c].handle = b
        /\ conn'[c].size = size /\ conn'[c].got = conn[c].got
    BY <1>3, <1>4, <2>1, <2>2, ZenonT(40) DEF ConnType
  <2>4. \A e \in Conns \ {c} : conn'[e] = conn[e]
    BY <1>1, <1>2
  <2>5. conn' \in [Conns -> ConnType]
    BY <1>1, <1>2, <2>3, <2>4
  <2> QED BY <2>3, <2>4, <2>5
<1>6. StoreInv' /\ HeadInv'
  BY <1>1, StepKeeps DEF storeVars, HeadInv
<1>7. Made' = Made /\ mem' = mem /\ ready' = ready /\ opens' = opens
  BY <1>1 DEF storeVars, Made, Current
<1>8. HlsTypeOK'
  <2>1. StoreTypeOK'
    BY <1>6 DEF StoreInv
  <2>2. ub' \in BOOLEAN
    BY <1>1 DEF HlsTypeOK
  <2> QED BY <1>2, <1>5, <1>7, <2>1, <2>2 DEF HlsTypeOK
<1>9. ConnInv'
  <2> SUFFICES ASSUME NEW e \in Conns PROVE ConnOK(e)'
    BY DEF ConnInv
  <2>1. CASE e # c
    <3>1. ConnOK(e) /\ conn'[e] = conn[e]
      BY <1>5, <2>1 DEF ConnInv
    <3> QED BY <1>7, <3>1
  <2>2. CASE e = c
    <3>1. conn[c].got = <<>> /\ ready' > 0
      BY <1>1, <1>7 DEF ConnInv
    <3>2. b # NoHandle => b \in Made
      BY <1>3
    <3>3. b # NoHandle => conn'[c].size <= mem[b].write_ptr
      BY <1>2, <1>3, <1>4, <1>5
    <3> QED BY <1>5, <1>7, <2>2, <3>1, <3>2, <3>3
  <2> QED BY <2>1, <2>2
<1>10. \A e \in Conns, x \in Buffers : ReaderOf(e, x)' <=> ReaderOf(e, x)
  <2> TAKE e \in Conns, x \in Buffers
  <2>1. CASE e = c
    BY <1>1, <1>5, <2>1
  <2>2. CASE e # c
    BY <1>5, <2>2
  <2> QED BY <2>1, <2>2
<1>11. \A e \in Conns : Replied(e) => conn'[e] = conn[e]
  BY <1>1, <1>5
<1>12. OpensInv'
  BY <1>7, <1>10 DEF OpensInv
<1>13. AloneInv'
  BY <1>7, <1>10, <1>11 DEF AloneInv, From
<1>14. SharedInv'
  BY <1>7, <1>10, <1>11 DEF SharedInv
<1> QED BY <1>6, <1>8, <1>9, <1>12, <1>13, <1>14

\* Undefined behaviour only sets ub: the model stops there.
LEMMA UndefinedKeeps == ASSUME HlsInv, Undefined PROVE HlsInv'
<1> USE DEF HlsInv, Undefined
<1>1. StoreInv' /\ HeadInv'
  BY StepKeeps DEF storeVars, HeadInv
<1>2. /\ Made' = Made /\ mem' = mem /\ ready' = ready
      /\ opens' = opens /\ conn' = conn
  BY DEF storeVars, Made, Current
<1> HIDE DEF Made
<1>3. HlsTypeOK'
  BY <1>1, <1>2, Zenon DEF HlsTypeOK, StoreInv
<1>4. ConnInv' /\ OpensInv' /\ AloneInv' /\ SharedInv'
  BY <1>2 DEF ConnInv, OpensInv, AloneInv, SharedInv, From
<1> QED BY <1>1, <1>3, <1>4

\* The end of a connection leaves everything else as it is.
LEMMA EndKeeps ==
  ASSUME HlsInv, NEW c \in Conns, NEW s \in {"closed", "gone"},
         Transferring(c), s = "closed" => conn[c].handle = NoHandle,
         conn' = [conn EXCEPT ![c].st = s],
         UNCHANGED <<opens, ub, storeVars>>
  PROVE  HlsInv'
<1> USE DEF HlsInv
<1>1. StoreInv' /\ HeadInv'
  BY StepKeeps DEF storeVars, HeadInv
<1>2. /\ Made' = Made /\ mem' = mem /\ ready' = ready /\ opens' = opens
      /\ ub' = ub
  BY DEF storeVars, Made, Current
<1> HIDE DEF Made
<1>3. conn \in [Conns -> ConnType] /\ conn[c].st = "open" /\ ready > 0
  BY DEF HlsTypeOK, Transferring, Serving
<1>4. /\ conn' \in [Conns -> ConnType]
      /\ conn'[c] = [conn[c] EXCEPT !.st = s]
      /\ \A e \in Conns \ {c} : conn'[e] = conn[e]
  <2>1. conn'[c] = [conn[c] EXCEPT !.st = s]
    BY <1>3
  <2>2. conn'[c] \in ConnType
    BY <1>3, <2>1, ZenonT(40) DEF ConnType
  <2> QED BY <1>3, <2>1, <2>2
<1>5. \A e \in Conns :
        /\ conn'[e].handle = conn[e].handle /\ conn'[e].got = conn[e].got
        /\ conn'[e].range = conn[e].range /\ conn'[e].name = conn[e].name
        /\ conn'[e].cl = conn[e].cl /\ conn'[e].size = conn[e].size
        /\ conn'[e].promised = conn[e].promised
        /\ Replied(e)' <=> Replied(e)
  <2> TAKE e \in Conns
  <2>1. CASE e = c
    <3>1. conn[c] \in ConnType
      BY <1>3
    <3> QED BY <1>3, <1>4, <2>1, <3>1 DEF ConnType
  <2>2. CASE e # c
    BY <1>4, <2>2
  <2> QED BY <2>1, <2>2
<1>6. HlsTypeOK'
  <2>1. StoreTypeOK'
    BY <1>1 DEF StoreInv
  <2>2. opens' \in [Buffers -> Nat] /\ ub' \in BOOLEAN
    BY <1>2, Zenon DEF HlsTypeOK
  <2> QED BY <1>4, <2>1, <2>2 DEF HlsTypeOK
<1> HIDE DEF Replied
<1>7. ConnInv'
  <2> SUFFICES ASSUME NEW e \in Conns PROVE ConnOK(e)'
    BY DEF ConnInv
  <2>1. ConnOK(e) /\ (e # c => conn'[e] = conn[e])
        /\ (e = c => conn'[e].st = s)
    BY <1>3, <1>4 DEF ConnInv, ConnType
  <2>2. /\ ready' > 0
        /\ (conn'[e].st \in {"idle", "found"} => conn'[e].st = conn[e].st)
    BY <1>2, <1>3, <2>1
  <2> QED BY <1>2, <1>5, <2>1, <2>2
<1>8. OpensInv'
  BY <1>2, <1>5 DEF OpensInv
<1>9. AloneInv'
  <2> SUFFICES ASSUME NEW e \in Conns, NEW b \in Buffers,
                      ReaderOf(e, b), opens[b] = 1
               PROVE  AloneOK(e, b)'
    BY <1>2, <1>5 DEF AloneInv
  <2>1. AloneOK(e, b)
    BY DEF AloneInv
  <2>2. conn'[e].st = "closed" => conn[e].st = "closed"
    <3>1. conn[e].handle # NoHandle
      BY NoSuchBuffer
    <3>2. CASE e = c
      BY <1>3, <1>4, <3>1, <3>2 DEF ConnType
    <3>3. CASE e # c
      BY <1>4, <3>3
    <3> QED BY <3>2, <3>3
  <2> QED BY <1>2, <1>5, <2>1, <2>2, SMTT(30) DEF From
<1>10. SharedInv'
  BY <1>2, <1>5 DEF SharedInv
<1> QED BY <1>1, <1>6, <1>7, <1>8, <1>9, <1>10

\* The reply is set up: one more reader of a buffer, at most one seek in it.
LEMMA ReplyKeeps ==
  ASSUME HlsInv, NEW c \in Conns, Reply(c), ~Undefined
  PROVE  HlsInv'
<1> USE DEF HlsInv
<1> DEFINE h == IF conn[c].name = IndexName THEN Idx(head) ELSE conn[c].handle
           len == ReplyLength(conn[c].range, conn[c].size)
           range == conn[c].range
<1>1. /\ conn[c].st = "found" /\ ready > 0
      /\ range # NoRange => h \in LiveBuffers
      /\ conn' = [conn EXCEPT ![c].st = "open", ![c].handle = h,
                              ![c].cl = len, ![c].promised = len]
      /\ opens' = IF h = NoHandle THEN opens ELSE [opens EXCEPT ![h] = @ + 1]
      /\ mem' = IF range = NoRange THEN mem ELSE Seek(h, range[1])
      /\ ub' = ub
      /\ UNCHANGED <<pc, closing, first_segment, last_segment, output_index,
                     write_index, remove_file, queue, head, index, unlinked,
                     ready>>
  BY Zenon DEF Reply, Serving
<1>2. /\ conn \in [Conns -> ConnType] /\ conn[c] \in ConnType
      /\ opens \in [Buffers -> Nat] /\ ub \in BOOLEAN
      /\ \A x \in Buffers : mem[x].write_ptr \in Nat /\ mem[x].read_ptr \in Nat
      /\ mem \in [Buffers -> BufferType]
  BY DEF HlsTypeOK, StoreTypeOK, BufferType
<1>3. /\ Idx(head) \in Made /\ Idx(head) \in Buffers
  BY <1>1, TargetMade DEF Names
<1>4. /\ h \in Made \cup {NoHandle} /\ h \in Buffers \cup {NoHandle}
      /\ conn[c].got = <<>>
      /\ conn[c].name = IndexName => \A k \in Segments : h # Seg(k)
  <2>1. ConnOK(c) /\ conn[c].handle \in Buffers \cup {NoHandle}
    BY <1>2 DEF ConnInv, ConnType
  <2>2. \A k \in Segments : Idx(head) # Seg(k)
    BY DEF Idx, Seg
  <2> QED BY <1>1, <1>3, <2>1, <2>2
<1>5. /\ len \in Int
      /\ range = NoRange => len = conn[c].size /\ conn[c].size \in Nat
      /\ range # NoRange => range[1] \in Nat
  BY <1>2 DEF ConnType, ReplyLength, NoRange, Open
<1>6. /\ StoreInv' /\ HeadInv'
      /\ \A x \in Buffers :
           /\ mem'[x].write_ptr = mem[x].write_ptr
           /\ x # h \/ range = NoRange => mem'[x].read_ptr = mem[x].read_ptr
           /\ x = h /\ range # NoRange => mem'[x].read_ptr = range[1]
  <2>1. CASE range = NoRange
    <3>1. UNCHANGED storeVars
      BY <1>1, <2>1 DEF storeVars
    <3> QED BY <1>1, <2>1, <3>1, StepKeeps DEF storeVars, HeadInv
  <2>2. CASE range # NoRange
    <3>1. h \in Buffers /\ mem' = [mem EXCEPT ![h].read_ptr = range[1]]
      BY <1>1, <2>2, SMTT(30) DEF LiveBuffers, Seek
    <3>2. StoreInv'
      BY <1>1, <1>5, <2>2, <3>1, StoreStays
    <3>3. HeadInv'
      BY <1>1, Zenon DEF HeadInv
    <3>4. \A x \in Buffers :
            /\ mem'[x].write_ptr = mem[x].write_ptr
            /\ x # h => mem'[x].read_ptr = mem[x].read_ptr
            /\ x = h => mem'[x].read_ptr = range[1]
      BY <1>2, <3>1 DEF BufferType
    <3> HIDE DEF h
    <3> QED BY <2>2, <3>2, <3>3, <3>4, Zenon
  <2> QED BY <2>1, <2>2
<1>7. Made' = Made /\ ready' = ready
  BY <1>1 DEF Made, Current
<1> HIDE DEF Made, h, len
<1>8. /\ conn'[c] \in ConnType
      /\ conn'[c].st = "open" /\ conn'[c].handle = h /\ conn'[c].cl = len
      /\ conn'[c].promised = len /\ conn'[c].got = <<>>
      /\ conn'[c].range = range /\ conn'[c].name = conn[c].name
      /\ \A e \in Conns \ {c} : conn'[e] = conn[e]
      /\ conn' \in [Conns -> ConnType]
  <2>1. conn'[c] = [conn[c] EXCEPT !.st = "open", !.handle = h, !.cl = len,
                                   !.promised = len]
    BY <1>1, <1>2
  <2>2. conn'[c] \in ConnType
    BY <1>2, <1>4, <1>5, <2>1, ZenonT(40) DEF ConnType
  <2>3. \A e \in Conns \ {c} : conn'[e] = conn[e]
    BY <1>1, <1>2
  <2>4. conn' \in [Conns -> ConnType]
    BY <1>1, <1>2, <2>2, <2>3
  <2> QED BY <1>2, <1>4, <2>1, <2>2, <2>3, <2>4 DEF ConnType
<1>9. /\ opens' \in [Buffers -> Nat]
      /\ \A x \in Buffers :
           opens'[x] = IF x = h THEN opens[x] + 1 ELSE opens[x]
  BY <1>1, <1>2, <1>4, NoSuchBuffer
<1>10. HlsTypeOK'
  <2>1. StoreTypeOK'
    BY <1>6 DEF StoreInv
  <2>2. ub' \in BOOLEAN
    BY <1>1, <1>2, Zenon
  <2> QED BY <1>8, <1>9, <2>1, <2>2 DEF HlsTypeOK
<1>11. ConnInv'
  <2> SUFFICES ASSUME NEW e \in Conns PROVE ConnOK(e)'
    BY DEF ConnInv
  <2>1. ConnOK(e) /\ ConnOK(c) /\ conn[e] \in ConnType
    BY <1>2 DEF ConnInv
  <2>2. CASE e # c
    <3>1. conn'[e] = conn[e]
      BY <1>8, <2>2
    <3>2. conn[e].handle # NoHandle => conn[e].handle \in Buffers
      BY <2>1 DEF ConnType
    <3> QED BY <1>6, <1>7, <2>1, <3>1, <3>2
  <2>3. CASE e = c
    <3>1. Len(<<>>) = 0 /\ len + 0 = len
      BY <1>5
    <3>2. range = NoRange => len >= 0
      BY <1>5
    <3>3. range = NoRange /\ conn[c].name # IndexName /\ h # NoHandle =>
            len <= mem'[h].write_ptr
      BY <1>1, <1>4, <1>5, <1>6, <2>1 DEF h
    <3> QED BY <1>1, <1>4, <1>7, <1>8, <2>3, <3>1, <3>2, <3>3
  <2> QED BY <2>2, <2>3
<1>12. \A e \in Conns, x \in Buffers :
         ReaderOf(e, x)' <=> (e = c /\ x = h) \/ (e # c /\ ReaderOf(e, x))
  <2> TAKE e \in Conns, x \in Buffers
  <2>1. CASE e = c
    BY <1>8, <2>1
  <2>2. CASE e # c
    BY <1>8, <2>2
  <2> QED BY <2>1, <2>2
<1>13. \A x \in Buffers : ~ReaderOf(c, x)
  BY <1>1
<1> HIDE DEF ReaderOf
<1>14. OpensInv'
  <2> SUFFICES ASSUME NEW b \in Buffers PROVE OpensOK(b)'
    BY DEF OpensInv
  <2>1. OpensOK(b)
    BY DEF OpensInv
  <2>2. CASE b = h
    BY <1>2, <1>4, <1>7, <1>9, <1>12, <2>1, <2>2, NoSuchBuffer
  <2>3. CASE b # h
    BY <1>6, <1>7, <1>9, <1>12, <1>13, <2>1, <2>3
  <2> QED BY <2>2, <2>3
<1>15. AloneInv'
  <2> SUFFICES ASSUME NEW e \in Conns, NEW b \in Buffers,
                      ReaderOf(e, b)', opens'[b] = 1
               PROVE  AloneOK(e, b)'
    BY DEF AloneInv
  <2>1. CASE b = h
    <3>1. opens[b] = 0
      BY <1>2, <1>9, <2>1
    <3>2. mem[b].read_ptr = 0 /\ e = c
      BY <1>12, <3>1 DEF OpensInv
    <3>3. From(c)' = IF range = NoRange THEN 0 ELSE range[1]
      BY <1>8 DEF From
    <3>4. mem'[b].read_ptr = From(c)' /\ From(c)' \in Nat
      BY <1>5, <1>6, <2>1, <3>2, <3>3
    <3>5. <<>> = [i \in 1 .. Len(<<>>) |-> From(c)' + i - 1] /\ Len(<<>>) = 0
      OBVIOUS
    <3> QED BY <1>8, <3>2, <3>4, <3>5
  <2>2. CASE b # h
    <3>1. e # c /\ conn'[e] = conn[e] /\ ReaderOf(e, b) /\ opens[b] = 1
      BY <1>8, <1>9, <1>12, <2>2
    <3>2. AloneOK(e, b)
      BY <3>1 DEF AloneInv
    <3> QED BY <1>6, <2>2, <3>1, <3>2 DEF From
  <2> QED BY <2>1, <2>2
<1>16. SharedInv'
  <2> SUFFICES ASSUME NEW b \in Buffers,
                      Unsought(b)',
                      NEW d \in Conns, ReaderOf(d, b)'
               PROVE  SharedOK(d, b)'
    BY DEF SharedInv
  <2>1. mem'[b].read_ptr = mem[b].read_ptr
    BY <1>6, <1>8, <1>12
  <2>2. ASSUME NEW e \in Conns, ReaderOf(e, b) PROVE conn[e].range = NoRange
    BY <1>8, <1>12, <1>13, <2>2
  <2>3. ASSUME NEW e \in Conns, ReaderOf(e, b)
        PROVE  conn'[e] = conn[e]
               /\ SharedOK(e, b)
    BY <1>8, <1>13, <2>2, <2>3 DEF SharedInv
  <2>4. ReaderOf(c, b)' => conn'[c].got = <<>>
    BY <1>8
  <2>5. DOMAIN <<>> = {}
    OBVIOUS
  <2> QED BY <1>12, <2>1, <2>3, <2>4, <2>5
<1> QED BY <1>6, <1>10, <1>11, <1>14, <1>15, <1>16

\* What a block of n bytes, read at position r, adds to a reply.
LEMMA Extends ==
  ASSUME NEW s \in Seq(Nat), NEW r \in Nat, NEW n \in Nat,
         NEW t, t = s \o [i \in 1 .. n |-> r + i - 1]
  PROVE  /\ t \in Seq(Nat) /\ Len(t) = Len(s) + n
         /\ DOMAIN t = 1 .. Len(s) + n /\ DOMAIN s = 1 .. Len(s)
         /\ Len(s) \in Nat
         /\ \A i \in 1 .. Len(s) : t[i] = s[i]
         /\ \A i \in Len(s) + 1 .. Len(s) + n : t[i] = r + i - Len(s) - 1
<1> DEFINE u == [i \in 1 .. n |-> r + i - 1]
<1>1. u \in Seq(Nat) /\ Len(u) = n
  <2>1. u \in [1 .. n -> Nat]
    OBVIOUS
  <2> QED BY <2>1
<1>2. \A i \in 1 .. n : u[i] = r + i - 1
  OBVIOUS
<1> HIDE DEF u
<1>3. t = s \o u
  BY DEF u
<1>4. /\ t \in Seq(Nat) /\ Len(t) = Len(s) + n /\ Len(s) \in Nat
      /\ \A i \in 1 .. Len(s) + n :
           t[i] = IF i <= Len(s) THEN s[i] ELSE u[i - Len(s)]
  <2>1. /\ s \o u \in Seq(Nat) /\ Len(s \o u) = Len(s) + Len(u)
        /\ \A i \in 1 .. Len(s) + Len(u) :
             (s \o u)[i] = IF i <= Len(s) THEN s[i] ELSE u[i - Len(s)]
    BY <1>1, ConcatProperties, Zenon
  <2>2. /\ t \in Seq(Nat) /\ Len(t) = Len(s) + n
        /\ \A i \in 1 .. Len(s) + n :
             t[i] = IF i <= Len(s) THEN s[i] ELSE u[i - Len(s)]
    BY <1>1, <1>3, <2>1, Zenon
  <2>3. Len(s) \in Nat
    BY LenProperties
  <2> QED BY <2>2, <2>3, Zenon
<1>5. \A i \in Len(s) + 1 .. Len(s) + n : t[i] = r + i - Len(s) - 1
  <2> TAKE i \in Len(s) + 1 .. Len(s) + n
  <2>1. i - Len(s) \in 1 .. n /\ i \in 1 .. Len(s) + n /\ ~(i <= Len(s))
    BY <1>4, SMTT(30)
  <2> QED BY <1>2, <1>4, <2>1
<1> QED BY <1>4, <1>5

\* A block is moved: the bytes read_ptr has passed are the ones in got.
LEMMA TransferKeeps ==
  ASSUME HlsInv, NEW c \in Conns, Transfer(c), ~Undefined
  PROVE  HlsInv'
<1> USE DEF HlsInv
<1> DEFINE b == conn[c].handle
           len == IF conn[c].cl < BlockSize THEN conn[c].cl ELSE BlockSize
           n == ReadLength(b, len)
           got == conn[c].got
           new == got \o [i \in 1 .. n |-> mem[b].read_ptr + i - 1]
           st == IF Ends(c, n) THEN "closed" ELSE "open"
<1>1. /\ conn[c].st = "open" /\ b # NoHandle /\ ~(n < 0)
      /\ conn' = [conn EXCEPT ![c].cl = @ - n, ![c].got = new, ![c].st = st]
      /\ mem' = Consume(b, n)
      /\ UNCHANGED <<opens, ub, pc, closing, first_segment, last_segment,
                     output_index, write_index, remove_file, queue, head,
                     index, unlinked, ready>>
  BY Zenon DEF Transfer, Transferring
<1>2. /\ conn \in [Conns -> ConnType] /\ conn[c] \in ConnType
      /\ opens \in [Buffers -> Nat] /\ ub \in BOOLEAN
      /\ \A x \in Buffers : mem[x].write_ptr \in Nat /\ mem[x].read_ptr \in Nat
      /\ mem \in [Buffers -> BufferType]
  BY DEF HlsTypeOK, StoreTypeOK, BufferType
<1>3. /\ b \in Buffers /\ conn[c].cl \in Int /\ got \in Seq(Nat)
      /\ conn[c].promised \in Int /\ Len(got) \in Nat
  <2>1. /\ b \in Buffers /\ conn[c].cl \in Int /\ conn[c].promised \in Int
        /\ got \in Seq(Nat)
    BY <1>1, <1>2, Zenon DEF ConnType
  <2> QED BY <2>1
<1>4. /\ n \in Nat /\ n <= conn[c].cl
      /\ mem[b].read_ptr + n <= mem[b].write_ptr
      /\ n = 0 => conn[c].cl = 0 \/ mem[b].read_ptr = mem[b].write_ptr
  <2>1. mem[b].write_ptr \in Nat /\ mem[b].read_ptr \in Nat
    BY <1>2, <1>3
  <2>2. len \in Int /\ len <= conn[c].cl /\ (len = 0 => conn[c].cl = 0)
    BY <1>3
  <2> HIDE DEF b, len
  <2>3. ~(n < 0)
    BY <1>1
  <2> QED BY <1>3, <2>1, <2>2, <2>3 DEF ReadLength
<1> HIDE DEF n
<1>5. /\ new \in Seq(Nat) /\ Len(new) = Len(got) + n
      /\ DOMAIN new = 1 .. Len(got) + n /\ DOMAIN got = 1 .. Len(got)
      /\ \A i \in 1 .. Len(got) : new[i] = got[i]
      /\ \A i \in Len(got) + 1 .. Len(got) + n :
           new[i] = mem[b].read_ptr + i - Len(got) - 1
  BY <1>2, <1>3, <1>4, Extends, SMTT(30)
<1>6. /\ StoreInv' /\ HeadInv'
      /\ \A x \in Buffers :
           /\ mem'[x].write_ptr = mem[x].write_ptr
           /\ x # b => mem'[x].read_ptr = mem[x].read_ptr
           /\ x = b => mem'[x].read_ptr = mem[x].read_ptr + n
  <2>1. /\ mem' = [mem EXCEPT ![b].read_ptr = mem[b].read_ptr + n]
        /\ mem[b].read_ptr + n \in Nat
    <3>1. mem' = [mem EXCEPT ![b].read_ptr = mem[b].read_ptr + n]
      BY <1>1, Zenon DEF Consume
    <3> QED BY <1>2, <1>3, <1>4, <3>1, SMTT(30)
  <2>2. StoreInv'
    BY <1>1, <1>3, <2>1, StoreStays
  <2>3. \A x \in Buffers : mem[x] \in BufferType
    BY <1>2
  <2>4. HeadInv'
    BY <1>1 DEF HeadInv
  <2> HIDE DEF b
  <2> QED BY <1>2, <1>3, <2>1, <2>2, <2>3, <2>4 DEF BufferType
<1>7. Made' = Made /\ ready' = ready /\ opens' = opens
  BY <1>1 DEF Made, Current
<1> HIDE DEF Made, new
<1>8. /\ conn'[c] \in ConnType
      /\ conn'[c].st = st /\ conn'[c].cl = conn[c].cl - n
      /\ conn'[c].got = new
      /\ \A e \in Conns \ {c} : conn'[e] = conn[e]
      /\ conn' \in [Conns -> ConnType]
  <2>1. conn'[c] = [conn[c] EXCEPT !.cl = conn[c].cl - n, !.got = new,
                                   !.st = st]
    BY <1>1, <1>2
  <2>2. conn'[c] \in ConnType
    <3>1. conn[c].cl - n \in Int /\ new \in Seq(Nat)
      BY <1>3, <1>4, <1>5
    <3>2. st \in {"open", "closed"}
      OBVIOUS
    <3> HIDE DEF st
    <3> DEFINE k == conn[c].cl - n
    <3> HIDE DEF k
    <3>3. conn'[c] = [conn[c] EXCEPT !.cl = k, !.got = new, !.st = st]
      BY <2>1 DEF k
    <3>4. k \in Int
      BY <3>1 DEF k
    <3> QED BY <1>2, <3>1, <3>2, <3>3, <3>4 DEF ConnType
  <2>3. \A e \in Conns \ {c} : conn'[e] = conn[e]
    BY <1>1, <1>2
  <2>4. conn' \in [Conns -> ConnType]
    BY <1>1, <1>2, <2>2, <2>3
  <2> QED BY <1>2, <2>1, <2>2, <2>3, <2>4 DEF ConnType
<1>9. \A e \in Conns :
        /\ conn'[e].handle = conn[e].handle /\ conn'[e].range = conn[e].range
        /\ conn'[e].name = conn[e].name
        /\ conn'[e].promised = conn[e].promised
        /\ Replied(e)' <=> Replied(e)
  <2> TAKE e \in Conns
  <2>1. CASE e = c
    <3>1. conn'[c] = [conn[c] EXCEPT !.cl = conn[c].cl - n, !.got = new,
                                     !.st = st]
      BY <1>1, <1>2
    <3> QED BY <1>1, <1>2, <1>8, <2>1, <3>1 DEF ConnType
  <2>2. CASE e # c
    BY <1>8, <2>2
  <2> QED BY <2>1, <2>2
<1>10. HlsTypeOK'
  <2>1. StoreTypeOK'
    BY <1>6 DEF StoreInv
  <2>2. opens' \in [Buffers -> Nat] /\ ub' \in BOOLEAN
    BY <1>1, <1>2, Zenon
  <2> QED BY <1>8, <2>1, <2>2 DEF HlsTypeOK
<1>11. ConnInv'
  <2> SUFFICES ASSUME NEW e \in Conns PROVE ConnOK(e)'
    BY DEF ConnInv
  <2>1. ConnOK(e) /\ ConnOK(c) /\ conn[e] \in ConnType
    BY <1>2 DEF ConnInv
  <2>2. CASE e # c
    <3>1. conn'[e] = conn[e]
      BY <1>8, <2>2
    <3>2. conn[e].handle # NoHandle => conn[e].handle \in Buffers
      BY <2>1 DEF ConnType
    <3> QED BY <1>6, <1>7, <2>1, <3>1, <3>2
  <2>3. CASE e = c
    <3>1. conn'[c].cl >= 0 /\ conn'[c].promised = conn'[c].cl + Len(new)
      <4>1. conn[c].promised = conn[c].cl + Len(got)
        BY <1>1, <2>1
      <4>2. /\ conn'[c].cl = conn[c].cl - n
            /\ conn'[c].promised = conn[c].promised
            /\ Len(new) = Len(got) + n
        BY <1>5, <1>8, <1>9
      <4> DEFINE k == conn[c].cl
                 l == Len(got)
      <4>3. k \in Int /\ l \in Nat /\ n \in Nat /\ n <= k
        BY <1>3, <1>4
      <4>4. /\ conn'[c].cl = k - n /\ conn'[c].promised = k + l
            /\ Len(new) = l + n
        BY <4>1, <4>2
      <4> HIDE DEF k, l
      <4> QED BY <4>3, <4>4
    <3>2. conn[c].range = NoRange /\ conn[c].name # IndexName =>
            conn[c].promised <= mem'[b].write_ptr
      BY <1>1, <1>3, <1>6, <2>1
    <3>3. conn[c].name = IndexName => \A k \in Segments : b # Seg(k)
      BY <1>1, <2>1
    <3>4. b \in Made /\ ready > 0
      BY <1>1, <2>1
    <3> HIDE DEF st
    <3>5. conn'[c].st \in {"open", "closed"}
      BY <1>8 DEF st
    <3> QED BY <1>1, <1>7, <1>8, <1>9, <2>3, <3>1, <3>2, <3>3, <3>4, <3>5,
       SMTT(30)
  <2> QED BY <2>2, <2>3
<1>12. \A e \in Conns, x \in Buffers : ReaderOf(e, x)' <=> ReaderOf(e, x)
  BY <1>9
<1>13. ReaderOf(c, b) /\ \A x \in Buffers : ReaderOf(c, x) => x = b
  BY <1>1
<1> HIDE DEF Replied, ReaderOf, st
<1>14. OpensInv'
  <2> SUFFICES ASSUME NEW x \in Buffers PROVE OpensOK(x)'
    BY DEF OpensInv
  <2>1. OpensOK(x)
    BY DEF OpensInv
  <2>2. CASE x = b
    BY <1>2, <1>7, <1>12, <1>13, <2>1, <2>2
  <2>3. CASE x # b
    BY <1>6, <1>7, <1>12, <2>1, <2>3
  <2> QED BY <2>2, <2>3
<1>15. AloneInv'
  <2> SUFFICES ASSUME NEW e \in Conns, NEW x \in Buffers,
                      ReaderOf(e, x), opens[x] = 1
               PROVE  AloneOK(e, x)'
    BY <1>7, <1>12 DEF AloneInv
  <2>1. AloneOK(e, x)
    BY DEF AloneInv
  <2>2. CASE x = b
    <3>1. e = c
      BY <1>13, <2>2 DEF OpensInv
    <3>2. From(c)' = From(c) /\ From(c) \in Nat
      BY <1>2, <1>9, ServiceAssumption DEF From, ConnType, NoRange
    <3>3. /\ got = [i \in 1 .. Len(got) |-> From(c) + i - 1]
          /\ mem[b].read_ptr = From(c) + Len(got)
      BY <2>1, <2>2, <3>1
    <3>4. \A i \in 1 .. Len(got) + n : new[i] = From(c) + i - 1
      <4> TAKE i \in 1 .. Len(got) + n
      <4>1. CASE i <= Len(got)
        <5>1. i \in 1 .. Len(got)
          BY <1>3, <1>4, <4>1
        <5> QED BY <1>5, <3>3, <5>1
      <4>2. CASE i > Len(got)
        <5>1. i \in Len(got) + 1 .. Len(got) + n
          BY <1>3, <1>4, <4>2
        <5>2. new[i] = mem[b].read_ptr + i - Len(got) - 1
          BY <1>5, <5>1
        <5> HIDE DEF got, b
        <5> QED BY <1>3, <1>4, <3>2, <3>3, <5>1, <5>2
      <4> QED BY <1>3, <1>4, <4>1, <4>2
    <3>5. new = [i \in 1 .. Len(new) |-> From(c) + i - 1]
      <4> DEFINE m == Len(got) + n
      <4>1. new \in [1 .. Len(new) -> Nat] /\ Len(new) = m /\ m \in Nat
        BY <1>3, <1>4, <1>5, SMTT(30)
      <4> HIDE DEF m
      <4>2. new = [i \in 1 .. m |-> new[i]]
        BY <4>1
      <4>3. [i \in 1 .. m |-> new[i]] = [i \in 1 .. m |-> From(c) + i - 1]
        BY <3>4 DEF m
      <4> QED BY <4>1, <4>2, <4>3
    <3>6. mem'[b].read_ptr = From(c) + Len(new)
      <4>1. /\ mem'[b].read_ptr = mem[b].read_ptr + n
            /\ Len(new) = Len(got) + n
        BY <1>3, <1>5, <1>6
      <4> HIDE DEF got, b
      <4> QED BY <1>3, <1>4, <3>2, <3>3, <4>1
    <3>7. mem'[b].read_ptr <= mem'[b].write_ptr
      BY <1>3, <1>4, <1>6
    <3>8. ASSUME st = "closed", conn[c].range = NoRange,
                 conn[c].name # IndexName
          PROVE  conn'[c].cl = 0
      <4>1. CASE conn[c].cl <= n
        BY <1>3, <1>4, <1>8, <4>1
      <4>2. CASE n = 0
        <5>1. /\ conn[c].promised = conn[c].cl + Len(got)
              /\ conn[c].promised <= mem[b].write_ptr /\ conn[c].cl >= 0
          BY <1>1, <1>3, <1>13, <3>8 DEF ConnInv, ReaderOf
        <5>2. mem[b].read_ptr = Len(got)
          BY <1>3, <3>3, <3>8 DEF From
        <5> QED BY <1>2, <1>3, <1>4, <1>8, <4>2, <5>1, <5>2
      <4> QED BY <3>8, <4>1, <4>2 DEF st, Ends
    <3> QED BY <1>7, <1>8, <1>9, <2>2, <3>1, <3>2, <3>5, <3>6, <3>7, <3>8
  <2>3. CASE x # b
    <3>1. conn'[e] = conn[e] /\ From(e)' = From(e)
      BY <1>8, <1>9, <1>13, <2>3 DEF From
    <3> QED BY <1>6, <1>7, <2>1, <2>3, <3>1
  <2> QED BY <2>2, <2>3
<1>16. SharedInv'
  <2> SUFFICES ASSUME NEW x \in Buffers, Unsought(x)',
                      NEW e \in Conns, ReaderOf(e, x)
               PROVE  SharedOK(e, x)'
    BY <1>12 DEF SharedInv
  <2>1. Unsought(x)
    BY <1>9, <1>12
  <2>2. \A d \in Conns : ReaderOf(d, x) => SharedOK(d, x)
    BY <2>1 DEF SharedInv
  <2>3. CASE x # b
    <3>1. \A d \in Conns : ReaderOf(d, x) => conn'[d] = conn[d]
      BY <1>8, <1>13, <2>3
    <3> QED BY <1>6, <1>12, <2>2, <2>3, <3>1
  <2>4. CASE x = b
    <3>1. \A i \in DOMAIN got : got[i] < mem[b].read_ptr /\ got[i] \in Nat
      BY <1>3, <1>13, <2>2, <2>4
    <3>2. \A i \in DOMAIN new : new[i] < mem[b].read_ptr + n
      <4> TAKE i \in DOMAIN new
      <4>1. mem[b].read_ptr \in Nat /\ i \in 1 .. Len(got) + n
        BY <1>2, <1>3, <1>5
      <4>2. CASE i \in 1 .. Len(got)
        <5>1. new[i] = got[i] /\ got[i] < mem[b].read_ptr /\ got[i] \in Nat
          BY <1>5, <3>1, <4>2
        <5> QED BY <1>4, <4>1, <5>1
      <4>3. CASE i \in Len(got) + 1 .. Len(got) + n
        <5>1. new[i] = mem[b].read_ptr + i - Len(got) - 1
          BY <1>5, <4>3
        <5> HIDE DEF got, b
        <5> QED BY <1>3, <1>4, <4>1, <4>3, <5>1
      <4> QED BY <1>3, <1>4, <4>1, <4>2, <4>3
    <3>3. ASSUME NEW d \in Conns \ {c}, ReaderOf(d, b)
          PROVE  /\ Apart(c, d)' /\ Apart(d, c)'
                 /\ \A i \in DOMAIN conn[d].got :
                      conn[d].got[i] < mem[b].read_ptr + n
      <4>1. /\ conn[d].got \in Seq(Nat) /\ conn'[d].got = conn[d].got
            /\ \A i \in DOMAIN conn[d].got :
                 conn[d].got[i] < mem[b].read_ptr /\ conn[d].got[i] \in Nat
            /\ Apart(c, d)
        <5>1. SharedOK(c, b) /\ SharedOK(d, b)
          BY <1>13, <2>2, <2>4, <3>3
        <5>2. conn[d] \in ConnType /\ conn'[d] = conn[d]
          BY <1>2, <1>8
        <5>3. conn[d].got \in Seq(Nat)
          BY <5>2, Zenon DEF ConnType
        <5>4. \A i \in DOMAIN conn[d].got : conn[d].got[i] \in Nat
          BY <5>3
        <5> QED BY <3>3, <5>1, <5>2, <5>3, <5>4
      <4>2. \A i \in DOMAIN new, j \in DOMAIN conn[d].got :
              new[i] # conn[d].got[j]
        <5> TAKE i \in DOMAIN new, j \in DOMAIN conn[d].got
        <5>1. CASE i \in 1 .. Len(got)
          BY <1>5, <4>1, <5>1
        <5>2. CASE i \in Len(got) + 1 .. Len(got) + n
          <6>1. new[i] >= mem[b].read_ptr
            BY <1>2, <1>3, <1>4, <1>5, <5>2, SMTT(30)
          <6>2. new[i] \in Nat
            BY <1>5
          <6> QED BY <1>2, <1>3, <4>1, <6>1, <6>2
        <5> QED BY <1>3, <1>4, <1>5, <5>1, <5>2
      <4>3. mem[b].read_ptr \in Nat
        BY <1>2, <1>3
      <4>4. \A i \in DOMAIN conn[d].got :
              conn[d].got[i] < mem[b].read_ptr + n
        BY <1>4, <4>1, <4>3, SMTT(30)
      <4> HIDE DEF b
      <4> QED BY <1>8, <4>1, <4>2, <4>4
    <3>4. mem'[b].read_ptr = mem[b].read_ptr + n
      BY <1>3, <1>6
    <3>5. CASE e = c
      BY <1>8, <1>12, <2>4, <3>2, <3>3, <3>4, <3>5
    <3>6. CASE e # c
      <4>1. conn'[e] = conn[e] /\ SharedOK(e, b)
        BY <1>8, <2>2, <2>4, <3>6
      <4>2. ASSUME NEW d \in Conns \ {e}, ReaderOf(d, b)
            PROVE  Apart(e, d)'
        <5>1. CASE d = c
          BY <2>4, <3>3, <3>6, <5>1
        <5>2. CASE d # c
          BY <1>8, <4>1, <4>2, <5>2
        <5> QED BY <5>1, <5>2
      <4> QED BY <1>8, <1>12, <2>4, <3>3, <3>4, <3>6, <4>1, <4>2
    <3> QED BY <3>5, <3>6
  <2> QED BY <2>3, <2>4
<1> QED BY <1>6, <1>10, <1>11, <1>14, <1>15, <1>16

-----------------------------------------------------------------------------
(* The invariant is inductive.                                             *)

LEMMA HlsInitInv == HlsInit => HlsInv
<1> SUFFICES ASSUME HlsInit PROVE HlsInv
  OBVIOUS
<1>1. StoreInv /\ HeadInv
  BY InitInv DEF HlsInit, Init, HeadInv, NoIndex
<1>2. /\ conn = [c \in Conns |-> Idle] /\ opens = [b \in Buffers |-> 0]
      /\ ub = FALSE /\ \A b \in Buffers : mem[b].read_ptr = 0
  BY DEF HlsInit, Init, NoBuffer
<1>3. Idle \in ConnType
  BY DEF Idle, ConnType, Names, IndexName, NoRange, NoHandle
<1>4. HlsTypeOK
  BY <1>1, <1>2, <1>3 DEF HlsTypeOK, StoreInv
<1> HIDE DEF Made
<1>5. \A c \in Conns : /\ conn[c].st = "idle" /\ conn[c].handle = NoHandle
                       /\ conn[c].got = <<>>
  BY <1>2 DEF Idle
<1>6. ConnInv /\ OpensInv /\ AloneInv /\ SharedInv
  BY <1>2, <1>5 DEF ConnInv, OpensInv, AloneInv, SharedInv
<1> QED BY <1>1, <1>4, <1>6 DEF HlsInv

LEMMA HttpStepKeeps ==
  ASSUME HlsInv, NEW c \in Conns, HttpStep(c)
  PROVE  HlsInv'
<1>1. CASE Undefined
  BY <1>1, UndefinedKeeps
<1>2. ASSUME NEW name \in Names, NEW range \in Ranges \cup {NoRange},
             Lookup(c, name, range), ~Undefined
      PROVE  HlsInv'
  <2>1. ~LookupFails(name)
    BY <1>2, Zenon DEF Lookup
  <2> QED BY <1>2, <2>1, LookupKeeps
<1>3. CASE Reply(c) /\ ~Undefined
  BY <1>3, ReplyKeeps
<1>4. CASE Transfer(c) /\ ~Undefined
  BY <1>4, TransferKeeps
<1>5. CASE TransferNothing(c) \/ Expire(c) \/ Hangup(c)
  BY <1>5, EndKeeps DEF TransferNothing, Expire, Hangup
<1> QED BY <1>1, <1>2, <1>3, <1>4, <1>5 DEF HttpStep

LEMMA HlsStepKeeps == ASSUME HlsInv, [HlsNext]_vars PROVE HlsInv'
<1>1. CASE StoreNext /\ UNCHANGED httpVars
  BY <1>1, SegmenterKeeps
<1>2. CASE \E c \in Conns : HttpStep(c)
  BY <1>2, HttpStepKeeps
<1>3. CASE UNCHANGED vars
  <2>1. StoreInv' /\ HeadInv'
    BY <1>3, StepKeeps DEF HlsInv, vars, storeVars, HeadInv
  <2>2. /\ Made' = Made /\ mem' = mem /\ ready' = ready
        /\ opens' = opens /\ conn' = conn /\ ub' = ub
    BY <1>3 DEF vars, httpVars, storeVars, Current
  <2>3. HlsTypeOK'
    BY <2>1, <2>2, Zenon DEF HlsInv, HlsTypeOK, StoreInv
  <2> HIDE DEF Made
  <2>4. ConnInv' /\ OpensInv' /\ AloneInv' /\ SharedInv'
    BY <2>2 DEF HlsInv, ConnInv, OpensInv, AloneInv, SharedInv, From
  <2> QED BY <2>1, <2>3, <2>4 DEF HlsInv
<1> QED BY <1>1, <1>2, <1>3 DEF HlsNext

LEMMA HlsInductive == HlsSpec => []HlsInv
BY HlsInitInv, HlsStepKeeps, PTL DEF HlsSpec

-----------------------------------------------------------------------------
(* The theorems.                                                           *)

\* Buffers, lengths and counts stay what they are declared to be; the one
\* length that may become negative is conn->cl after a Range header.
THEOREM HlsTypes == HlsSpec => []HlsTypeOK
<1>1. HlsInv => HlsTypeOK
  BY DEF HlsInv
<1> QED BY <1>1, HlsInductive, PTL

\* A segment handed out to one connection only reaches it whole: neither the
\* segmenter that appends to it nor the readers of other buffers disturb
\* its read_ptr.
THEOREM OnlyReaderServed == HlsSpec => []OnlyReaderGetsAll
<1>1. HlsInv => OnlyReaderGetsAll
  <2> SUFFICES ASSUME HlsInv, NEW c \in Conns, NEW k \in Segments,
                      FullReply(c), conn[c].handle = Seg(k),
                      opens[Seg(k)] = 1
               PROVE  Whole(c)
    BY DEF OnlyReaderGetsAll
  <2>1. Seg(k) \in Buffers /\ ReaderOf(c, Seg(k))
    BY BufferNames DEF FullReply
  <2>2. AloneOK(c, Seg(k)) /\ ConnOK(c)
    BY <2>1 DEF HlsInv, AloneInv, ConnInv
  <2>3. conn[c].name # IndexName /\ conn[c].st = "closed" /\ From(c) = 0
    BY <2>1, <2>2 DEF FullReply, From
  <2>4. conn[c].cl = 0 /\ conn[c].promised = Len(conn[c].got)
    <3>1. conn[c].cl = 0 /\ conn[c].promised = conn[c].cl + Len(conn[c].got)
      BY <2>1, <2>2, <2>3 DEF FullReply
    <3>2. conn[c].got \in Seq(Nat)
      BY Zenon DEF HlsInv, HlsTypeOK, ConnType
    <3> QED BY <3>1, <3>2
  <2>5. conn[c].got = [i \in 1 .. conn[c].promised |-> 0 + i - 1]
    BY <2>1, <2>2, <2>3, <2>4
  <2> QED BY <2>5 DEF Whole
<1> QED BY <1>1, HlsInductive, PTL

\* The segmenter never frees a segment a connection has been given as long as
\* an index may still name it.
THEOREM NamedHandleLive == HlsSpec => []HandleLiveWhileNamed
<1>1. HlsInv => HandleLiveWhileNamed
  <2> SUFFICES ASSUME HlsInv, NEW c \in Conns, NEW k \in Segments,
                      conn[c].st \in {"found", "open"},
                      conn[c].handle = Seg(k), k >= first_segment,
                      pc # "finished"
               PROVE  Live(Seg(k))
    BY DEF HandleLiveWhileNamed
  <2>1. Seg(k) \in Made /\ ready > 0
    BY BufferNames, NoSuchBuffer DEF HlsInv, ConnInv
  <2>2. k \in 1 .. Current
    BY <2>1 DEF Seg, Idx
  <2>3. ~Ended
    BY <2>1 DEF HlsInv, StoreInv, PublishedInv, HeadInv
  <2>4. k \in Oldest .. Current
    BY <2>2 DEF HlsInv, StoreInv, StoreTypeOK, FirstInv, Oldest, Current,
       Segments
  <2> QED BY <2>3, <2>4 DEF HlsInv, StoreInv, MemInv, Held
<1> QED BY <1>1, HlsInductive, PTL

\* Connections that read the same segment from its start share its bytes out
\* among themselves: no byte is sent twice.
THEOREM ReadersShare == HlsSpec => []SharedReadPointer
<1>1. HlsInv => SharedReadPointer
  <2> SUFFICES ASSUME HlsInv, NEW c \in Conns, NEW d \in Conns, c # d,
                      conn[c].handle = conn[d].handle,
                      \A e \in Conns : conn[e].handle = conn[c].handle =>
                                         conn[e].range = NoRange
               PROVE  Apart(c, d)
    BY Zenon DEF SharedReadPointer, Apart
  <2>1. ConnOK(c) /\ ConnOK(d) /\ conn[c] \in ConnType
    BY DEF HlsInv, ConnInv, HlsTypeOK
  <2>2. CASE conn[c].handle = NoHandle \/ ~Replied(c) \/ ~Replied(d)
    <3>1. conn[c].got = <<>> \/ conn[d].got = <<>>
      BY <2>1, <2>2
    <3>2. DOMAIN <<>> = {}
      OBVIOUS
    <3> QED BY <3>1, <3>2
  <2>3. CASE conn[c].handle # NoHandle /\ Replied(c) /\ Replied(d)
    <3>1. /\ conn[c].handle \in Buffers /\ ReaderOf(c, conn[c].handle)
          /\ ReaderOf(d, conn[c].handle) /\ Unsought(conn[c].handle)
      BY <2>1, <2>3 DEF ConnType
    <3> QED BY <3>1 DEF HlsInv, SharedInv
  <2> QED BY <2>2, <2>3
<1> QED BY <1>1, HlsInductive, PTL

\* A Range request that reads its buffer alone starts at the byte it asked
\* for, leaves out none, and ends before the end of the buffer.
THEOREM RangeServed == HlsSpec => []RangeFromStart
<1>1. HlsInv => RangeFromStart
  <2> SUFFICES ASSUME HlsInv, NEW c \in Conns, Replied(c),
                      conn[c].range # NoRange, conn[c].handle # NoHandle,
                      opens[conn[c].handle] = 1
               PROVE  /\ conn[c].got = [i \in 1 .. Len(conn[c].got) |->
                                          conn[c].range[1] + i - 1]
                      /\ conn[c].got # <<>> =>
                           Len(conn[c].got) <= conn[c].promised
                      /\ conn[c].got # <<>> =>
                           conn[c].range[1] + Len(conn[c].got) <=
                             mem[conn[c].handle].write_ptr
    BY Zenon DEF RangeFromStart, Replied
  <2> DEFINE b == conn[c].handle
  <2>1. /\ conn[c] \in ConnType /\ ConnOK(c)
    BY DEF HlsInv, HlsTypeOK, ConnInv
  <2>2. b \in Buffers /\ ReaderOf(c, b) /\ From(c) = conn[c].range[1]
    BY <2>1 DEF ConnType, From
  <2>3. AloneOK(c, b)
    BY <2>2 DEF HlsInv, AloneInv
  <2>4. conn[c].got # <<>> => Len(conn[c].got) <= conn[c].promised
    <3>1. /\ conn[c].promised = conn[c].cl + Len(conn[c].got)
          /\ conn[c].got # <<>> => conn[c].cl >= 0
      BY <2>1
    <3>2. conn[c].got \in Seq(Nat) /\ conn[c].cl \in Int
      BY <2>1, Zenon DEF ConnType
    <3> QED BY <3>1, <3>2
  <2> HIDE DEF b
  <2> QED BY <2>2, <2>3, <2>4 DEF b
<1> QED BY <1>1, HlsInductive, PTL

\* Being read changes nothing of what the segmenter promises: also while
\* connections come, seek and read, an index names only what is there (up to
\* what was dropped under one that could not be replaced), the window is
\* bounded while indexes are written, READY comes with three segments and
\* nothing is leaked.
THEOREM ReadingDisturbsNothing ==
  HlsSpec => [](/\ IndexNamesKeptSegments /\ BoundedWhileIndexed
                /\ ReadyWithThree /\ NoLeak)
<1>1. HlsInv => /\ IndexNamesKeptSegments /\ BoundedWhileIndexed
                /\ ReadyWithThree /\ NoLeak
  BY NamedInv, BoundedInv, ReadyWithThreeInv, NoLeakInv DEF HlsInv
<1> QED BY <1>1, HlsInductive, PTL
=============================================================================
