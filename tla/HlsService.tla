----------------------------- MODULE HlsService -----------------------------
(***************************************************************************)
(* The segment store with its readers: the HTTP thread answers requests    *)
(* from the very buffers the segmenter thread makes and frees.             *)
(*                                                                         *)
(* One thread serves all connections.  A request is answered by            *)
(* user_defined_requst (istb_httpserver.c): istb_m3u8_api_open finds the   *)
(* buffer and its length, mg_write_range promises a Content-Length; from   *)
(* then on every mg_poll_server moves one block with transfer_file_data.   *)
(* A connection is closed after its reply.  Touching freed memory or a     *)
(* null pointer is undefined: the model stops there with ub set.           *)
(***************************************************************************)
EXTENDS SegmentStore

CONSTANTS
  Conns,     \* the connections clients open
  Ranges,    \* Range headers sent: <<r1, r2>>, r2 = Open for "bytes=r1-"
  BlockSize  \* IOBUF_SIZE, the most one transfer_file_data moves

ASSUME ServiceAssumption ==
  /\ Ranges \subseteq Nat \X (Nat \cup {-1})
  /\ BlockSize \in Nat \ {0}

VARIABLES
  conn,      \* the connections
  opens,     \* history: how often each buffer was handed out
  ub         \* undefined behaviour has happened

httpVars == <<conn, opens, ub>>
vars == <<storeVars, httpVars>>

Open == -1
NoRange == <<>>
NoHandle == <<>>
IndexName == 0      \* what a client asks for: the index, or a segment number
Names == {IndexName} \cup Segments

Idle == [st |-> "idle", name |-> IndexName, range |-> NoRange,
         handle |-> NoHandle, size |-> 0, cl |-> 0, promised |-> 0,
         got |-> <<>>]

HlsInit ==
  /\ Init
  /\ conn = [c \in Conns |-> Idle]
  /\ opens = [b \in Buffers |-> 0]
  /\ ub = FALSE

\* The server is started by the first READY; its thread does one thing at a
\* time, and nothing after undefined behaviour.
Serving == ready > 0 /\ ~ub /\ pc # "crashed"
InHandler == \E c \in Conns : conn[c].st = "found"

LiveBuffers == {b \in Buffers : Live(b)}

Undefined == ub' = TRUE /\ UNCHANGED <<conn, opens, storeVars>>

-----------------------------------------------------------------------------
(* istb_m3u8_api_open up to the length of the buffer.                      *)

\* The node of the list whose buffer bears the name; the head for an index.
\* A segment that is not in the list has none (NoHandle).
Target(name) ==
  IF name = IndexName THEN Idx(head)
  ELSE IF \E i \in DOMAIN queue : queue[i] = name THEN Seg(name)
  ELSE NoHandle

\* What the lookup dereferences is gone: the queue was destroyed, there is
\* no index or it was just freed.
LookupFails(name) ==
  \/ pc = "finished"
  \/ name = IndexName /\ (head = NoIndex \/ ~Live(Idx(head)))

Lookup(c, name, range) ==
  /\ Serving /\ ~InHandler
  /\ conn[c].st = "idle"
  /\ IF LookupFails(name) THEN Undefined
     ELSE LET b == Target(name) IN
       /\ conn' = [conn EXCEPT
                     ![c].st = "found", ![c].name = name, ![c].range = range,
                     ![c].handle = b,
                     ![c].size = IF b = NoHandle THEN 0
                                                 ELSE mem[b].write_ptr]
       /\ UNCHANGED <<opens, ub, storeVars>>

-----------------------------------------------------------------------------
(* The rest of the handler: the handle is read once more from the node or  *)
(* from the head, then mg_write_range.                                     *)

\* conn->cl after the Range header, for a buffer of the given size.
ReplyLength(range, size) ==
  IF range = NoRange THEN size
  ELSE IF range[2] = Open THEN size - range[1]
  ELSE (IF range[2] > size THEN size ELSE range[2]) - range[1] + 1

\* istb_m3u8_api_seek.
SeekNowhere(b, offset) == mem                           \* mutant of Seek
Seek(b, offset) == [mem EXCEPT ![b].read_ptr = offset]

Reply(c) ==
  /\ Serving
  /\ conn[c].st = "found"
  /\ LET h == IF conn[c].name = IndexName THEN Idx(head) ELSE conn[c].handle
         len == ReplyLength(conn[c].range, conn[c].size)
         gone == \* the head, the node or, for a seek, the buffer; or no buffer
           \/ conn[c].name = IndexName /\ pc = "finished"
           \/ conn[c].name # IndexName /\ h \notin LiveBuffers \cup {NoHandle}
           \/ conn[c].range # NoRange /\ h \notin LiveBuffers
     IN \/ gone /\ Undefined
        \/ /\ ~gone
           /\ conn' = [conn EXCEPT ![c].st = "open", ![c].handle = h,
                                   ![c].cl = len, ![c].promised = len]
           /\ opens' = IF h = NoHandle THEN opens
                                       ELSE [opens EXCEPT ![h] = @ + 1]
           /\ mem' = IF conn[c].range = NoRange THEN mem
                     ELSE Seek(h, conn[c].range[1])
           /\ ub' = ub
           /\ UNCHANGED <<pc, closing, first_segment, last_segment,
                          output_index, write_index, remove_file, queue,
                          head, index, unlinked, ready>>

-----------------------------------------------------------------------------
(* transfer_file_data with istb_m3u8_api_read.                             *)

\* istb_m3u8_buffer_read: what len asks for, cut at what has been written.
ReadLengthShort(b, len) ==                              \* mutant of ReadLength
  IF mem[b].read_ptr + len >= mem[b].write_ptr
  THEN mem[b].write_ptr - mem[b].read_ptr - 1 ELSE len
ReadLength(b, len) ==
  IF mem[b].read_ptr + len > mem[b].write_ptr
  THEN mem[b].write_ptr - mem[b].read_ptr ELSE len

ConsumeNot(b, n) == mem                                 \* mutant of Consume
Consume(b, n) == [mem EXCEPT ![b].read_ptr = @ + n]

\* The endpoint is closed on an error, which reading nothing is (is_error),
\* and when the promised length has been moved.
EndsOnCount(c, n) == conn[c].cl <= n                    \* mutant of Ends
Ends(c, n) == n = 0 \/ conn[c].cl <= n

Transferring(c) == Serving /\ ~InHandler /\ conn[c].st = "open"

Transfer(c) ==
  /\ Transferring(c)
  /\ conn[c].handle # NoHandle
  /\ LET b == conn[c].handle
         n == ReadLength(b, IF conn[c].cl < BlockSize THEN conn[c].cl
                                                      ELSE BlockSize)
     IN IF ~Live(b) \/ n < 0 THEN Undefined
        ELSE /\ conn' = [conn EXCEPT
                  ![c].cl = @ - n,
                  ![c].got = @ \o [i \in 1 .. n |-> mem[b].read_ptr + i - 1],
                  ![c].st = IF Ends(c, n) THEN "closed" ELSE "open"]
             /\ mem' = Consume(b, n)
             /\ UNCHANGED <<opens, ub, pc, closing, first_segment,
                            last_segment, output_index, write_index,
                            remove_file, queue, head, index, unlinked, ready>>

\* No buffer of that name: the read returns -1.  is_error looks at an errno
\* some earlier call left; with EAGAIN in it the connection just stays.
TransferNothing(c) ==
  /\ Transferring(c)
  /\ conn[c].handle = NoHandle
  /\ conn' = [conn EXCEPT ![c].st = "closed"]
  /\ UNCHANGED <<opens, ub, storeVars>>

\* Idle longer than idle_timeout_ms: only a connection that moves nothing.
Expire(c) ==
  /\ Transferring(c)
  /\ conn[c].handle = NoHandle
  /\ conn' = [conn EXCEPT ![c].st = "gone"]
  /\ UNCHANGED <<opens, ub, storeVars>>

\* The client closes its end before the reply is over.
Hangup(c) ==
  /\ Transferring(c)
  /\ conn' = [conn EXCEPT ![c].st = "gone"]
  /\ UNCHANGED <<opens, ub, storeVars>>

-----------------------------------------------------------------------------
HttpStep(c) ==
  \/ \E name \in Names, range \in Ranges \cup {NoRange} : Lookup(c, name, range)
  \/ Reply(c) \/ Transfer(c) \/ TransferNothing(c) \/ Expire(c) \/ Hangup(c)

HlsNext ==
  \/ ~ub /\ StoreNext /\ UNCHANGED httpVars
  \/ \E c \in Conns : HttpStep(c)

\* The poll loop keeps turning and visits every connection; when requests
\* come, when clients leave and when the input ends is left open.
HlsSpec ==
  /\ HlsInit
  /\ [][HlsNext]_vars
  /\ \A c \in Conns : /\ WF_vars(Reply(c))
                      /\ WF_vars(Transfer(c))
                      /\ WF_vars(Expire(c))

-----------------------------------------------------------------------------
(* Properties.                                                             *)

ConnType ==
  [st : {"idle", "found", "open", "closed", "gone"}, name : Names,
   range : Ranges \cup {NoRange}, handle : Buffers \cup {NoHandle},
   size : Nat, cl : Int, promised : Int, got : Seq(Nat)]

HlsTypeOK ==
  /\ StoreTypeOK
  /\ conn \in [Conns -> ConnType]
  /\ opens \in [Buffers -> Nat]
  /\ ub \in BOOLEAN

\* A reply is whole: exactly the promised bytes, in order, from the start.
Whole(c) == conn[c].got = [i \in 1 .. conn[c].promised |-> i - 1]

FullReply(c) == conn[c].st = "closed" /\ conn[c].range = NoRange

\* The only connection a segment was ever handed out to gets all of it that
\* was there when it asked, even while the segmenter still appends to it.
OnlyReaderGetsAll ==
  \A c \in Conns, k \in Segments :
     (FullReply(c) /\ conn[c].handle = Seg(k) /\ opens[Seg(k)] = 1) => Whole(c)

\* A connection's segment is still there as long as first_segment has not
\* passed it: what a current index names can be fetched.
HandleLiveWhileNamed ==
  \A c \in Conns, k \in Segments :
     (/\ conn[c].st \in {"found", "open"}
      /\ conn[c].handle = Seg(k)
      /\ k >= first_segment
      /\ pc # "finished") => Live(Seg(k))

\* All connections that read a segment without a Range share its read_ptr:
\* together they never get a byte twice.
SharedReadPointer ==
  \A c, d \in Conns :
     (/\ c # d
      /\ conn[c].handle = conn[d].handle
      /\ conn[c].range = NoRange /\ conn[d].range = NoRange
      /\ \A e \in Conns : conn[e].handle = conn[c].handle =>
                             conn[e].range = NoRange) =>
        \A i \in DOMAIN conn[c].got, j \in DOMAIN conn[d].got :
           conn[c].got[i] # conn[d].got[j]

\* Whoever alone reads a buffer with a Range gets the bytes from the first
\* one asked for on, without a gap, and none beyond what the buffer holds.
RangeFromStart ==
  \A c \in Conns :
     (/\ conn[c].st \in {"open", "closed", "gone"}
      /\ conn[c].range # NoRange
      /\ conn[c].handle # NoHandle
      /\ opens[conn[c].handle] = 1) =>
        /\ conn[c].got = [i \in 1 .. Len(conn[c].got) |->
                            conn[c].range[1] + i - 1]
        /\ conn[c].got # <<>> => Len(conn[c].got) <= conn[c].promised
        /\ conn[c].got # <<>> =>
             conn[c].range[1] + Len(conn[c].got) <=
               mem[conn[c].handle].write_ptr

\* A reply that was begun comes to an end.
RepliesEnd ==
  \A c \in Conns : conn[c].st \in {"found", "open"} ~>
                     (conn[c].st \in {"closed", "gone"} \/ ~Serving)

\* What the code's own comments and headers promise.
NoUseAfterFree == ~ub
EveryReplyWhole ==
  \A c \in Conns : FullReply(c) /\ conn[c].name # IndexName => Whole(c)
=============================================================================
