----------------------------- MODULE RingBuffer -----------------------------
(***************************************************************************)
(* The byte ring of istb_ringbuffer.c between the UDP receiver, which      *)
(* calls iSTB_Buffer_write, and the segmenter, which calls                 *)
(* iSTB_Buffer_read.  Both bodies run entirely under ringbuffer->locker,   *)
(* so each call is one step.                                               *)
(*                                                                         *)
(* A cell of buf stands for one byte (or for any unit that divides both a  *)
(* transport packet and the ring).  A byte's value is its position in the  *)
(* source stream, 1, 2, 3, ...; 0 is the filling calloc leaves.            *)
(***************************************************************************)
EXTENDS Integers, Sequences

CONSTANTS
  BufferSize,   \* ringbuffer->buffersize
  PacketSize,   \* the 188 of the length tests
  WriteLens,    \* lengths the writer passes: sizes of UDP datagrams
  ReadLens,     \* amounts the reader asks for
  TargetSize,   \* size of the reader's own buffer
  MaxStream     \* bound: bytes the source offers altogether

ASSUME RingAssumption ==
  /\ BufferSize \in Nat \ {0}
  /\ PacketSize \in Nat \ {0}
  /\ BufferSize % PacketSize = 0
  /\ WriteLens \subseteq Nat
  /\ TargetSize \in Nat
  /\ ReadLens \subseteq 1 .. TargetSize
  /\ MaxStream \in Nat

VARIABLES
  buf,          \* the storage
  write_ptr,    \* where the next byte is written
  read_ptr,     \* where the next byte is read
  target,       \* the memory the reader's data is copied to
  sent,         \* history: bytes the source has offered
  accepted,     \* history: bytes of the writes that returned their length
  delivered,    \* history: what each successful read returned, in order
  torn,         \* history: a read has run past the end of buf
  brimmed       \* history: a write has filled the ring to the last byte

ringVars == <<buf, write_ptr, read_ptr>>
vars == <<buf, write_ptr, read_ptr, target, sent, accepted, delivered,
          torn, brimmed>>

Cells == 0 .. BufferSize - 1

-----------------------------------------------------------------------------
(* iSTB_Buffer_available_data: equal pointers mean an empty ring.          *)
AvailableData ==
  IF write_ptr < read_ptr THEN write_ptr + BufferSize - read_ptr
                          ELSE write_ptr - read_ptr

\* The unread bytes, oldest first, as the pointers delimit them.
Contents ==
  [k \in 1 .. AvailableData |-> buf[(read_ptr + k - 1) % BufferSize]]

Init ==
  /\ buf = [i \in Cells |-> 0]
  /\ write_ptr = 0
  /\ read_ptr = 0
  /\ target = [k \in 1 .. TargetSize |-> 0]
  /\ sent = 0
  /\ accepted = 0
  /\ delivered = <<>>
  /\ torn = FALSE
  /\ brimmed = FALSE

-----------------------------------------------------------------------------
(* iSTB_Buffer_write.  The source offers its next len bytes.               *)

\* iSTB_Buffer_commit_write, iSTB_Buffer_commit_read.
CommitUnwrapped(ptr, len) == ptr + len                  \* mutant of Commit
Commit(ptr, len) == (ptr + len) % BufferSize

\* A ring found empty is first rewound (iSTB_Buffer_empty).
WriteAt == IF AvailableData = 0 THEN 0 ELSE write_ptr
ReadAtKept == read_ptr                                  \* mutant of ReadAt
ReadAt  == IF AvailableData = 0 THEN 0 ELSE read_ptr

\* The two memcpys: up to the end of buf, and the rest at its start.
\* Mutant: the second memcpy is missing.
StoreUnwrapped(at, len) ==
  [i \in Cells |->
     IF at <= i /\ i < at + len THEN sent + (i - at) + 1 ELSE buf[i]]
Store(at, len) ==
  [i \in Cells |->
     IF at <= i /\ i < at + len THEN sent + (i - at) + 1
     ELSE IF i < at + len - BufferSize THEN sent + (i + BufferSize - at) + 1
     ELSE buf[i]]

Offer(len) ==
  /\ len \in WriteLens
  /\ sent + len <= MaxStream
  /\ sent' = sent + len

\* A length that is not a whole number of packets returns -1 before the lock.
WriteUnfit(len) ==
  /\ Offer(len)
  /\ len % PacketSize # 0
  /\ UNCHANGED <<ringVars, target, accepted, delivered, torn, brimmed>>

\* Not enough space: -1, but the rewinding of an empty ring stays.
WriteRefused(len) ==
  /\ Offer(len)
  /\ len % PacketSize = 0
  /\ BufferSize - AvailableData < len
  /\ write_ptr' = WriteAt
  /\ read_ptr' = ReadAt
  /\ UNCHANGED <<buf, target, accepted, delivered, torn, brimmed>>

WriteAccepted(len) ==
  /\ Offer(len)
  /\ len % PacketSize = 0
  /\ len <= BufferSize - AvailableData
  /\ buf' = Store(WriteAt, len)
  /\ write_ptr' = Commit(WriteAt, len)
  /\ read_ptr' = ReadAt
  /\ accepted' = accepted + len
  /\ brimmed' = (brimmed \/ AvailableData + len = BufferSize)
  /\ UNCHANGED <<target, delivered, torn>>

Write(len) == WriteUnfit(len) \/ WriteRefused(len) \/ WriteAccepted(len)

-----------------------------------------------------------------------------
(* iSTB_Buffer_read: all of amount, or nothing (returns 0).                *)

ReadWraps(amount) == BufferSize - read_ptr < amount

\* What target holds after the call.  A read past the end of buf copies the
\* part at the start of buf to the start of target as well, over the bytes
\* the first memcpy put there, and leaves target's own end as it was.
Load(amount) ==
  LET lentotail == BufferSize - read_ptr
      lentohead == amount - lentotail
  IN  [k \in 1 .. TargetSize |->
         IF k <= lentohead THEN buf[k - 1]
         ELSE IF k <= amount /\ k <= lentotail THEN buf[read_ptr + k - 1]
         ELSE target[k]]

CanReadMore(amount) == amount <= AvailableData + 1      \* mutant of CanRead
CanRead(amount) == amount <= AvailableData

Read(amount) ==
  /\ CanRead(amount)
  /\ target' = Load(amount)
  /\ read_ptr' = Commit(read_ptr, amount)
  /\ delivered' = delivered \o [k \in 1 .. amount |-> Load(amount)[k]]
  /\ torn' = (torn \/ ReadWraps(amount))
  /\ UNCHANGED <<buf, write_ptr, sent, accepted, brimmed>>

Next ==
  \/ \E len \in WriteLens : Write(len)
  \/ \E amount \in ReadLens : Read(amount)

Spec == Init /\ [][Next]_vars

-----------------------------------------------------------------------------
(* Properties.                                                             *)

TypeOK ==
  /\ buf \in [Cells -> Nat]
  /\ write_ptr \in Cells
  /\ read_ptr \in Cells
  /\ target \in [1 .. TargetSize -> Nat]
  /\ sent \in Nat
  /\ accepted \in Nat
  /\ delivered \in Seq(Nat)
  /\ torn \in BOOLEAN
  /\ brimmed \in BOOLEAN

Increasing(s) == \A i, j \in DOMAIN s : i < j => s[i] < s[j]

LastDelivered == IF delivered = <<>> THEN 0 ELSE delivered[Len(delivered)]

\* The reader gets bytes in the order of the source, none twice and none
\* that was never sent, across refusals, rewinds and wrapped writes, until a
\* read runs past the end of buf (iSTB_Buffer_read, line 172).
OrderedUntilTorn ==
  ~torn => /\ Increasing(delivered)
           /\ \A i \in DOMAIN delivered : delivered[i] \in 1 .. sent

\* A write that reported success is not lost: every accepted byte has been
\* delivered or is still unread, until a write fills the ring exactly and
\* its equal pointers read as "empty" (iSTB_Buffer_write, lines 97 and 132).
ConservedUntilBrimmed ==
  ~brimmed => accepted = Len(delivered) + AvailableData

\* Why: the unread bytes are bytes of the stream in its order, and whatever
\* was delivered comes before them.  This is inductive.
UnreadInOrder ==
  /\ \A k \in 1 .. AvailableData : Contents[k] \in 1 .. sent
  /\ Increasing(Contents)
DeliveredBeforeUnread ==
  ~torn => \A i \in DOMAIN delivered, k \in 1 .. AvailableData :
              delivered[i] < Contents[k]
OrderInv == UnreadInOrder /\ DeliveredBeforeUnread /\ OrderedUntilTorn

\* What "the ring buffers the UDP data" (README.md, line 17) promises of order
\* without that proviso.
Ordered == Increasing(delivered)

\* The ring as the queue it is for its two users (module ByteQueue).
Q == INSTANCE ByteQueue WITH queue <- Contents, Capacity <- BufferSize
ImplementsByteQueue == Q!Spec
=============================================================================
