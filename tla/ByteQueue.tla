------------------------------ MODULE ByteQueue ------------------------------
(***************************************************************************)
(* What the two users of istb_ringbuffer.c see of it: a bounded queue of   *)
(* bytes.  The writer offers the stream in blocks.  A block is appended    *)
(* whole and behind everything unread, or refused for its length or for    *)
(* want of room and lost; the reader removes a block from the front.  A    *)
(* block that fills the queue to its capacity empties it instead: that is  *)
(* what the pointers of the code say of a full ring, and the specification *)
(* says it openly.  A byte is its position in the stream.                  *)
(***************************************************************************)
EXTENDS Integers, Sequences

CONSTANTS Capacity, PacketSize, WriteLens, ReadLens

VARIABLES queue, sent

vars == <<queue, sent>>

Init == queue = <<>> /\ sent = 0

Block(len) == [i \in 1 .. len |-> sent + i]
Fits(len) == len % PacketSize = 0 /\ Len(queue) + len <= Capacity

Put(len) ==
  /\ Fits(len)
  /\ Len(queue) + len # Capacity
  /\ queue' = queue \o Block(len)

Brim(len) ==
  /\ Fits(len)
  /\ Len(queue) + len = Capacity
  /\ queue' = <<>>

Refuse(len) ==
  /\ ~Fits(len)
  /\ queue' = queue

Offer(len) ==
  /\ sent' = sent + len
  /\ Put(len) \/ Brim(len) \/ Refuse(len)

Take(amount) ==
  /\ amount <= Len(queue)
  /\ queue' = SubSeq(queue, amount + 1, Len(queue))
  /\ sent' = sent

Next ==
  \/ \E len \in WriteLens : Offer(len)
  \/ \E amount \in ReadLens : Take(amount)

Spec == Init /\ [][Next]_vars
=============================================================================
