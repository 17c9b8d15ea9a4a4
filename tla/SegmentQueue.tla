---------------------------- MODULE SegmentQueue ----------------------------
(***************************************************************************)
(* What the segment queue of istb_m3u8.c promises to those who look at it: *)
(* segments enter at the tail in the order in which they are made, leave   *)
(* one at a time at the head, and are given up all at once at the end.     *)
(* SegmentList, the linked list store by store, implements it.             *)
(***************************************************************************)
EXTENDS Naturals, Sequences

VARIABLES
  queue,   \* the segments in the queue, oldest first
  made     \* segments made so far, numbered from 1

queueVars == <<queue, made>>

Init ==
  /\ queue = <<>>
  /\ made = 0

\* istb_m3u8_queue_add of the next segment.
Add ==
  /\ made' = made + 1
  /\ queue' = Append(queue, made')

\* istb_m3u8_queue_remove of the oldest.
RemoveOldest ==
  /\ queue # <<>>
  /\ queue' = Tail(queue)
  /\ UNCHANGED made

\* istb_m3u8_queue_destroy.
Destroy ==
  /\ queue' = <<>>
  /\ UNCHANGED made

Next == Add \/ RemoveOldest \/ Destroy

Spec == Init /\ [][Next]_queueVars
=============================================================================
