----------------------------- MODULE SegmentList -----------------------------
(***************************************************************************)
(* The queue of istb_m3u8.c as it lies in memory: a ring of m3u8queue_t    *)
(* nodes through queue_head, each linked both ways, changed by the         *)
(* segmenter thread with the macros ADD_TO_TAIL and REMOVE and walked by   *)
(* the HTTP thread with FOREACH (istb_m3u8_api_open), without a lock.      *)
(*                                                                         *)
(* Every store to a pointer the other thread can read is a step, and so is *)
(* every look the walk takes, in the order of the source: the Makefile     *)
(* builds without optimisation.  Stores are taken to become visible in     *)
(* that order.  Touching freed memory or a null pointer is undefined: the  *)
(* walk is then lost and nothing further is said.                          *)
(***************************************************************************)
EXTENDS Integers, Sequences, FiniteSets

CONSTANTS
  NumSegments,   \* options.num_segments
  MaxSegments    \* bound: segments made

ASSUME ListAssumption ==
  /\ NumSegments \in Nat \ {0}
  /\ MaxSegments \in Nat \ {0}

VARIABLES
  next, prev,    \* the links of each node
  node,          \* the memory of each node: "none", "live" or "freed"
  data,          \* the memory of the buffer a node points to
  wpc,           \* where the segmenter is in one of the queue functions
  made,          \* segments made so far
  listnode, tmp, \* the segmenter's node pointers
  walk           \* the HTTP thread in istb_m3u8_api_open

list == <<next, prev, node, data>>
listVars == <<list, wpc, made, listnode, tmp, walk>>

\* Segment k sits in node k; addresses are not used again.
Segments == 1 .. MaxSegments
HEAD == 0                            \* &queue_head->link
NULL == -1
Nodes == {HEAD} \cup Segments
Pointers == Nodes \cup {NULL}

\* Nobody walks.
NoWalk == [at |-> "idle", name |-> 0, listnode |-> NULL, tmp |-> NULL,
           present |-> FALSE, hit |-> FALSE]

\* istb_m3u8_queue_init.
ListInit ==
  /\ next = [p \in Nodes |-> IF p = HEAD THEN HEAD ELSE NULL]
  /\ prev = [p \in Nodes |-> IF p = HEAD THEN HEAD ELSE NULL]
  /\ node = [p \in Nodes |-> IF p = HEAD THEN "live" ELSE "none"]
  /\ data = [k \in Segments |-> "none"]
  /\ wpc = "idle"
  /\ made = 0
  /\ listnode = NULL
  /\ tmp = NULL
  /\ walk = NoWalk

-----------------------------------------------------------------------------
(* The queue as the links give it.                                         *)

\* The node i hops from the head, until one leads to the head or to a null
\* pointer: then that.
Hop[i \in 1 .. MaxSegments] ==
  IF i = 1 THEN next[HEAD]
  ELSE IF Hop[i - 1] \in Segments THEN next[Hop[i - 1]] ELSE Hop[i - 1]

\* The nodes a walk from the head would meet.
Reached ==
  LET hops == {i \in 1 .. MaxSegments : Hop[i] \in Segments}
  IN  [i \in 1 .. Cardinality(hops) |-> Hop[i]]

InList == {Reached[i] : i \in DOMAIN Reached}

Destroying == wpc \in {"des1", "des2", "des3", "gone"}

-----------------------------------------------------------------------------
(* istb_m3u8_queue_add: calloc, then ADD_TO_TAIL.                          *)

StartAdd ==
  /\ wpc \in {"idle", "rotate"}
  /\ made < MaxSegments
  /\ made' = made + 1
  /\ listnode' = made'
  /\ node' = [node EXCEPT ![made'] = "live"]
  /\ data' = [data EXCEPT ![made'] = "live"]
  /\ wpc' = "add1"
  /\ UNCHANGED <<next, prev, tmp, walk>>

\* Mutant of LinkTail: the new node is linked behind the head.
LinkFront ==
  /\ wpc = "add1"
  /\ next' = [next EXCEPT ![HEAD] = listnode]
  /\ wpc' = "add2"
  /\ UNCHANGED <<prev, node, data, made, listnode, tmp, walk>>

LinkTail ==                               \* ((H)->prev)->next = (N)
  /\ wpc = "add1"
  /\ next' = [next EXCEPT ![prev[HEAD]] = listnode]
  /\ wpc' = "add2"
  /\ UNCHANGED <<prev, node, data, made, listnode, tmp, walk>>

SetPrev ==                                \* (N)->prev = ((H)->prev)
  /\ wpc = "add2"
  /\ prev' = [prev EXCEPT ![listnode] = prev[HEAD]]
  /\ wpc' = "add3"
  /\ UNCHANGED <<next, node, data, made, listnode, tmp, walk>>

\* Mutant of SetNext: the node is left linked to itself.
SetNextSelf ==
  /\ wpc = "add3"
  /\ next' = [next EXCEPT ![listnode] = listnode]
  /\ wpc' = "add4"
  /\ UNCHANGED <<prev, node, data, made, listnode, tmp, walk>>

SetNext ==                                \* (N)->next = (H)
  /\ wpc = "add3"
  /\ next' = [next EXCEPT ![listnode] = HEAD]
  /\ wpc' = "add4"
  /\ UNCHANGED <<prev, node, data, made, listnode, tmp, walk>>

\* Mutant of MoveTail: the head goes on pointing to the old tail.
MoveTailNot ==
  /\ wpc = "add4"
  /\ wpc' = "idle"
  /\ UNCHANGED <<list, made, listnode, tmp, walk>>

MoveTail ==                               \* (H)->prev = (N)
  /\ wpc = "add4"
  /\ prev' = [prev EXCEPT ![HEAD] = listnode]
  /\ wpc' = "idle"
  /\ UNCHANGED <<next, node, data, made, listnode, tmp, walk>>

-----------------------------------------------------------------------------
(* istb_m3u8_queue_remove: REMOVE of the first node, then it is freed.  A  *)
(* rotation calls it when the window is full and adds a segment after it.  *)

StartRemove ==
  /\ wpc = "idle"
  /\ Cardinality(InList) > NumSegments
  /\ listnode' = next[HEAD]
  /\ wpc' = "rem1"
  /\ UNCHANGED <<list, made, tmp, walk>>

UnlinkBack ==                             \* ((N)->next)->prev = ((N)->prev)
  /\ wpc = "rem1"
  /\ prev' = [prev EXCEPT ![next[listnode]] = prev[listnode]]
  /\ wpc' = "rem2"
  /\ UNCHANGED <<next, node, data, made, listnode, tmp, walk>>

\* The walk stands on node p or is about to go there.
StandsOn(p) ==
  \/ walk.at \in {"next", "test"} /\ walk.listnode = p
  \/ walk.at = "test" /\ walk.tmp = p

\* With this store the node is out of the list.
Unlink ==                                 \* ((N)->prev)->next = ((N)->next)
  /\ wpc = "rem2"
  /\ next' = [next EXCEPT ![prev[listnode]] = next[listnode]]
  /\ walk' = [walk EXCEPT
                !.hit = @ \/ StandsOn(listnode),
                !.present = @ /\ walk.name # listnode]
  /\ wpc' = "rem3"
  /\ UNCHANGED <<prev, node, data, made, listnode, tmp>>

SelfPrev ==                               \* INIT(N), the inner assignment
  /\ wpc = "rem3"
  /\ prev' = [prev EXCEPT ![listnode] = listnode]
  /\ wpc' = "rem4"
  /\ UNCHANGED <<next, node, data, made, listnode, tmp, walk>>

SelfNext ==                               \* INIT(N), the outer assignment
  /\ wpc = "rem4"
  /\ next' = [next EXCEPT ![listnode] = listnode]
  /\ wpc' = "rem5"
  /\ UNCHANGED <<prev, node, data, made, listnode, tmp, walk>>

\* Mutant of FreeData: the buffer of the new first node is destroyed.
FreeDataNext ==
  /\ wpc \in {"rem5", "des1"}
  /\ data' = [data EXCEPT ![IF next[HEAD] = HEAD THEN listnode
                                                 ELSE next[HEAD]] = "freed"]
  /\ wpc' = IF wpc = "rem5" THEN "rem6" ELSE "des2"
  /\ UNCHANGED <<next, prev, node, made, listnode, tmp, walk>>

\* istb_m3u8_buffer_destroy, of a removal or of the clean-up.
FreeData ==
  /\ wpc \in {"rem5", "des1"}
  /\ data' = [data EXCEPT ![listnode] = "freed"]
  /\ wpc' = IF wpc = "rem5" THEN "rem6" ELSE "des2"
  /\ UNCHANGED <<next, prev, node, made, listnode, tmp, walk>>

FreeNode ==
  /\ wpc = "rem6"
  /\ node' = [node EXCEPT ![listnode] = "freed"]
  /\ wpc' = "rotate"
  /\ UNCHANGED <<next, prev, data, made, listnode, tmp, walk>>

-----------------------------------------------------------------------------
(* istb_m3u8_queue_destroy: FOREACH with the next node saved, then the head.*)

StartDestroy ==
  /\ wpc \in {"idle", "rotate"}
  /\ listnode' = next[HEAD]
  /\ tmp' = next[next[HEAD]]
  /\ walk' = [walk EXCEPT !.hit = @ \/ walk.at # "idle"]
  /\ wpc' = IF next[HEAD] = HEAD THEN "des3" ELSE "des1"
  /\ UNCHANGED <<list, made>>

DestroyNode ==
  /\ wpc = "des2"
  /\ node' = [node EXCEPT ![listnode] = "freed"]
  /\ listnode' = tmp
  /\ tmp' = next[tmp]
  /\ wpc' = IF tmp = HEAD THEN "des3" ELSE "des1"
  /\ UNCHANGED <<next, prev, data, made, walk>>

DestroyHead ==
  /\ wpc = "des3"
  /\ node' = [node EXCEPT ![HEAD] = "freed"]
  /\ wpc' = "gone"
  /\ UNCHANGED <<next, prev, data, made, listnode, tmp, walk>>

-----------------------------------------------------------------------------
(* istb_m3u8_api_open for a segment, one look at a time.                   *)

Lost == walk' = [walk EXCEPT !.at = "lost"]

StartWalk ==
  /\ walk.at = "idle"
  /\ \E name \in Segments \cup {MaxSegments + 1} :
       LET begun == [NoWalk EXCEPT
                       !.name = name, !.present = name \in InList,
                       !.hit = Destroying]
       IN walk' = IF node[HEAD] = "live"
                  THEN [begun EXCEPT !.at = "next", !.listnode = next[HEAD]]
                  ELSE [begun EXCEPT !.at = "lost"]
  /\ UNCHANGED <<list, wpc, made, listnode, tmp>>

SaveNext ==                               \* T = (N)->next
  /\ walk.at = "next"
  /\ \/ /\ walk.listnode \in Nodes /\ node[walk.listnode] = "live"
        /\ walk' = [walk EXCEPT !.at = "test", !.tmp = next[walk.listnode]]
     \/ /\ walk.listnode \in Nodes => node[walk.listnode] # "live"
        /\ Lost
  /\ UNCHANGED <<list, wpc, made, listnode, tmp>>

\* Mutant of TestNode: the last node is not compared.
TestNodeShort ==
  /\ walk.at = "test"
  /\ \/ walk.listnode = HEAD /\ walk' = [walk EXCEPT !.at = "missing"]
     \/ /\ walk.listnode # HEAD
        /\ node[walk.listnode] # "live" \/ data[walk.listnode] # "live"
        /\ Lost
     \/ /\ walk.listnode # HEAD
        /\ node[walk.listnode] = "live" /\ data[walk.listnode] = "live"
        /\ walk' = IF walk.listnode = walk.name /\ walk.tmp # HEAD
                   THEN [walk EXCEPT !.at = "found"]
                   ELSE [walk EXCEPT !.at = "next", !.listnode = walk.tmp]
  /\ UNCHANGED <<list, wpc, made, listnode, tmp>>

\* N != (H), then the name of the node's buffer is compared.
TestNode ==
  /\ walk.at = "test"
  /\ \/ walk.listnode = HEAD /\ walk' = [walk EXCEPT !.at = "missing"]
     \/ /\ walk.listnode # HEAD
        /\ node[walk.listnode] # "live" \/ data[walk.listnode] # "live"
        /\ Lost
     \/ /\ walk.listnode # HEAD
        /\ node[walk.listnode] = "live" /\ data[walk.listnode] = "live"
        /\ walk' = IF walk.listnode = walk.name
                   THEN [walk EXCEPT !.at = "found"]
                   ELSE [walk EXCEPT !.at = "next", !.listnode = walk.tmp]
  /\ UNCHANGED <<list, wpc, made, listnode, tmp>>

\* The handler returns; the thread is ready for another request.
EndWalk ==
  /\ walk.at \in {"found", "missing"}
  /\ walk' = NoWalk
  /\ UNCHANGED <<list, wpc, made, listnode, tmp>>

-----------------------------------------------------------------------------
Add == LinkTail \/ SetPrev \/ SetNext \/ MoveTail
Remove == UnlinkBack \/ Unlink \/ SelfPrev \/ SelfNext \/ FreeNode
Destroy == DestroyNode \/ DestroyHead
Segmenter ==
  StartAdd \/ StartRemove \/ StartDestroy \/ Add \/ Remove \/ FreeData \/ Destroy
Walk == SaveNext \/ TestNode

ListNext == walk.at # "lost" /\ (Segmenter \/ StartWalk \/ Walk \/ EndWalk)

\* Both threads complete what they have begun; neither need begin anything.
ListSpec ==
  /\ ListInit
  /\ [][ListNext]_listVars
  /\ WF_listVars(walk.at # "lost" /\ (Add \/ Remove \/ FreeData \/ Destroy))
  /\ WF_listVars(walk.at # "lost" /\ Walk)

-----------------------------------------------------------------------------
(* Properties.                                                             *)

ListTypeOK ==
  /\ next \in [Nodes -> Pointers]
  /\ prev \in [Nodes -> Pointers]
  /\ node \in [Nodes -> {"none", "live", "freed"}]
  /\ data \in [Segments -> {"none", "live", "freed"}]
  /\ wpc \in {"idle", "rotate", "add1", "add2", "add3", "add4", "rem1",
              "rem2", "rem3", "rem4", "rem5", "rem6", "des1", "des2", "des3",
              "gone"}
  /\ made \in 0 .. MaxSegments
  /\ listnode \in Pointers /\ tmp \in Pointers
  /\ walk \in [at : {"idle", "next", "test", "found", "missing", "lost"},
               name : 0 .. MaxSegments + 1, listnode : Pointers,
               tmp : Pointers, present : BOOLEAN, hit : BOOLEAN]

\* Through all its intermediate states the list is a queue: what a walk from
\* the head would meet changes only by one segment more at the tail, one less
\* at the head, or all given up.
AbstractQueue ==
  INSTANCE SegmentQueue WITH
    queue <- IF Destroying THEN <<>> ELSE Reached,
    made <- IF wpc = "add1" THEN made - 1 ELSE made
ImplementsQueue == AbstractQueue!Spec

\* A walk for a segment that is in the list from its start on finds it, be
\* segments added or removed meanwhile, unless it stood on the oldest node at
\* the very store that took it out, or the queue was being destroyed.
FoundUnlessHit ==
  walk.present /\ ~walk.hit => walk.at \notin {"lost", "missing"}

\* Every walk comes to an end, also one that is caught on a node which REMOVE
\* made point to itself: the node is freed next, and the walk is lost.
WalkEnds == walk.at \in {"next", "test"} ~> walk.at \in {"found", "missing", "lost"}
=============================================================================
