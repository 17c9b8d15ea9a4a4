------------------------ MODULE SegmentMemoryProofs ------------------------
(***************************************************************************)
(* What the memory of the segment store promises: its list of nodes        *)
(* (SegmentList), its buffers (SegmentBuffer), and the two side by side.   *)
(*                                                                         *)
(* The list, for any window and any number of segments: it is a queue at   *)
(* every single store, and a walk that holds no lock finds a segment that  *)
(* stays in the list, unless it stood on the oldest node at the store that *)
(* took it out.  Segments are made in order and leave in order, so the     *)
(* list is always the range Lo .. Hi.  ListInv says how far next and prev  *)
(* agree with that range at each store of ADD_TO_TAIL and REMOVE, and      *)
(* where in the range a walk can be.                                       *)
(*                                                                         *)
(* A buffer, for every size of the first block and all lengths of reads    *)
(* and writes.  BufferInv has three parts: what holds at each place of the *)
(* writer, what holds at each place of the reader, and what a read that    *)
(* began on a complete buffer may rely on in between.                      *)
(***************************************************************************)
EXTENDS MCSegmentMemory, FiniteSetTheorems, SequenceTheorems,
        WellFoundedInduction, TLAPS

-----------------------------------------------------------------------------
(* The list.                                                               *)

\* The last segment that can be reached, and the first.
Hi == IF wpc = "add1" THEN made - 1 ELSE made
Lo == IF next[HEAD] = HEAD THEN Hi + 1 ELSE next[HEAD]

\* The same as seen through prev: REMOVE changes prev one store before next,
\* ADD_TO_TAIL three stores after it.
LoBack == IF wpc = "rem2" THEN Lo + 1 ELSE Lo
HiBack == IF wpc \in {"add2", "add3", "add4"} THEN made - 1 ELSE Hi

Adding == wpc \in {"add1", "add2", "add3", "add4"}
Unlinked == wpc \in {"rem3", "rem4", "rem5", "rem6"}

ForwardInv ==
  /\ next[HEAD] \in {HEAD} \cup 1 .. Hi
  /\ \A k \in Lo .. Hi :
       next[k] = IF k < Hi THEN k + 1
                 ELSE IF wpc \in {"add2", "add3"} THEN NULL ELSE HEAD
  /\ \A k \in Segments : k > Hi => next[k] = NULL

BackInv ==
  /\ prev[HEAD] = IF LoBack <= HiBack THEN HiBack ELSE HEAD
  /\ \A k \in Lo .. Hi :
       \/ wpc = "add2" /\ k = made
       \/ prev[k] = IF k <= LoBack THEN HEAD ELSE k - 1

\* What is allocated.
AllocInv ==
  /\ node[HEAD] = IF wpc = "gone" THEN "freed" ELSE "live"
  /\ ~Destroying =>
       \A k \in Lo .. made : node[k] = "live" /\ data[k] = "live"

\* Where the segmenter's pointers are.
PointerInv ==
  /\ Adding => listnode = made /\ made >= 1
  /\ Adding /\ wpc # "add1" => Lo <= Hi
  /\ wpc \in {"rem1", "rem2"} => listnode = Lo /\ Lo <= Hi
  /\ Unlinked => listnode = Lo - 1 /\ listnode >= 1
  /\ wpc \in {"des1", "des2"} =>
       listnode \in Lo .. Hi /\ tmp \in {HEAD} \cup Lo .. Hi

\* A walk on its way to a segment that is there has not passed it.
WalkInv ==
  /\ Destroying => walk.at = "idle" \/ walk.hit
  /\ walk.at = "idle" => walk.present = FALSE
  /\ walk.at = "test" => walk.listnode \in Nodes
  /\ walk.present /\ ~walk.hit =>
       /\ walk.at \in {"next", "test", "found"}
       /\ walk.at # "found" => /\ walk.name \in Lo .. Hi
                               /\ walk.listnode \in Lo .. walk.name
       /\ walk.at = "test" /\ walk.listnode # walk.name =>
            walk.tmp = walk.listnode + 1

ListInv ==
  /\ ListTypeOK /\ ForwardInv /\ BackInv /\ AllocInv /\ PointerInv /\ WalkInv

USE ListAssumption DEF Adding, Unlinked, Destroying

-----------------------------------------------------------------------------
(* The list is the range Lo .. Hi.                                         *)

\* Induction without an operator: a set of naturals has a least element.
LEMMA LeastNumber ==
  ASSUME NEW T \in SUBSET Nat, T # {}
  PROVE  \E x \in T : \A y \in T : x <= y
<1>1. IsWellFoundedOn(OpToRel(<, Nat), Nat)
  BY NatLessThanWellFounded
<1>2. PICK x \in T : \A y \in T : ~(<<y, x>> \in OpToRel(<, Nat))
  BY <1>1, WFMin, Zenon
<1>3. \A y \in T : ~(y < x)
  BY <1>2 DEF OpToRel
<1> QED BY <1>3

\* A function that hops as Hop does is Hop.
LEMMA HopUnique ==
  ASSUME NEW g,
         g = [i \in 1 .. MaxSegments |->
                IF i = 1 THEN next[HEAD]
                ELSE IF g[i - 1] \in Segments THEN next[g[i - 1]]
                ELSE g[i - 1]]
  PROVE  Hop = g
<1>1. Hop = [i \in 1 .. MaxSegments |->
               IF i = 1 THEN next[HEAD]
               ELSE IF Hop[i - 1] \in Segments THEN next[Hop[i - 1]]
               ELSE Hop[i - 1]]
  BY DEF Hop
<1> HIDE DEF Hop
<1> SUFFICES ASSUME \E i \in 1 .. MaxSegments : Hop[i] # g[i]
             PROVE  FALSE
  BY <1>1
<1> DEFINE T == {i \in 1 .. MaxSegments : Hop[i] # g[i]}
<1>2. PICK x \in T : \A y \in T : x <= y
  <2>1. T # {}
    OBVIOUS
  <2>2. T \subseteq Nat
    <3>1. 1 .. MaxSegments \subseteq Nat
      OBVIOUS
    <3> QED BY <3>1
  <2> HIDE DEF T
  <2> QED BY <2>1, <2>2, LeastNumber
<1>3. x # 1
  BY <1>1
<1>4. x - 1 \in 1 .. MaxSegments /\ x - 1 \notin T
  BY <1>2, <1>3
<1>5. Hop[x - 1] = g[x - 1]
  BY <1>4
<1> QED BY <1>1, <1>3, <1>5

\* What a walk from the head would meet.
LEMMA ReachedIs ==
  ASSUME ListTypeOK, ForwardInv, PointerInv
  PROVE  /\ Reached = [i \in 1 .. Hi - Lo + 1 |-> Lo + i - 1]
         /\ InList = Lo .. Hi
         /\ Lo \in 1 .. Hi + 1 /\ Hi \in 0 .. MaxSegments
<1>1. /\ Hi \in 0 .. MaxSegments /\ Lo \in 1 .. Hi + 1
      /\ next[HEAD] = IF Lo <= Hi THEN Lo ELSE HEAD
  <2>1. Hi \in 0 .. MaxSegments
    BY DEF ListTypeOK, PointerInv, Hi
  <2>2. next[HEAD] \in {HEAD} \cup 1 .. Hi
    BY DEF ForwardInv
  <2> QED BY <2>1, <2>2 DEF Lo, HEAD
<1>2. /\ \A k \in Lo .. Hi : k < Hi => next[k] = k + 1
      /\ Lo <= Hi => next[Hi] \notin Segments
  BY <1>1 DEF ForwardInv, HEAD, NULL, Segments
<1> HIDE DEF Lo, Hi
<1> DEFINE end == IF Lo <= Hi THEN next[Hi] ELSE HEAD
           n == Hi - Lo + 1
           g == [i \in 1 .. MaxSegments |->
                   IF i <= n THEN Lo + i - 1 ELSE end]
<1>3. end \notin Segments /\ n \in 0 .. MaxSegments
  BY <1>1, <1>2 DEF HEAD, Segments
<1>4. Hop = g
  <2>1. \A i \in 1 .. MaxSegments :
          g[i] = IF i = 1 THEN next[HEAD]
                 ELSE IF g[i - 1] \in Segments THEN next[g[i - 1]]
                 ELSE g[i - 1]
    <3> TAKE i \in 1 .. MaxSegments
    <3>1. CASE i = 1
      BY <1>1, <3>1
    <3>2. CASE i # 1 /\ i <= n
      <4>1. /\ i - 1 \in 1 .. MaxSegments /\ g[i - 1] = Lo + i - 2
            /\ Lo + i - 2 \in Lo .. Hi /\ Lo + i - 2 < Hi
            /\ Lo + i - 2 \in Segments
        BY <1>1, <3>2 DEF Segments
      <4>2. next[Lo + i - 2] = Lo + i - 1
        BY <1>1, <1>2, <4>1
      <4> QED BY <3>2, <4>1, <4>2
    <3>3. CASE i # 1 /\ i = n + 1
      <4>1. /\ i - 1 \in 1 .. MaxSegments /\ g[i - 1] = Hi /\ Lo <= Hi
            /\ Hi \in Segments
        BY <1>1, <3>3 DEF Segments
      <4> QED BY <1>1, <3>3, <4>1
    <3>4. CASE i # 1 /\ i > n + 1
      <4>1. i - 1 \in 1 .. MaxSegments /\ g[i - 1] = end
        BY <1>1, <3>4
      <4> QED BY <1>1, <1>3, <3>4, <4>1
    <3> HIDE DEF g
    <3> QED BY <1>1, <3>1, <3>2, <3>3, <3>4
  <2>2. g = [i \in 1 .. MaxSegments |-> g[i]]
    OBVIOUS
  <2> HIDE DEF g
  <2>3. g = [i \in 1 .. MaxSegments |->
                IF i = 1 THEN next[HEAD]
                ELSE IF g[i - 1] \in Segments THEN next[g[i - 1]]
                ELSE g[i - 1]]
    BY <2>1, <2>2
  <2> QED BY <2>3, HopUnique
<1>5. {i \in 1 .. MaxSegments : Hop[i] \in Segments} = 1 .. n
  BY <1>1, <1>3, <1>4 DEF Segments
<1>6. Cardinality(1 .. n) = n
  BY <1>3, FS_Interval
<1>7. Reached = [i \in 1 .. n |-> Hop[i]]
  BY <1>5, <1>6 DEF Reached
<1>8. Reached = [i \in 1 .. n |-> Lo + i - 1]
  BY <1>3, <1>4, <1>7
<1>9. InList = Lo .. Hi
  <2>1. \A k \in Lo .. Hi : k - Lo + 1 \in 1 .. n /\ Lo + (k - Lo + 1) - 1 = k
    BY <1>1
  <2>2. \A i \in 1 .. n : Lo + i - 1 \in Lo .. Hi
    BY <1>1
  <2>3. InList = {Lo + i - 1 : i \in 1 .. n}
    BY <1>8 DEF InList
  <2> HIDE DEF n
  <2> QED BY <2>1, <2>2, <2>3
<1> QED BY <1>1, <1>8, <1>9

-----------------------------------------------------------------------------
(* The invariant is inductive: one lemma for each step.  First what a step *)
(* does to the range.                                                      *)

USE DEF HEAD, NULL, Segments, Nodes, Pointers

\* The ends of the range, as every step below needs them.
LEMMA Bounds ==
  ASSUME ListInv
  PROVE  /\ Lo \in 1 .. Hi + 1 /\ Hi \in 0 .. MaxSegments
         /\ Hi = (IF wpc = "add1" THEN made - 1 ELSE made)
         /\ made \in 0 .. MaxSegments
         /\ next[HEAD] = IF Lo <= Hi THEN Lo ELSE HEAD
<1> USE DEF ListInv
<1>1. Lo \in 1 .. Hi + 1 /\ Hi \in 0 .. MaxSegments
  BY ReachedIs
<1> QED BY <1>1 DEF ListTypeOK, ForwardInv, Lo, Hi

WalkType ==
  [at : {"idle", "next", "test", "found", "missing", "lost"},
   name : 0 .. MaxSegments + 1, listnode : Pointers, tmp : Pointers,
   present : BOOLEAN, hit : BOOLEAN]

LEMMA WalkTyped == ListInv => walk \in WalkType
BY DEF ListInv, ListTypeOK, WalkType

\* The steps that move neither end of the range, nor begin the destruction.
Steady ==
  \/ StartAdd \/ SetPrev \/ SetNext \/ MoveTail
  \/ StartRemove \/ UnlinkBack \/ SelfPrev \/ SelfNext \/ FreeData \/ FreeNode
  \/ DestroyNode \/ DestroyHead
  \/ StartWalk \/ SaveNext \/ TestNode \/ EndWalk

\* Only the first store of ADD_TO_TAIL and the second of REMOVE move the range.
LEMMA RangeStays ==
  ASSUME ListInv, Steady \/ StartDestroy
  PROVE  Lo' = Lo /\ Hi' = Hi
<1> USE Bounds DEF ListInv, list, ListTypeOK, ForwardInv, BackInv, LoBack,
        HiBack, PointerInv
<1>1. ASSUME UNCHANGED <<next, made>>, wpc' # "add1", wpc # "add1"
      PROVE  Lo' = Lo /\ Hi' = Hi
  BY <1>1 DEF Lo, Hi
<1>2. CASE SetPrev \/ MoveTail \/ StartRemove \/ UnlinkBack \/ SelfPrev
           \/ FreeData \/ FreeNode \/ StartDestroy \/ DestroyNode
           \/ DestroyHead
  BY <1>1, <1>2 DEF SetPrev, MoveTail, StartRemove, UnlinkBack, SelfPrev,
     FreeData, FreeNode, StartDestroy, DestroyNode, DestroyHead
<1>3. CASE StartWalk \/ SaveNext \/ TestNode \/ EndWalk
  BY <1>3 DEF StartWalk, SaveNext, TestNode, EndWalk, Lo, Hi
<1>4. CASE StartAdd
  BY <1>4 DEF StartAdd, Lo, Hi
<1>5. CASE SetNext
  BY <1>5 DEF SetNext, Lo, Hi
<1>6. CASE SelfNext
  BY <1>6 DEF SelfNext, Lo, Hi
<1> QED BY <1>2, <1>3, <1>4, <1>5, <1>6 DEF Steady

\* ADD_TO_TAIL's first store makes the range longer.
LEMMA LinkTailMoves ==
  ASSUME ListInv, LinkTail
  PROVE  Lo' = Lo /\ Hi' = Hi + 1 /\ ~Destroying /\ ~Destroying'
BY Bounds DEF ListInv, LinkTail, Lo, Hi, ListTypeOK, BackInv, ForwardInv,
   LoBack, HiBack, PointerInv

\* REMOVE's second store makes it shorter.
LEMMA UnlinkMoves ==
  ASSUME ListInv, Unlink
  PROVE  /\ Lo' = Lo + 1 /\ Hi' = Hi /\ Lo <= Hi
         /\ next' = [next EXCEPT ![HEAD] = IF Lo < Hi THEN Lo + 1 ELSE HEAD]
         /\ listnode = Lo /\ ~Destroying /\ ~Destroying'
<1> USE DEF ListInv
<1>1. /\ wpc = "rem2" /\ wpc' = "rem3" /\ made' = made /\ listnode = Lo
      /\ Lo <= Hi
  BY DEF Unlink, PointerInv
<1>2. prev[Lo] = HEAD
  BY Bounds, <1>1 DEF BackInv, LoBack
<1>3. next[Lo] = IF Lo < Hi THEN Lo + 1 ELSE HEAD
  BY Bounds, <1>1 DEF ForwardInv
<1>4. next' = [next EXCEPT ![HEAD] = IF Lo < Hi THEN Lo + 1 ELSE HEAD]
  BY <1>1, <1>2, <1>3 DEF Unlink
<1>5. next'[HEAD] = IF Lo < Hi THEN Lo + 1 ELSE HEAD
  BY <1>4 DEF ListTypeOK
<1>6. Hi' = Hi
  BY Bounds, <1>1 DEF Hi
<1>7. Lo' = Lo + 1
  BY Bounds, <1>1, <1>5, <1>6 DEF Lo
<1> QED BY <1>1, <1>4, <1>6, <1>7

-----------------------------------------------------------------------------
(* The segmenter's stores: istb_m3u8_queue_add, _remove and _destroy.      *)

LEMMA StartAddKeeps == ASSUME ListInv, StartAdd PROVE ListInv'
<1> USE DEF ListInv
<1>1. /\ Lo \in 1 .. Hi + 1 /\ Hi \in 0 .. MaxSegments
      /\ Hi = (IF wpc = "add1" THEN made - 1 ELSE made)
      /\ made \in 0 .. MaxSegments
      /\ next[HEAD] = IF Lo <= Hi THEN Lo ELSE HEAD
  BY Bounds
<1>2. Lo' = Lo /\ Hi' = Hi
  BY RangeStays DEF Steady
<1>3. LoBack' = IF wpc' = "rem2" THEN Lo' + 1 ELSE Lo'
  BY DEF LoBack
<1>4. HiBack' = IF wpc' \in {"add2", "add3", "add4"} THEN made' - 1 ELSE Hi'
  BY DEF HiBack
<1> HIDE DEF Lo, Hi
<1>5. ListTypeOK'
  BY <1>1, <1>2, <1>3, <1>4 DEF StartAdd, list, ListTypeOK, PointerInv,
     ForwardInv, BackInv
<1>6. ForwardInv'
  BY <1>1, <1>2, <1>3, <1>4 DEF StartAdd, list, ForwardInv, PointerInv,
     BackInv, LoBack, HiBack, ListTypeOK
<1>7. BackInv'
  BY <1>1, <1>2, <1>3, <1>4 DEF StartAdd, list, BackInv, PointerInv, LoBack,
     HiBack, ListTypeOK, ForwardInv
<1>8. AllocInv'
  BY <1>1, <1>2, <1>3, <1>4 DEF StartAdd, list, AllocInv, PointerInv,
     ListTypeOK
<1>9. PointerInv'
  BY <1>1, <1>2, <1>3, <1>4 DEF StartAdd, list, PointerInv, ListTypeOK,
     ForwardInv
<1>10. WalkInv'
  BY <1>1, <1>2, <1>3, <1>4 DEF StartAdd, list, WalkInv, ListTypeOK, PointerInv
<1> QED BY <1>5, <1>6, <1>7, <1>8, <1>9, <1>10

LEMMA LinkTailKeeps == ASSUME ListInv, LinkTail PROVE ListInv'
<1> USE DEF ListInv
<1>1. /\ Lo \in 1 .. Hi + 1 /\ Hi \in 0 .. MaxSegments
      /\ Hi = (IF wpc = "add1" THEN made - 1 ELSE made)
      /\ made \in 0 .. MaxSegments
      /\ next[HEAD] = IF Lo <= Hi THEN Lo ELSE HEAD
  BY Bounds
<1>2. Lo' = Lo /\ Hi' = Hi + 1
  BY LinkTailMoves
<1>3. LoBack' = IF wpc' = "rem2" THEN Lo' + 1 ELSE Lo'
  BY DEF LoBack
<1>4. HiBack' = IF wpc' \in {"add2", "add3", "add4"} THEN made' - 1 ELSE Hi'
  BY DEF HiBack
<1> HIDE DEF Lo, Hi
<1>5. ListTypeOK'
  BY <1>1, <1>2, <1>3, <1>4, ZenonT(40) DEF LinkTail, list, ListTypeOK,
     PointerInv, ForwardInv, BackInv
<1>6. ForwardInv'
  <2> DEFINE tail == IF Lo <= Hi THEN Hi ELSE HEAD
  <2>1. /\ next' = [next EXCEPT ![tail] = made] /\ tail \in Nodes
        /\ wpc' = "add2" /\ made = Hi + 1 /\ wpc = "add1"
    BY <1>1 DEF LinkTail, PointerInv, BackInv, LoBack, HiBack
  <2>2. next \in [Nodes -> Pointers]
    BY DEF ListTypeOK
  <2>3. next'[tail] = made /\ \A k \in Nodes : k # tail => next'[k] = next[k]
    BY <2>1, <2>2
  <2>4. next'[HEAD] \in {HEAD} \cup 1 .. Hi'
    BY <1>1, <1>2, <2>1, <2>3
  <2>5. \A k \in Lo' .. Hi' : next'[k] = IF k < Hi' THEN k + 1 ELSE NULL
    BY <1>1, <1>2, <2>1, <2>3 DEF ForwardInv
  <2>6. \A k \in Segments : k > Hi' => next'[k] = NULL
    BY <1>1, <1>2, <2>1, <2>3 DEF ForwardInv
  <2> QED BY <2>1, <2>4, <2>5, <2>6 DEF ForwardInv
<1>7. BackInv'
  BY <1>1, <1>2, <1>3, <1>4 DEF LinkTail, list, BackInv, PointerInv, LoBack,
     HiBack, ListTypeOK, ForwardInv
<1>8. AllocInv'
  BY <1>1, <1>2, <1>3, <1>4 DEF LinkTail, list, AllocInv, PointerInv,
     ListTypeOK
<1>9. PointerInv'
  BY <1>1, <1>2, <1>3, <1>4 DEF LinkTail, list, PointerInv, ListTypeOK,
     ForwardInv
<1>10. WalkInv'
  BY <1>1, <1>2, <1>3, <1>4 DEF LinkTail, list, WalkInv, ListTypeOK, PointerInv
<1> QED BY <1>5, <1>6, <1>7, <1>8, <1>9, <1>10

LEMMA SetPrevKeeps == ASSUME ListInv, SetPrev PROVE ListInv'
<1> USE DEF ListInv
<1>1. /\ Lo \in 1 .. Hi + 1 /\ Hi \in 0 .. MaxSegments
      /\ Hi = (IF wpc = "add1" THEN made - 1 ELSE made)
      /\ made \in 0 .. MaxSegments
      /\ next[HEAD] = IF Lo <= Hi THEN Lo ELSE HEAD
  BY Bounds
<1>2. Lo' = Lo /\ Hi' = Hi
  BY RangeStays DEF Steady
<1>3. LoBack' = IF wpc' = "rem2" THEN Lo' + 1 ELSE Lo'
  BY DEF LoBack
<1>4. HiBack' = IF wpc' \in {"add2", "add3", "add4"} THEN made' - 1 ELSE Hi'
  BY DEF HiBack
<1> HIDE DEF Lo, Hi
<1>5. ListTypeOK'
  BY <1>1, <1>2, <1>3, <1>4 DEF SetPrev, list, ListTypeOK, PointerInv,
     ForwardInv, BackInv
<1>6. ForwardInv'
  BY <1>1, <1>2, <1>3, <1>4 DEF SetPrev, list, ForwardInv, PointerInv,
     BackInv, LoBack, HiBack, ListTypeOK
<1>7. BackInv'
  <2>1. /\ prev' = [prev EXCEPT ![made] = prev[HEAD]] /\ made \in Segments
        /\ wpc = "add2" /\ wpc' = "add3" /\ made' = made /\ Hi = made
    BY <1>1 DEF SetPrev, PointerInv
  <2>2. /\ prev \in [Nodes -> Pointers]
        /\ prev[HEAD] = IF Lo <= made - 1 THEN made - 1 ELSE HEAD
    BY <2>1 DEF ListTypeOK, BackInv, LoBack, HiBack
  <2>3. /\ prev'[HEAD] = prev[HEAD] /\ prev'[made] = prev[HEAD]
        /\ \A k \in Segments : k # made => prev'[k] = prev[k]
    BY <2>1, <2>2
  <2>4. \A k \in Lo' .. Hi' : prev'[k] = IF k <= Lo' THEN HEAD ELSE k - 1
    BY <1>1, <1>2, <2>1, <2>2, <2>3 DEF BackInv, LoBack
  <2> QED BY <1>1, <1>2, <1>3, <1>4, <2>1, <2>2, <2>3, <2>4 DEF BackInv
<1>8. AllocInv'
  BY <1>1, <1>2, <1>3, <1>4 DEF SetPrev, list, AllocInv, PointerInv, ListTypeOK
<1>9. PointerInv'
  BY <1>1, <1>2, <1>3, <1>4 DEF SetPrev, list, PointerInv, ListTypeOK,
     ForwardInv
<1>10. WalkInv'
  BY <1>1, <1>2, <1>3, <1>4 DEF SetPrev, list, WalkInv, ListTypeOK, PointerInv
<1> QED BY <1>5, <1>6, <1>7, <1>8, <1>9, <1>10

LEMMA SetNextKeeps == ASSUME ListInv, SetNext PROVE ListInv'
<1> USE DEF ListInv
<1>1. /\ Lo \in 1 .. Hi + 1 /\ Hi \in 0 .. MaxSegments
      /\ Hi = (IF wpc = "add1" THEN made - 1 ELSE made)
      /\ made \in 0 .. MaxSegments
      /\ next[HEAD] = IF Lo <= Hi THEN Lo ELSE HEAD
  BY Bounds
<1>2. Lo' = Lo /\ Hi' = Hi
  BY RangeStays DEF Steady
<1>3. LoBack' = IF wpc' = "rem2" THEN Lo' + 1 ELSE Lo'
  BY DEF LoBack
<1>4. HiBack' = IF wpc' \in {"add2", "add3", "add4"} THEN made' - 1 ELSE Hi'
  BY DEF HiBack
<1> HIDE DEF Lo, Hi
<1>5. ListTypeOK'
  BY <1>1, <1>2, <1>3, <1>4 DEF SetNext, list, ListTypeOK, PointerInv,
     ForwardInv, BackInv
<1>6. ForwardInv'
  BY <1>1, <1>2, <1>3, <1>4 DEF SetNext, list, ForwardInv, PointerInv,
     BackInv, LoBack, HiBack, ListTypeOK
<1>7. BackInv'
  BY <1>1, <1>2, <1>3, <1>4 DEF SetNext, list, BackInv, PointerInv, LoBack,
     HiBack, ListTypeOK, ForwardInv
<1>8. AllocInv'
  BY <1>1, <1>2, <1>3, <1>4 DEF SetNext, list, AllocInv, PointerInv, ListTypeOK
<1>9. PointerInv'
  BY <1>1, <1>2, <1>3, <1>4 DEF SetNext, list, PointerInv, ListTypeOK,
     ForwardInv
<1>10. WalkInv'
  BY <1>1, <1>2, <1>3, <1>4 DEF SetNext, list, WalkInv, ListTypeOK, PointerInv
<1> QED BY <1>5, <1>6, <1>7, <1>8, <1>9, <1>10

LEMMA MoveTailKeeps == ASSUME ListInv, MoveTail PROVE ListInv'
<1> USE DEF ListInv
<1>1. /\ Lo \in 1 .. Hi + 1 /\ Hi \in 0 .. MaxSegments
      /\ Hi = (IF wpc = "add1" THEN made - 1 ELSE made)
      /\ made \in 0 .. MaxSegments
      /\ next[HEAD] = IF Lo <= Hi THEN Lo ELSE HEAD
  BY Bounds
<1>2. Lo' = Lo /\ Hi' = Hi
  BY RangeStays DEF Steady
<1>3. LoBack' = IF wpc' = "rem2" THEN Lo' + 1 ELSE Lo'
  BY DEF LoBack
<1>4. HiBack' = IF wpc' \in {"add2", "add3", "add4"} THEN made' - 1 ELSE Hi'
  BY DEF HiBack
<1> HIDE DEF Lo, Hi
<1>5. ListTypeOK'
  BY <1>1, <1>2, <1>3, <1>4 DEF MoveTail, list, ListTypeOK, PointerInv,
     ForwardInv, BackInv
<1>6. ForwardInv'
  BY <1>1, <1>2, <1>3, <1>4 DEF MoveTail, list, ForwardInv, PointerInv,
     BackInv, LoBack, HiBack, ListTypeOK
<1>7. BackInv'
  <2>1. /\ prev' = [prev EXCEPT ![HEAD] = made] /\ made \in Segments
        /\ wpc = "add4" /\ wpc' = "idle" /\ made' = made /\ Hi = made
    BY <1>1 DEF MoveTail, PointerInv
  <2>2. /\ prev \in [Nodes -> Pointers]
        /\ Lo <= Hi
    BY <2>1 DEF ListTypeOK, PointerInv
  <2>3. /\ prev'[HEAD] = made
        /\ \A k \in Segments : prev'[k] = prev[k]
    BY <2>1, <2>2
  <2>4. \A k \in Lo' .. Hi' : prev'[k] = IF k <= Lo' THEN HEAD ELSE k - 1
    BY <1>1, <1>2, <2>1, <2>3 DEF BackInv, LoBack
  <2> QED BY <1>1, <1>2, <1>3, <1>4, <2>1, <2>2, <2>3, <2>4 DEF BackInv
<1>8. AllocInv'
  BY <1>1, <1>2, <1>3, <1>4 DEF MoveTail, list, AllocInv, PointerInv,
     ListTypeOK
<1>9. PointerInv'
  BY <1>1, <1>2, <1>3, <1>4 DEF MoveTail, list, PointerInv, ListTypeOK,
     ForwardInv
<1>10. WalkInv'
  BY <1>1, <1>2, <1>3, <1>4 DEF MoveTail, list, WalkInv, ListTypeOK, PointerInv
<1> QED BY <1>5, <1>6, <1>7, <1>8, <1>9, <1>10

LEMMA StartRemoveKeeps == ASSUME ListInv, StartRemove PROVE ListInv'
<1> USE DEF ListInv
<1>1. /\ Lo \in 1 .. Hi + 1 /\ Hi \in 0 .. MaxSegments
      /\ Hi = (IF wpc = "add1" THEN made - 1 ELSE made)
      /\ made \in 0 .. MaxSegments
      /\ next[HEAD] = IF Lo <= Hi THEN Lo ELSE HEAD
  BY Bounds
<1>2. Lo' = Lo /\ Hi' = Hi
  BY RangeStays DEF Steady
<1>3. LoBack' = IF wpc' = "rem2" THEN Lo' + 1 ELSE Lo'
  BY DEF LoBack
<1>4. HiBack' = IF wpc' \in {"add2", "add3", "add4"} THEN made' - 1 ELSE Hi'
  BY DEF HiBack
<1> HIDE DEF Lo, Hi
<1>5. ListTypeOK'
  BY <1>1, <1>2, <1>3, <1>4 DEF StartRemove, list, ListTypeOK, PointerInv,
     ForwardInv, BackInv
<1>6. ForwardInv'
  BY <1>1, <1>2, <1>3, <1>4 DEF StartRemove, list, ForwardInv, PointerInv,
     BackInv, LoBack, HiBack, ListTypeOK
<1>7. BackInv'
  BY <1>1, <1>2, <1>3, <1>4 DEF StartRemove, list, BackInv, PointerInv,
     LoBack, HiBack, ListTypeOK, ForwardInv
<1>8. AllocInv'
  BY <1>1, <1>2, <1>3, <1>4 DEF StartRemove, list, AllocInv, PointerInv,
     ListTypeOK
<1>9. PointerInv'
  <2>1. Lo <= Hi
    <3> SUFFICES ASSUME Lo > Hi PROVE FALSE
      BY <1>1
    <3>1. InList = {}
      <4>1. InList = Lo .. Hi
        BY ReachedIs
      <4> QED BY <1>1, <4>1
    <3>2. Cardinality({}) = 0
      BY FS_EmptySet
    <3> QED BY <3>1, <3>2 DEF StartRemove
  <2> QED BY <1>1, <1>2, <2>1 DEF StartRemove, list, PointerInv
<1>10. WalkInv'
  BY <1>1, <1>2, <1>3, <1>4 DEF StartRemove, list, WalkInv, ListTypeOK,
     PointerInv
<1> QED BY <1>5, <1>6, <1>7, <1>8, <1>9, <1>10

LEMMA UnlinkBackKeeps == ASSUME ListInv, UnlinkBack PROVE ListInv'
<1> USE DEF ListInv
<1>1. /\ Lo \in 1 .. Hi + 1 /\ Hi \in 0 .. MaxSegments
      /\ Hi = (IF wpc = "add1" THEN made - 1 ELSE made)
      /\ made \in 0 .. MaxSegments
      /\ next[HEAD] = IF Lo <= Hi THEN Lo ELSE HEAD
  BY Bounds
<1>2. Lo' = Lo /\ Hi' = Hi
  BY RangeStays DEF Steady
<1>3. LoBack' = IF wpc' = "rem2" THEN Lo' + 1 ELSE Lo'
  BY DEF LoBack
<1>4. HiBack' = IF wpc' \in {"add2", "add3", "add4"} THEN made' - 1 ELSE Hi'
  BY DEF HiBack
<1> HIDE DEF Lo, Hi
<1>5. ListTypeOK'
  BY <1>1, <1>2, <1>3, <1>4 DEF UnlinkBack, list, ListTypeOK, PointerInv,
     ForwardInv, BackInv
<1>6. ForwardInv'
  BY <1>1, <1>2, <1>3, <1>4 DEF UnlinkBack, list, ForwardInv, PointerInv,
     BackInv, LoBack, HiBack, ListTypeOK
<1>7. BackInv'
  BY <1>1, <1>2, <1>3, <1>4 DEF UnlinkBack, list, BackInv, PointerInv, LoBack,
     HiBack, ListTypeOK, ForwardInv
<1>8. AllocInv'
  BY <1>1, <1>2, <1>3, <1>4 DEF UnlinkBack, list, AllocInv, PointerInv,
     ListTypeOK
<1>9. PointerInv'
  BY <1>1, <1>2, <1>3, <1>4 DEF UnlinkBack, list, PointerInv, ListTypeOK,
     ForwardInv
<1>10. WalkInv'
  BY <1>1, <1>2, <1>3, <1>4 DEF UnlinkBack, list, WalkInv, ListTypeOK,
     PointerInv
<1> QED BY <1>5, <1>6, <1>7, <1>8, <1>9, <1>10

LEMMA UnlinkKeeps == ASSUME ListInv, Unlink PROVE ListInv'
<1> USE DEF ListInv
<1>1. /\ Lo \in 1 .. Hi + 1 /\ Hi \in 0 .. MaxSegments
      /\ Hi = (IF wpc = "add1" THEN made - 1 ELSE made)
      /\ made \in 0 .. MaxSegments
      /\ next[HEAD] = IF Lo <= Hi THEN Lo ELSE HEAD
  BY Bounds
<1>2. /\ Lo' = Lo + 1 /\ Hi' = Hi /\ Lo <= Hi
      /\ next' = [next EXCEPT ![HEAD] = IF Lo < Hi THEN Lo + 1 ELSE HEAD]
      /\ wpc = "rem2" /\ wpc' = "rem3" /\ made' = made /\ listnode = Lo
      /\ walk' = [walk EXCEPT !.hit = @ \/ StandsOn(Lo),
                              !.present = @ /\ walk.name # Lo]
  BY UnlinkMoves DEF Unlink
<1>3. LoBack' = IF wpc' = "rem2" THEN Lo' + 1 ELSE Lo'
  BY DEF LoBack
<1>4. HiBack' = IF wpc' \in {"add2", "add3", "add4"} THEN made' - 1 ELSE Hi'
  BY DEF HiBack
<1> HIDE DEF Lo, Hi
<1>5. ListTypeOK'
  <2>1. next' \in [Nodes -> Pointers]
    BY <1>1, <1>2 DEF ListTypeOK
  <2>2. walk' \in WalkType
    <3>1. (walk.hit \/ StandsOn(Lo)) \in BOOLEAN
          /\ (walk.present /\ walk.name # Lo) \in BOOLEAN
      OBVIOUS
    <3> DEFINE hit == walk.hit \/ StandsOn(Lo)
               present == walk.present /\ walk.name # Lo
    <3>2. hit \in BOOLEAN /\ present \in BOOLEAN
      OBVIOUS
    <3>3. walk' = [walk EXCEPT !.hit = hit, !.present = present]
      BY <1>2
    <3> HIDE DEF hit, present
    <3> QED BY <3>2, <3>3, WalkTyped DEF WalkType
  <2> QED BY <2>1, <2>2, WalkTyped DEF Unlink, ListTypeOK, WalkType
<1>6. ForwardInv'
  <2>1. /\ next'[HEAD] = (IF Lo < Hi THEN Lo + 1 ELSE HEAD)
        /\ \A k \in Segments : next'[k] = next[k]
    BY <1>2 DEF ListTypeOK
  <2> QED BY <1>1, <1>2, <2>1 DEF ForwardInv
<1>7. BackInv'
  BY <1>1, <1>2, <1>3, <1>4 DEF Unlink, StandsOn, list, BackInv, PointerInv,
     LoBack, HiBack, ListTypeOK, ForwardInv
<1>8. AllocInv'
  BY <1>1, <1>2, <1>3, <1>4 DEF Unlink, StandsOn, list, AllocInv, PointerInv,
     ListTypeOK
<1>9. PointerInv'
  BY <1>1, <1>2, <1>3, <1>4 DEF Unlink, StandsOn, list, PointerInv,
     ListTypeOK, ForwardInv
<1>10. WalkInv'
  BY <1>1, <1>2, <1>3, <1>4 DEF Unlink, StandsOn, list, WalkInv, ListTypeOK,
     PointerInv
<1> QED BY <1>5, <1>6, <1>7, <1>8, <1>9, <1>10

LEMMA SelfPrevKeeps == ASSUME ListInv, SelfPrev PROVE ListInv'
<1> USE DEF ListInv
<1>1. /\ Lo \in 1 .. Hi + 1 /\ Hi \in 0 .. MaxSegments
      /\ Hi = (IF wpc = "add1" THEN made - 1 ELSE made)
      /\ made \in 0 .. MaxSegments
      /\ next[HEAD] = IF Lo <= Hi THEN Lo ELSE HEAD
  BY Bounds
<1>2. Lo' = Lo /\ Hi' = Hi
  BY RangeStays DEF Steady
<1>3. LoBack' = IF wpc' = "rem2" THEN Lo' + 1 ELSE Lo'
  BY DEF LoBack
<1>4. HiBack' = IF wpc' \in {"add2", "add3", "add4"} THEN made' - 1 ELSE Hi'
  BY DEF HiBack
<1> HIDE DEF Lo, Hi
<1>5. ListTypeOK'
  BY <1>1, <1>2, <1>3, <1>4 DEF SelfPrev, list, ListTypeOK, PointerInv,
     ForwardInv, BackInv
<1>6. ForwardInv'
  BY <1>1, <1>2, <1>3, <1>4 DEF SelfPrev, list, ForwardInv, PointerInv,
     BackInv, LoBack, HiBack, ListTypeOK
<1>7. BackInv'
  BY <1>1, <1>2, <1>3, <1>4 DEF SelfPrev, list, BackInv, PointerInv, LoBack,
     HiBack, ListTypeOK, ForwardInv
<1>8. AllocInv'
  BY <1>1, <1>2, <1>3, <1>4 DEF SelfPrev, list, AllocInv, PointerInv,
     ListTypeOK
<1>9. PointerInv'
  BY <1>1, <1>2, <1>3, <1>4 DEF SelfPrev, list, PointerInv, ListTypeOK,
     ForwardInv
<1>10. WalkInv'
  BY <1>1, <1>2, <1>3, <1>4 DEF SelfPrev, list, WalkInv, ListTypeOK, PointerInv
<1> QED BY <1>5, <1>6, <1>7, <1>8, <1>9, <1>10

LEMMA SelfNextKeeps == ASSUME ListInv, SelfNext PROVE ListInv'
<1> USE DEF ListInv
<1>1. /\ Lo \in 1 .. Hi + 1 /\ Hi \in 0 .. MaxSegments
      /\ Hi = (IF wpc = "add1" THEN made - 1 ELSE made)
      /\ made \in 0 .. MaxSegments
      /\ next[HEAD] = IF Lo <= Hi THEN Lo ELSE HEAD
  BY Bounds
<1>2. Lo' = Lo /\ Hi' = Hi
  BY RangeStays DEF Steady
<1>3. LoBack' = IF wpc' = "rem2" THEN Lo' + 1 ELSE Lo'
  BY DEF LoBack
<1>4. HiBack' = IF wpc' \in {"add2", "add3", "add4"} THEN made' - 1 ELSE Hi'
  BY DEF HiBack
<1> HIDE DEF Lo, Hi
<1>5. ListTypeOK'
  BY <1>1, <1>2, <1>3, <1>4 DEF SelfNext, list, ListTypeOK, PointerInv,
     ForwardInv, BackInv
<1>6. ForwardInv'
  BY <1>1, <1>2, <1>3, <1>4 DEF SelfNext, list, ForwardInv, PointerInv,
     BackInv, LoBack, HiBack, ListTypeOK
<1>7. BackInv'
  BY <1>1, <1>2, <1>3, <1>4 DEF SelfNext, list, BackInv, PointerInv, LoBack,
     HiBack, ListTypeOK, ForwardInv
<1>8. AllocInv'
  BY <1>1, <1>2, <1>3, <1>4 DEF SelfNext, list, AllocInv, PointerInv,
     ListTypeOK
<1>9. PointerInv'
  BY <1>1, <1>2, <1>3, <1>4 DEF SelfNext, list, PointerInv, ListTypeOK,
     ForwardInv
<1>10. WalkInv'
  BY <1>1, <1>2, <1>3, <1>4 DEF SelfNext, list, WalkInv, ListTypeOK, PointerInv
<1> QED BY <1>5, <1>6, <1>7, <1>8, <1>9, <1>10

LEMMA FreeDataKeeps == ASSUME ListInv, FreeData PROVE ListInv'
<1> USE DEF ListInv
<1>1. /\ Lo \in 1 .. Hi + 1 /\ Hi \in 0 .. MaxSegments
      /\ Hi = (IF wpc = "add1" THEN made - 1 ELSE made)
      /\ made \in 0 .. MaxSegments
      /\ next[HEAD] = IF Lo <= Hi THEN Lo ELSE HEAD
  BY Bounds
<1>2. Lo' = Lo /\ Hi' = Hi
  BY RangeStays DEF Steady
<1>3. LoBack' = IF wpc' = "rem2" THEN Lo' + 1 ELSE Lo'
  BY DEF LoBack
<1>4. HiBack' = IF wpc' \in {"add2", "add3", "add4"} THEN made' - 1 ELSE Hi'
  BY DEF HiBack
<1> HIDE DEF Lo, Hi
<1>5. ListTypeOK'
  BY <1>1, <1>2, <1>3, <1>4 DEF FreeData, list, ListTypeOK, PointerInv,
     ForwardInv, BackInv
<1>6. ForwardInv'
  BY <1>1, <1>2, <1>3, <1>4 DEF FreeData, list, ForwardInv, PointerInv,
     BackInv, LoBack, HiBack, ListTypeOK
<1>7. BackInv'
  BY <1>1, <1>2, <1>3, <1>4 DEF FreeData, list, BackInv, PointerInv, LoBack,
     HiBack, ListTypeOK, ForwardInv
<1>8. AllocInv'
  BY <1>1, <1>2, <1>3, <1>4 DEF FreeData, list, AllocInv, PointerInv,
     ListTypeOK
<1>9. PointerInv'
  BY <1>1, <1>2, <1>3, <1>4 DEF FreeData, list, PointerInv, ListTypeOK,
     ForwardInv
<1>10. WalkInv'
  BY <1>1, <1>2, <1>3, <1>4 DEF FreeData, list, WalkInv, ListTypeOK, PointerInv
<1> QED BY <1>5, <1>6, <1>7, <1>8, <1>9, <1>10

LEMMA FreeNodeKeeps == ASSUME ListInv, FreeNode PROVE ListInv'
<1> USE DEF ListInv
<1>1. /\ Lo \in 1 .. Hi + 1 /\ Hi \in 0 .. MaxSegments
      /\ Hi = (IF wpc = "add1" THEN made - 1 ELSE made)
      /\ made \in 0 .. MaxSegments
      /\ next[HEAD] = IF Lo <= Hi THEN Lo ELSE HEAD
  BY Bounds
<1>2. Lo' = Lo /\ Hi' = Hi
  BY RangeStays DEF Steady
<1>3. LoBack' = IF wpc' = "rem2" THEN Lo' + 1 ELSE Lo'
  BY DEF LoBack
<1>4. HiBack' = IF wpc' \in {"add2", "add3", "add4"} THEN made' - 1 ELSE Hi'
  BY DEF HiBack
<1> HIDE DEF Lo, Hi
<1>5. ListTypeOK'
  BY <1>1, <1>2, <1>3, <1>4 DEF FreeNode, list, ListTypeOK, PointerInv,
     ForwardInv, BackInv
<1>6. ForwardInv'
  BY <1>1, <1>2, <1>3, <1>4 DEF FreeNode, list, ForwardInv, PointerInv,
     BackInv, LoBack, HiBack, ListTypeOK
<1>7. BackInv'
  BY <1>1, <1>2, <1>3, <1>4 DEF FreeNode, list, BackInv, PointerInv, LoBack,
     HiBack, ListTypeOK, ForwardInv
<1>8. AllocInv'
  BY <1>1, <1>2, <1>3, <1>4 DEF FreeNode, list, AllocInv, PointerInv,
     ListTypeOK
<1>9. PointerInv'
  BY <1>1, <1>2, <1>3, <1>4 DEF FreeNode, list, PointerInv, ListTypeOK,
     ForwardInv
<1>10. WalkInv'
  BY <1>1, <1>2, <1>3, <1>4 DEF FreeNode, list, WalkInv, ListTypeOK, PointerInv
<1> QED BY <1>5, <1>6, <1>7, <1>8, <1>9, <1>10

LEMMA StartDestroyKeeps == ASSUME ListInv, StartDestroy PROVE ListInv'
<1> USE DEF ListInv
<1>1. /\ Lo \in 1 .. Hi + 1 /\ Hi \in 0 .. MaxSegments
      /\ Hi = (IF wpc = "add1" THEN made - 1 ELSE made)
      /\ made \in 0 .. MaxSegments
      /\ next[HEAD] = IF Lo <= Hi THEN Lo ELSE HEAD
  BY Bounds
<1>2. Lo' = Lo /\ Hi' = Hi
  BY RangeStays
<1>3. LoBack' = IF wpc' = "rem2" THEN Lo' + 1 ELSE Lo'
  BY DEF LoBack
<1>4. HiBack' = IF wpc' \in {"add2", "add3", "add4"} THEN made' - 1 ELSE Hi'
  BY DEF HiBack
<1> HIDE DEF Lo, Hi
<1>5. ListTypeOK'
  <2>1. walk' \in WalkType
    <3> DEFINE hit == walk.hit \/ walk.at # "idle"
    <3>1. hit \in BOOLEAN
      OBVIOUS
    <3>2. walk' = [walk EXCEPT !.hit = hit]
      BY DEF StartDestroy
    <3> HIDE DEF hit
    <3> QED BY <3>1, <3>2, WalkTyped DEF WalkType
  <2>2. /\ UNCHANGED <<next, prev, node, data, made>>
        /\ listnode' = next[HEAD] /\ tmp' = next[next[HEAD]]
        /\ wpc' \in {"des1", "des3"}
    BY DEF StartDestroy, list
  <2>3. listnode' \in Pointers /\ tmp' \in Pointers
    BY <1>1, <2>2 DEF ListTypeOK
  <2> QED BY <2>1, <2>2, <2>3 DEF ListTypeOK, WalkType
<1>6. ForwardInv'
  BY <1>1, <1>2, <1>3, <1>4 DEF StartDestroy, list, ForwardInv, PointerInv,
     BackInv, LoBack, HiBack, ListTypeOK
<1>7. BackInv'
  BY <1>1, <1>2, <1>3, <1>4 DEF StartDestroy, list, BackInv, PointerInv,
     LoBack, HiBack, ListTypeOK, ForwardInv
<1>8. AllocInv'
  BY <1>1, <1>2, <1>3, <1>4 DEF StartDestroy, list, AllocInv, PointerInv,
     ListTypeOK
<1>9. PointerInv'
  BY <1>1, <1>2, <1>3, <1>4, SMTT(30) DEF StartDestroy, list, PointerInv,
     ListTypeOK, ForwardInv
<1>10. WalkInv'
  BY <1>1, <1>2, <1>3, <1>4 DEF StartDestroy, list, WalkInv, ListTypeOK,
     PointerInv
<1> QED BY <1>5, <1>6, <1>7, <1>8, <1>9, <1>10

LEMMA DestroyNodeKeeps == ASSUME ListInv, DestroyNode PROVE ListInv'
<1> USE DEF ListInv
<1>1. /\ Lo \in 1 .. Hi + 1 /\ Hi \in 0 .. MaxSegments
      /\ Hi = (IF wpc = "add1" THEN made - 1 ELSE made)
      /\ made \in 0 .. MaxSegments
      /\ next[HEAD] = IF Lo <= Hi THEN Lo ELSE HEAD
  BY Bounds
<1>2. Lo' = Lo /\ Hi' = Hi
  BY RangeStays DEF Steady
<1>3. LoBack' = IF wpc' = "rem2" THEN Lo' + 1 ELSE Lo'
  BY DEF LoBack
<1>4. HiBack' = IF wpc' \in {"add2", "add3", "add4"} THEN made' - 1 ELSE Hi'
  BY DEF HiBack
<1> HIDE DEF Lo, Hi
<1>5. ListTypeOK'
  BY <1>1, <1>2, <1>3, <1>4 DEF DestroyNode, list, ListTypeOK, PointerInv,
     ForwardInv, BackInv
<1>6. ForwardInv'
  BY <1>1, <1>2, <1>3, <1>4 DEF DestroyNode, list, ForwardInv, PointerInv,
     BackInv, LoBack, HiBack, ListTypeOK
<1>7. BackInv'
  BY <1>1, <1>2, <1>3, <1>4 DEF DestroyNode, list, BackInv, PointerInv,
     LoBack, HiBack, ListTypeOK, ForwardInv
<1>8. AllocInv'
  BY <1>1, <1>2, <1>3, <1>4 DEF DestroyNode, list, AllocInv, PointerInv,
     ListTypeOK
<1>9. PointerInv'
  BY <1>1, <1>2, <1>3, <1>4 DEF DestroyNode, list, PointerInv, ListTypeOK,
     ForwardInv
<1>10. WalkInv'
  BY <1>1, <1>2, <1>3, <1>4 DEF DestroyNode, list, WalkInv, ListTypeOK,
     PointerInv
<1> QED BY <1>5, <1>6, <1>7, <1>8, <1>9, <1>10

LEMMA DestroyHeadKeeps == ASSUME ListInv, DestroyHead PROVE ListInv'
<1> USE DEF ListInv
<1>1. /\ Lo \in 1 .. Hi + 1 /\ Hi \in 0 .. MaxSegments
      /\ Hi = (IF wpc = "add1" THEN made - 1 ELSE made)
      /\ made \in 0 .. MaxSegments
      /\ next[HEAD] = IF Lo <= Hi THEN Lo ELSE HEAD
  BY Bounds
<1>2. Lo' = Lo /\ Hi' = Hi
  BY RangeStays DEF Steady
<1>3. LoBack' = IF wpc' = "rem2" THEN Lo' + 1 ELSE Lo'
  BY DEF LoBack
<1>4. HiBack' = IF wpc' \in {"add2", "add3", "add4"} THEN made' - 1 ELSE Hi'
  BY DEF HiBack
<1> HIDE DEF Lo, Hi
<1>5. ListTypeOK'
  BY <1>1, <1>2, <1>3, <1>4 DEF DestroyHead, list, ListTypeOK, PointerInv,
     ForwardInv, BackInv
<1>6. ForwardInv'
  BY <1>1, <1>2, <1>3, <1>4 DEF DestroyHead, list, ForwardInv, PointerInv,
     BackInv, LoBack, HiBack, ListTypeOK
<1>7. BackInv'
  BY <1>1, <1>2, <1>3, <1>4 DEF DestroyHead, list, BackInv, PointerInv,
     LoBack, HiBack, ListTypeOK, ForwardInv
<1>8. AllocInv'
  BY <1>1, <1>2, <1>3, <1>4 DEF DestroyHead, list, AllocInv, PointerInv,
     ListTypeOK
<1>9. PointerInv'
  BY <1>1, <1>2, <1>3, <1>4 DEF DestroyHead, list, PointerInv, ListTypeOK,
     ForwardInv
<1>10. WalkInv'
  BY <1>1, <1>2, <1>3, <1>4 DEF DestroyHead, list, WalkInv, ListTypeOK,
     PointerInv
<1> QED BY <1>5, <1>6, <1>7, <1>8, <1>9, <1>10

-----------------------------------------------------------------------------
(* The HTTP thread's walk: istb_m3u8_api_open.                             *)

\* The walk stores nothing in the list: what is said of the list stays so.
LEMMA WalkLooksOnly ==
  ASSUME ListInv, UNCHANGED <<list, wpc, made, listnode, tmp>>,
         walk' \in WalkType
  PROVE  /\ Lo' = Lo /\ Hi' = Hi
         /\ UNCHANGED <<next, prev, node, data, wpc, made>>
         /\ ListTypeOK' /\ ForwardInv' /\ BackInv' /\ AllocInv' /\ PointerInv'
<1> USE DEF ListInv, list
<1>1. /\ Lo' = Lo /\ Hi' = Hi /\ LoBack' = LoBack /\ HiBack' = HiBack
      /\ UNCHANGED <<next, prev, node, data, wpc, made>>
  BY DEF Lo, Hi, LoBack, HiBack
<1>2. ListTypeOK' /\ AllocInv'
  BY <1>1 DEF ListTypeOK, AllocInv, WalkType
<1>3. ForwardInv' /\ BackInv' /\ PointerInv'
  BY <1>1 DEF ForwardInv, BackInv, PointerInv
<1> QED BY <1>1, <1>2, <1>3

LEMMA SaveNextKeeps == ASSUME ListInv, SaveNext PROVE ListInv'
<1> USE DEF ListInv
<1>1. /\ Lo \in 1 .. Hi + 1 /\ Hi \in 0 .. MaxSegments
      /\ Hi = (IF wpc = "add1" THEN made - 1 ELSE made)
      /\ made \in 0 .. MaxSegments
      /\ next[HEAD] = IF Lo <= Hi THEN Lo ELSE HEAD
  BY Bounds
<1>2. walk' \in WalkType
  <2>1. CASE /\ walk.listnode \in Nodes
             /\ walk' = [walk EXCEPT !.at = "test",
                                     !.tmp = next[walk.listnode]]
    <3>1. next[walk.listnode] \in Pointers
      BY <2>1 DEF ListTypeOK
    <3> QED BY <2>1, <3>1, WalkTyped DEF WalkType
  <2>2. CASE walk' = [walk EXCEPT !.at = "lost"]
    BY <2>2, WalkTyped DEF WalkType
  <2> QED BY <2>1, <2>2 DEF SaveNext, Lost
<1>3. /\ Lo' = Lo /\ Hi' = Hi
      /\ UNCHANGED <<next, prev, node, data, wpc, made>>
      /\ ListTypeOK' /\ ForwardInv' /\ BackInv' /\ AllocInv' /\ PointerInv'
  BY <1>2, WalkLooksOnly DEF SaveNext, list
<1> HIDE DEF Lo, Hi
<1>4. WalkInv'
  <2>1. walk.present /\ ~walk.hit /\ walk.at \in {"next", "test"} =>
          /\ walk.name \in Lo .. Hi /\ walk.listnode \in Lo .. walk.name
          /\ node[walk.listnode] = "live" /\ data[walk.listnode] = "live"
          /\ walk.listnode # HEAD
    BY <1>1 DEF WalkInv, AllocInv
  <2>2. walk \in WalkType
    BY WalkTyped
  <2>3. CASE /\ walk.listnode \in Nodes
             /\ walk' = [walk EXCEPT !.at = "test",
                                     !.tmp = next[walk.listnode]]
    <3>1. /\ walk'.at = "test" /\ walk'.tmp = next[walk.listnode]
          /\ walk'.name = walk.name /\ walk'.listnode = walk.listnode
          /\ walk'.present = walk.present /\ walk'.hit = walk.hit
          /\ walk.at = "next"
      BY <2>2, <2>3 DEF WalkType, SaveNext
    <3>2. walk.present /\ ~walk.hit /\ walk.listnode # walk.name =>
            next[walk.listnode] = walk.listnode + 1
      BY <1>1, <2>1, <3>1 DEF ForwardInv
    <3> QED BY <1>3, <2>3, <2>1, <3>1, <3>2 DEF WalkInv
  <2>4. CASE /\ walk' = [walk EXCEPT !.at = "lost"]
             /\ walk.listnode \in Nodes => node[walk.listnode] # "live"
    <3>1. /\ walk'.at = "lost" /\ walk.at = "next"
          /\ walk'.present = walk.present /\ walk'.hit = walk.hit
      BY <2>2, <2>4 DEF WalkType, SaveNext
    <3>2. ~(walk.present /\ ~walk.hit)
      BY <1>1, <2>4, <2>1, <3>1
    <3> QED BY <1>3, <3>1, <3>2 DEF WalkInv
  <2> QED BY <2>3, <2>4 DEF SaveNext, Lost
<1> QED BY <1>3, <1>4

LEMMA TestNodeKeeps == ASSUME ListInv, TestNode PROVE ListInv'
<1> USE DEF ListInv
<1>1. /\ Lo \in 1 .. Hi + 1 /\ Hi \in 0 .. MaxSegments
      /\ Hi = (IF wpc = "add1" THEN made - 1 ELSE made)
      /\ made \in 0 .. MaxSegments
      /\ next[HEAD] = IF Lo <= Hi THEN Lo ELSE HEAD
  BY Bounds
<1>2. walk' \in WalkType
  <2>1. CASE \E a \in {"missing", "lost", "found"} :
               walk' = [walk EXCEPT !.at = a]
    BY <2>1, WalkTyped DEF WalkType
  <2>2. CASE walk' = [walk EXCEPT !.at = "next", !.listnode = walk.tmp]
    BY <2>2, WalkTyped DEF WalkType
  <2> QED BY <2>1, <2>2 DEF TestNode, Lost
<1>3. /\ Lo' = Lo /\ Hi' = Hi
      /\ UNCHANGED <<next, prev, node, data, wpc, made>>
      /\ ListTypeOK' /\ ForwardInv' /\ BackInv' /\ AllocInv' /\ PointerInv'
  BY <1>2, WalkLooksOnly DEF TestNode, list
<1> HIDE DEF Lo, Hi
<1>4. WalkInv'
  <2>1. walk.present /\ ~walk.hit /\ walk.at \in {"next", "test"} =>
          /\ walk.name \in Lo .. Hi /\ walk.listnode \in Lo .. walk.name
          /\ node[walk.listnode] = "live" /\ data[walk.listnode] = "live"
          /\ walk.listnode # HEAD
    BY <1>1 DEF WalkInv, AllocInv
  <2>2. walk \in WalkType /\ walk.at = "test"
    BY WalkTyped DEF TestNode
  <2>3. CASE walk' = [walk EXCEPT !.at = "found"]
    <3>1. /\ walk'.at = "found"
          /\ walk'.present = walk.present /\ walk'.hit = walk.hit
      BY <2>2, <2>3 DEF WalkType
    <3> QED BY <1>3, <2>2, <3>1 DEF WalkInv
  <2>4. CASE /\ walk.listnode # walk.name
             /\ walk' = [walk EXCEPT !.at = "next", !.listnode = walk.tmp]
    <3>1. /\ walk'.at = "next" /\ walk'.name = walk.name
          /\ walk'.listnode = walk.tmp
          /\ walk'.present = walk.present /\ walk'.hit = walk.hit
      BY <2>2, <2>4 DEF WalkType
    <3>2. walk.present /\ ~walk.hit => walk.tmp \in Lo .. walk.name
      BY <1>1, <2>2, <2>4, <2>1 DEF WalkInv
    <3> QED BY <1>3, <2>2, <2>1, <3>1, <3>2 DEF WalkInv
  <2>5. CASE \E a \in {"missing", "lost"} :
               /\ walk' = [walk EXCEPT !.at = a]
               /\ \/ walk.listnode = HEAD \/ node[walk.listnode] # "live"
                  \/ data[walk.listnode] # "live"
    <3>1. /\ walk'.at \in {"missing", "lost"}
          /\ walk'.present = walk.present /\ walk'.hit = walk.hit
      BY <2>2, <2>5 DEF WalkType
    <3>2. ~(walk.present /\ ~walk.hit)
      BY <2>2, <2>5, <2>1
    <3> QED BY <1>3, <2>2, <3>1, <3>2 DEF WalkInv
  <2> QED BY <2>3, <2>4, <2>5 DEF TestNode, Lost
<1> QED BY <1>3, <1>4

LEMMA EndWalkKeeps == ASSUME ListInv, EndWalk PROVE ListInv'
<1> USE DEF ListInv
<1>1. walk' \in WalkType
  BY DEF EndWalk, NoWalk, WalkType
<1>2. /\ Lo' = Lo /\ Hi' = Hi
      /\ UNCHANGED <<next, prev, node, data, wpc, made>>
      /\ ListTypeOK' /\ ForwardInv' /\ BackInv' /\ AllocInv' /\ PointerInv'
  BY <1>1, WalkLooksOnly DEF EndWalk, list
<1> HIDE DEF Lo, Hi
<1>3. WalkInv'
  BY <1>2 DEF EndWalk, NoWalk, WalkInv
<1> QED BY <1>2, <1>3

\* What a walk begins with.
LEMMA StartsTyped ==
  ASSUME ListInv, StartWalk
  PROVE  /\ walk' \in WalkType
         /\ \E name \in Segments \cup {MaxSegments + 1} :
              /\ walk'.name = name /\ walk'.present = (name \in InList)
              /\ walk'.hit = Destroying
              /\ \/ walk'.at = "next" /\ walk'.listnode = next[HEAD]
                 \/ walk'.at = "lost" /\ node[HEAD] # "live"
<1>1. PICK name \in Segments \cup {MaxSegments + 1} :
        walk' = IF node[HEAD] = "live"
                THEN [at |-> "next", name |-> name, listnode |-> next[HEAD],
                      tmp |-> NULL, present |-> name \in InList,
                      hit |-> Destroying]
                ELSE [at |-> "lost", name |-> name, listnode |-> NULL,
                      tmp |-> NULL, present |-> name \in InList,
                      hit |-> Destroying]
  BY DEF StartWalk, NoWalk
<1> DEFINE present == name \in InList
           hit == Destroying
<1>2. present \in BOOLEAN /\ hit \in BOOLEAN
  OBVIOUS
<1>3. next[HEAD] \in Pointers
  BY DEF ListInv, ListTypeOK
<1> HIDE DEF present, hit
<1>4. walk' = IF node[HEAD] = "live"
              THEN [at |-> "next", name |-> name, listnode |-> next[HEAD],
                    tmp |-> NULL, present |-> present, hit |-> hit]
              ELSE [at |-> "lost", name |-> name, listnode |-> NULL,
                    tmp |-> NULL, present |-> present, hit |-> hit]
  BY <1>1 DEF present, hit
<1>5. walk' \in WalkType
  BY <1>2, <1>3, <1>4 DEF WalkType
<1>6. /\ walk'.name = name /\ walk'.present = present /\ walk'.hit = hit
      /\ \/ walk'.at = "next" /\ walk'.listnode = next[HEAD]
         \/ walk'.at = "lost" /\ node[HEAD] # "live"
  BY <1>4
<1> QED BY <1>5, <1>6 DEF present, hit

LEMMA StartWalkKeeps == ASSUME ListInv, StartWalk PROVE ListInv'
<1> USE DEF ListInv
<1>1. /\ Lo \in 1 .. Hi + 1 /\ Hi \in 0 .. MaxSegments
      /\ Hi = (IF wpc = "add1" THEN made - 1 ELSE made)
      /\ made \in 0 .. MaxSegments
      /\ next[HEAD] = IF Lo <= Hi THEN Lo ELSE HEAD
  BY Bounds
<1>2. walk' \in WalkType
  BY StartsTyped
<1>3. /\ Lo' = Lo /\ Hi' = Hi
      /\ UNCHANGED <<next, prev, node, data, wpc, made>>
      /\ ListTypeOK' /\ ForwardInv' /\ BackInv' /\ AllocInv' /\ PointerInv'
  BY <1>2, WalkLooksOnly DEF StartWalk, list
<1> HIDE DEF Lo, Hi
<1>4. WalkInv'
  <2>1. PICK name \in Segments \cup {MaxSegments + 1} :
          /\ walk'.name = name /\ walk'.present = (name \in InList)
          /\ walk'.hit = Destroying
          /\ \/ walk'.at = "next" /\ walk'.listnode = next[HEAD]
             \/ walk'.at = "lost" /\ node[HEAD] # "live"
    BY StartsTyped
  <2>2. InList = Lo .. Hi
    BY ReachedIs
  <2>3. walk'.present /\ ~walk'.hit =>
          /\ walk'.at = "next" /\ name \in Lo .. Hi
          /\ walk'.listnode = Lo
    <3> SUFFICES ASSUME walk'.present, ~walk'.hit
                 PROVE  /\ walk'.at = "next" /\ name \in Lo .. Hi
                        /\ walk'.listnode = Lo
      BY Zenon
    <3>1. name \in Lo .. Hi
      BY <2>1, <2>2, Zenon
    <3>2. ~Destroying
      BY <2>1, Zenon
    <3>3. wpc # "gone" /\ Lo <= Hi
      BY <1>1, <3>1, <3>2
    <3>4. node[HEAD] = "live" /\ next[HEAD] = Lo
      BY <1>1, <3>3 DEF AllocInv
    <3> QED BY <2>1, <3>1, <3>4, Zenon
  <2>4. /\ walk'.at # "idle" /\ walk'.at # "test"
        /\ Destroying' => walk'.hit
    <3>1. Destroying' <=> Destroying
      BY <1>3, Zenon
    <3> QED BY <2>1, <3>1, Zenon
  <2>5. walk'.present /\ ~walk'.hit =>
          /\ walk'.at \in {"next", "test", "found"}
          /\ walk'.at # "found" => /\ walk'.name \in Lo .. Hi
                                  /\ walk'.listnode \in Lo .. walk'.name
    <3>1. name \in Lo .. Hi => Lo \in Lo .. name
      BY <1>1
    <3> QED BY <2>1, <2>3, <3>1, Zenon
  <2>6. Lo' .. Hi' = Lo .. Hi /\ Lo' .. walk'.name = Lo .. walk'.name
    BY <1>3, Zenon
  <2> QED BY <2>4, <2>5, <2>6, Zenon DEF WalkInv
<1> QED BY <1>3, <1>4

LEMMA ListInitInv == ASSUME ListInit PROVE ListInv
<1>1. /\ wpc = "idle" /\ made = 0 /\ next[HEAD] = HEAD /\ prev[HEAD] = HEAD
      /\ node[HEAD] = "live" /\ \A k \in Segments : next[k] = NULL
  BY DEF ListInit
<1>2. Hi = 0 /\ Lo = 1 /\ LoBack = 1 /\ HiBack = 0
  BY <1>1 DEF Hi, Lo, LoBack, HiBack
<1>3. ListTypeOK
  BY DEF ListInit, NoWalk, ListTypeOK
<1>4. ForwardInv /\ BackInv /\ AllocInv /\ PointerInv
  BY <1>1, <1>2 DEF ForwardInv, BackInv, AllocInv, PointerInv
<1>5. WalkInv
  BY <1>1 DEF ListInit, NoWalk, WalkInv
<1> QED BY <1>3, <1>4, <1>5 DEF ListInv

LEMMA StutterKeeps == ASSUME ListInv, UNCHANGED listVars PROVE ListInv'
<1> USE DEF listVars, list
<1>1. Lo' = Lo /\ Hi' = Hi /\ LoBack' = LoBack /\ HiBack' = HiBack
  BY DEF Lo, Hi, LoBack, HiBack
<1>2. ListTypeOK' /\ WalkInv' /\ AllocInv'
  BY <1>1 DEF ListInv, ListTypeOK, WalkInv, AllocInv
<1>3. ForwardInv' /\ BackInv' /\ PointerInv'
  BY <1>1 DEF ListInv, ForwardInv, BackInv, PointerInv
<1> QED BY <1>2, <1>3 DEF ListInv

LEMMA StepKeeps == ASSUME ListInv, [ListNext]_listVars PROVE ListInv'
<1>1. CASE Add
  BY <1>1, LinkTailKeeps, SetPrevKeeps, SetNextKeeps, MoveTailKeeps DEF Add
<1>2. CASE Remove
  BY <1>2, UnlinkBackKeeps, UnlinkKeeps, SelfPrevKeeps, SelfNextKeeps,
     FreeNodeKeeps DEF Remove
<1>3. CASE Destroy
  BY <1>3, DestroyNodeKeeps, DestroyHeadKeeps DEF Destroy
<1>4. CASE StartAdd \/ StartRemove \/ StartDestroy \/ FreeData
  BY <1>4, StartAddKeeps, StartRemoveKeeps, StartDestroyKeeps, FreeDataKeeps
<1>5. CASE StartWalk \/ Walk \/ EndWalk
  BY <1>5, StartWalkKeeps, SaveNextKeeps, TestNodeKeeps, EndWalkKeeps DEF Walk
<1> QED BY <1>1, <1>2, <1>3, <1>4, <1>5, StutterKeeps DEF ListNext, Segmenter

LEMMA ListInductive == ListSpec => []ListInv
<1>1. ListInit => ListInv
  BY ListInitInv
<1>2. ListInv /\ [ListNext]_listVars => ListInv'
  BY StepKeeps
<1> QED BY <1>1, <1>2, PTL DEF ListSpec

-----------------------------------------------------------------------------
(* What follows from it.                                                   *)

\* Every link, every state of memory and every pointer is one there can be:
\* no step reads a link of a node that there is not.
THEOREM ListTypes == ListSpec => []ListTypeOK
<1>1. ListInv => ListTypeOK
  BY DEF ListInv
<1> QED BY <1>1, ListInductive, PTL

\* A walk without the lock finds a segment that was in the list when it began
\* (istb_m3u8_api_open), whatever is added and removed meanwhile, unless it
\* stood on the oldest node at the store that took it out, or the queue was
\* being destroyed.
THEOREM WalkFinds == ListSpec => []FoundUnlessHit
<1>1. ListInv => FoundUnlessHit
  <2> SUFFICES ASSUME ListInv, walk.present, ~walk.hit
               PROVE  walk.at \notin {"lost", "missing"}
    BY Zenon DEF FoundUnlessHit
  <2>1. walk.at \in {"next", "test", "found"}
    BY Zenon DEF ListInv, WalkInv
  <2> QED BY <2>1
<1> QED BY <1>1, ListInductive, PTL

\* The queue as it can be reached and the number of segments in it or gone.
Shown == IF Destroying THEN <<>> ELSE Reached

IsRange ==
  Shown = IF Destroying THEN <<>>
          ELSE [i \in 1 .. Hi - Lo + 1 |-> Lo + i - 1]

LEMMA ShownIs == ListInv => IsRange
BY ReachedIs, Zenon DEF ListInv, Shown, IsRange

\* A longer range is the range with one more at the end, a shorter one the
\* range without its first.
LEMMA RangeGrows ==
  ASSUME NEW lo \in Nat, NEW hi \in Nat, lo <= hi + 1
  PROVE  [i \in 1 .. (hi + 1) - lo + 1 |-> lo + i - 1] =
           Append([i \in 1 .. hi - lo + 1 |-> lo + i - 1], hi + 1)
<1> DEFINE n == hi - lo + 1
           s == [i \in 1 .. n |-> lo + i - 1]
<1>1. n \in Nat /\ (hi + 1) - lo + 1 = n + 1 /\ lo + (n + 1) - 1 = hi + 1
  OBVIOUS
<1>2. s \in Seq(Nat) /\ Len(s) = n
  <2>1. \A i \in 1 .. n : lo + i - 1 \in Nat
    OBVIOUS
  <2> HIDE DEF n
  <2> QED BY <1>1, <2>1
<1> HIDE DEF n
<1>3. Append(s, hi + 1) = [i \in 1 .. n + 1 |-> lo + i - 1]
  <2>1. Append(s, hi + 1) =
          [i \in 1 .. Len(s) + 1 |-> IF i <= Len(s) THEN s[i] ELSE hi + 1]
    <3> HIDE DEF s
    <3> QED BY <1>2
  <2>2. \A i \in 1 .. n + 1 :
          (IF i <= n THEN s[i] ELSE hi + 1) = lo + i - 1
    BY <1>1
  <2> HIDE DEF s
  <2> QED BY <1>2, <2>1, <2>2
<1> QED BY <1>1, <1>3 DEF s

LEMMA RangeShrinks ==
  ASSUME NEW lo \in Nat, NEW hi \in Nat, lo <= hi
  PROVE  /\ [i \in 1 .. hi - lo + 1 |-> lo + i - 1] # <<>>
         /\ Tail([i \in 1 .. hi - lo + 1 |-> lo + i - 1]) =
              [i \in 1 .. hi - (lo + 1) + 1 |-> (lo + 1) + i - 1]
<1> DEFINE n == hi - lo + 1
           s == [i \in 1 .. n |-> lo + i - 1]
<1>1. n \in Nat \ {0} /\ hi - (lo + 1) + 1 = n - 1
  OBVIOUS
<1>2. s \in Seq(Nat) /\ Len(s) = n
  <2>1. \A i \in 1 .. n : lo + i - 1 \in Nat
    OBVIOUS
  <2> HIDE DEF n
  <2> QED BY <1>1, <2>1
<1> HIDE DEF n
<1>3. s # <<>>
  BY <1>1, <1>2
<1>4. Tail(s) = [i \in 1 .. n - 1 |-> (lo + 1) + i - 1]
  <2>1. Tail(s) = [i \in 1 .. Len(s) - 1 |-> s[i + 1]]
    <3> HIDE DEF s
    <3>1. /\ Tail(s) \in Seq(Nat) /\ Len(Tail(s)) = Len(s) - 1
          /\ \A i \in 1 .. Len(Tail(s)) : Tail(s)[i] = s[i + 1]
      BY <1>2, <1>3, HeadTailProperties
    <3>2. Tail(s) \in [1 .. Len(Tail(s)) -> Nat]
      BY <3>1, LenProperties, Zenon
    <3>3. Tail(s) = [i \in 1 .. Len(Tail(s)) |-> Tail(s)[i]]
      BY <3>2, Zenon
    <3> QED BY <3>1, <3>3
  <2>2. \A i \in 1 .. n - 1 : s[i + 1] = (lo + 1) + i - 1
    BY <1>1
  <2> HIDE DEF s
  <2> QED BY <1>2, <2>1, <2>2
<1> QED BY <1>1, <1>3, <1>4 DEF n

\* Store by store the linked list is the queue of SegmentQueue: the node comes
\* into it at the third assignment of ADD_TO_TAIL and leaves it at the second
\* of REMOVE, and no store in between shows a walk anything else.
THEOREM ListRefines == ListSpec => ImplementsQueue
<1> USE DEF AbstractQueue!Next, AbstractQueue!queueVars, AbstractQueue!Add,
        AbstractQueue!RemoveOldest, AbstractQueue!Destroy
<1>1. ListInit => AbstractQueue!Init
  <2> SUFFICES ASSUME ListInit PROVE AbstractQueue!Init
    OBVIOUS
  <2>1. wpc = "idle" /\ made = 0 /\ next[HEAD] = HEAD
    BY DEF ListInit
  <2>2. Hi = 0 /\ Lo = 1
    BY <2>1 DEF Hi, Lo
  <2>3. Shown = <<>>
    BY <2>1, <2>2, ListInitInv, ShownIs DEF IsRange
  <2> QED BY <2>1, <2>3 DEF AbstractQueue!Init, Shown
<1>2. ListInv' => IsRange'
  BY ShownIs, PTL
<1>3. ASSUME ListInv, ListInv', [ListNext]_listVars
      PROVE  [AbstractQueue!Next]_(AbstractQueue!queueVars)
  <2>1. /\ Shown = IF Destroying THEN <<>>
                   ELSE [i \in 1 .. Hi - Lo + 1 |-> Lo + i - 1]
        /\ Lo \in 1 .. Hi + 1 /\ Hi \in 0 .. MaxSegments
    BY <1>3, ShownIs, ReachedIs, Zenon DEF ListInv, IsRange
  <2>2. Shown' = IF Destroying' THEN <<>>
                 ELSE [i \in 1 .. Hi' - Lo' + 1 |-> Lo' + i - 1]
    BY <1>2, <1>3, Zenon DEF IsRange
  <2> HIDE DEF Hi, Lo, Shown
  <2>3. CASE LinkTail
    <3>1. /\ Lo' = Lo /\ Hi' = Hi + 1 /\ ~Destroying /\ ~Destroying'
      BY <1>3, <2>3, LinkTailMoves
    <3>2. Shown' = Append(Shown, Hi')
      BY <2>1, <2>2, <3>1, RangeGrows
    <3> QED BY <3>1, <3>2 DEF Hi, Shown
  <2>4. CASE Unlink
    <3>1. /\ Lo' = Lo + 1 /\ Hi' = Hi /\ Lo <= Hi
          /\ ~Destroying /\ ~Destroying'
      BY <1>3, <2>4, UnlinkMoves
    <3>2. Lo \in Nat /\ Hi \in Nat
      BY <2>1
    <3>3. /\ Shown = [i \in 1 .. Hi - Lo + 1 |-> Lo + i - 1]
          /\ Shown' = [i \in 1 .. Hi - (Lo + 1) + 1 |-> (Lo + 1) + i - 1]
      BY <2>1, <2>2, <3>1, Zenon
    <3>4. Shown # <<>> /\ Shown' = Tail(Shown)
      BY <3>1, <3>2, <3>3, RangeShrinks, Zenon
    <3> QED BY <3>1, <3>4 DEF Hi, Shown
  <2>5. CASE StartDestroy
    <3>1. Shown' = <<>> /\ Hi' = Hi
      BY <1>3, <2>2, <2>5, RangeStays DEF StartDestroy
    <3> QED BY <3>1 DEF Hi, Shown
  <2>6. CASE Steady
    <3>1. Lo' = Lo /\ Hi' = Hi
      BY <1>3, <2>6, RangeStays
    <3>2. Destroying' <=> Destroying
      BY <2>6 DEF Steady, StartAdd, SetPrev, SetNext, MoveTail, StartRemove,
         UnlinkBack, SelfPrev, SelfNext, FreeData, FreeNode, DestroyNode,
         DestroyHead, StartWalk, SaveNext, TestNode, EndWalk
    <3>3. Shown' = Shown
      BY <2>1, <2>2, <3>1, <3>2
    <3> QED BY <3>1, <3>3 DEF Hi, Shown
  <2>7. CASE UNCHANGED listVars
    <3>1. Lo' = Lo /\ Hi' = Hi /\ (Destroying' <=> Destroying)
      BY <2>7 DEF Lo, Hi, listVars, list
    <3>2. Shown' = Shown
      BY <2>1, <2>2, <3>1
    <3> QED BY <3>1, <3>2 DEF Hi, Shown
  <2> QED BY <1>3, <2>3, <2>4, <2>5, <2>6, <2>7 DEF ListNext, Segmenter, Add,
     Remove, Destroy, Walk, Steady
<1> QED BY <1>1, <1>3, ListInductive, PTL DEF ListSpec, ImplementsQueue,
   AbstractQueue!Spec

-----------------------------------------------------------------------------
(* A buffer.                                                               *)

\* The block in use is the one buf points to and as large as bufsize says,
\* except while it grows; there is always room for one byte more.
WriterInv ==
  /\ writing \in {"idle", "grow", "realloc", "copy", "advance"} => buf = block
  /\ writing \in {"idle", "grow", "assign", "copy", "advance"} =>
       size = bufsize
  /\ writing # "failed" => write_ptr < bufsize
  /\ writing \in {"realloc", "assign", "copy", "advance"} =>
       write_ptr + wlen < bufsize
  /\ filled = IF writing = "advance" THEN write_ptr + wlen ELSE write_ptr
  /\ complete => writing \in {"idle", "failed"}
  /\ writing \in {"grow", "realloc", "assign", "copy", "advance"} =>
       write_ptr + wlen <= MaxWritten
  /\ writing = "failed" => buf = NullBlock

\* A read ends before the writer.  One that began within the data is still
\* within it, with a length that is none too many; a length is not final
\* before the cut.
ReaderInv ==
  /\ reading \in {"load", "copy"} => read_ptr + readlen <= write_ptr
  /\ within /\ reading # "idle" =>
       /\ 0 <= read_ptr /\ read_ptr <= write_ptr
       /\ 0 <= readlen /\ 0 <= asked

\* The two looks at write_ptr agree, and buf does not move any more.
CalmInv ==
  calm =>
    /\ complete
    /\ reading = "cut" => read_ptr + asked > write_ptr
    /\ reading \in {"load", "copy"} =>
         readlen = IF read_ptr + asked > write_ptr THEN write_ptr - read_ptr
                                                   ELSE asked
    /\ reading = "copy" =>
         from = IF writing = "failed" THEN NullBlock ELSE block
    /\ within /\ reading = "undefined" => writing = "failed"

BufferInv == BufferTypeOK /\ WriterInv /\ ReaderInv /\ CalmInv

LEMMA BufferInitInv == BufferInit => BufferInv
<1> SUFFICES ASSUME BufferInit PROVE BufferInv
  OBVIOUS
<1>1. /\ complete \in BOOLEAN /\ calm \in BOOLEAN /\ within \in BOOLEAN
      /\ ~complete /\ ~calm /\ ~within
  BY Zenon DEF BufferInit
<1>2. /\ buf = 1 /\ bufsize = BufSize /\ write_ptr = 0 /\ read_ptr = 0
      /\ block = 1 /\ size = BufSize /\ filled = 0
      /\ writing = "idle" /\ wlen = 0
      /\ reading = "idle" /\ asked = 0 /\ readlen = 0 /\ from = 0
  BY Zenon DEF BufferInit, NullBlock
<1> QED
  BY <1>1, <1>2, BufferAssumption DEF BufferInv, BufferTypeOK, WriterInv,
     ReaderInv, CalmInv

\* One lemma for each side: what the writer does, then what the reader does.
LEMMA WriteKeeps == ASSUME BufferInv, Write PROVE BufferInv'
<1> USE DEF BufferInv
<1>1. CASE StartWrite
  BY <1>1, BufferAssumption DEF StartWrite, Room, BufferTypeOK, WriterInv,
     ReaderInv, CalmInv, buffer, heap, reader
<1>2. CASE Enlarge
  BY <1>2, BufferAssumption DEF Enlarge, Growth, BufferTypeOK, WriterInv,
     ReaderInv, CalmInv, heap, reader
<1>3. CASE Realloc
  BY <1>3 DEF Realloc, BufferTypeOK, WriterInv, ReaderInv, CalmInv, buffer,
     reader
<1>4. CASE Assign
  BY <1>4 DEF Assign, BufferTypeOK, WriterInv, ReaderInv, CalmInv, heap, reader
<1>5. CASE ReallocFails
  BY <1>5 DEF ReallocFails, NullBlock, BufferTypeOK, WriterInv, ReaderInv,
     CalmInv, heap, reader
<1>6. CASE Copy
  BY <1>6 DEF Copy, BufferTypeOK, WriterInv, ReaderInv, CalmInv, buffer, reader
<1>7. CASE Advance
  BY <1>7 DEF Advance, BufferTypeOK, WriterInv, ReaderInv, CalmInv, heap,
     reader
<1>8. CASE Complete
  BY <1>8 DEF Complete, BufferTypeOK, WriterInv, ReaderInv, CalmInv, buffer,
     heap, reader
<1> QED BY <1>1, <1>2, <1>3, <1>4, <1>5, <1>6, <1>7, <1>8 DEF Write

LEMMA ReadKeeps == ASSUME BufferInv, Read PROVE BufferInv'
<1> USE DEF BufferInv
<1>1. CASE StartRead
  <2>1. PICK len \in ReadLens :
          /\ asked' = len /\ readlen' = len
          /\ reading' = IF read_ptr + len \notin Ints THEN "undefined"
                        ELSE IF read_ptr + len > write_ptr THEN "cut"
                        ELSE "load"
          /\ within' = (read_ptr \in 0 .. write_ptr /\ len >= 0)
    BY <1>1, Zenon DEF StartRead
  <2>2. /\ UNCHANGED <<buffer, heap, writer, from>> /\ calm' = complete
        /\ within' \in BOOLEAN
    BY <1>1, <2>1, Zenon DEF StartRead
  <2>3. within' => 0 <= read_ptr /\ read_ptr <= write_ptr /\ 0 <= len
    <3>1. within' => read_ptr \in 0 .. write_ptr /\ len >= 0
      BY <2>1, Zenon
    <3>2. read_ptr \in Int /\ write_ptr \in Int /\ len \in Int
      BY BufferAssumption DEF Ints, BufferTypeOK
    <3>3. ASSUME read_ptr \in 0 .. write_ptr /\ len >= 0
          PROVE  0 <= read_ptr /\ read_ptr <= write_ptr /\ 0 <= len
      BY <3>2, <3>3
    <3> QED BY <3>1, <3>3, Zenon
  <2>4. within' => reading' # "undefined"
    BY <2>1, <2>3, BufferAssumption DEF Ints, BufferTypeOK
  <2>5. BufferTypeOK'
    BY <2>1, <2>2, BufferAssumption DEF Ints, BufferTypeOK, buffer, heap,
       writer
  <2>6. WriterInv'
    BY <2>2 DEF WriterInv, buffer, heap, writer
  <2>7. ReaderInv'
    BY <2>1, <2>2, <2>3, BufferAssumption DEF Ints, BufferTypeOK, ReaderInv,
       buffer
  <2>8. CalmInv'
    BY <2>1, <2>2, <2>4, BufferAssumption DEF Ints, BufferTypeOK, WriterInv,
       CalmInv, buffer, writer
  <2> QED BY <2>5, <2>6, <2>7, <2>8
<1>2. CASE Cut
  BY <1>2 DEF Cut, BufferTypeOK, WriterInv, ReaderInv, CalmInv, buffer, heap,
     writer
<1>3. CASE LoadBuf
  BY <1>3 DEF LoadBuf, BufferTypeOK, WriterInv, ReaderInv, CalmInv, buffer,
     heap, writer
<1>4. CASE FinishRead
  BY <1>4 DEF FinishRead, Copyable, BufferTypeOK, WriterInv, ReaderInv,
     CalmInv, heap, writer
<1>5. CASE FaultyRead
  <2>1. BufferTypeOK' /\ WriterInv' /\ ReaderInv'
    BY <1>5 DEF FaultyRead, BufferTypeOK, WriterInv, ReaderInv, buffer, heap,
       writer
  <2>2. within => from = NullBlock
    BY <1>5 DEF FaultyRead, Copyable, BufferTypeOK, ReaderInv
  <2>3. CalmInv'
    BY <1>5, <2>2 DEF FaultyRead, NullBlock, BufferTypeOK, CalmInv, buffer,
       heap, writer
  <2> QED BY <2>1, <2>3
<1>6. CASE Seek
  BY <1>6, BufferAssumption DEF Seek, Ints, BufferTypeOK, WriterInv, ReaderInv,
     CalmInv, heap, writer, reader
<1> QED BY <1>1, <1>2, <1>3, <1>4, <1>5, <1>6 DEF Read

LEMMA BufferStutterKeeps ==
  ASSUME BufferInv, UNCHANGED bufferVars
  PROVE  BufferInv'
  BY DEF BufferInv, BufferTypeOK, WriterInv, ReaderInv, CalmInv, bufferVars,
     buffer, heap, writer, reader

LEMMA BufferInductive == BufferSpec => []BufferInv
<1>1. BufferInv /\ [BufferNext]_bufferVars => BufferInv'
  BY WriteKeeps, ReadKeeps, BufferStutterKeeps DEF BufferNext
<1> QED BY <1>1, BufferInitInv, PTL DEF BufferSpec

\* Pointers, lengths and places are of their types, wherever a seek sent the
\* reader and whatever was asked for: read_ptr and the lengths are ints of
\* either sign, what the writer keeps is not negative, and no byte is counted
\* that was not written.
THEOREM BufferTypes == BufferSpec => []BufferTypeOK
<1>1. BufferInv => BufferTypeOK
  BY DEF BufferInv
<1> QED BY <1>1, BufferInductive, PTL

\* Whatever lengths are written in whatever order, istb_m3u8_buffer_write
\* stays inside the block it has, though it tests once and grows once.
THEOREM GrowthSuffices == BufferSpec => []WritesFit
<1>1. BufferInv => WritesFit
  BY DEF BufferInv, BufferTypeOK, WriterInv, WritesFit
<1> QED BY <1>1, BufferInductive, PTL

\* istb_m3u8_buffer_read reaches no further than what the segmenter has copied
\* in, for every offset of a seek, every length and every write between its
\* two looks at write_ptr.  The length stays a length (not negative) if the
\* read began within the data; a seek past the end of it takes that away.
THEOREM NothingUnwritten == BufferSpec => []ReadsOnlyWritten
<1>1. BufferInv => ReadsOnlyWritten
  BY DEF BufferInv, BufferTypeOK, WriterInv, ReaderInv, ReadsOnlyWritten
<1> QED BY <1>1, BufferInductive, PTL

\* A buffer that is complete needs no lock, from any place within it: the right
\* number of bytes, from storage that stays where it is.  The exception is in
\* the statement: a segment whose realloc failed is complete as well, its buf
\* is null, and no other such read is undefined.
THEOREM CompleteNeedsNoLock == BufferSpec => []CompleteReadsSafe
<1>1. BufferInv => CompleteReadsSafe
  BY DEF BufferInv, BufferTypeOK, ReaderInv, CalmInv, CompleteReadsSafe
<1> QED BY <1>1, BufferInductive, PTL

-----------------------------------------------------------------------------
(* The two side by side.                                                   *)

\* Whichever of the two a behaviour is of, the variables of both are of their
\* types: a walk stands on a node of the list or on none, next and prev lead to
\* nodes, and the writer's pointer and lengths are not negative.
THEOREM MemoryTypes == MemorySpec => []MemoryTypeOK
<1>1. MemoryInit => ListInv /\ BufferInv
  BY ListInitInv, BufferInitInv DEF MemoryInit
<1>2. ASSUME ListInv, BufferInv,
             [MemoryNext]_<<part, listVars, bufferVars>>
      PROVE  ListInv' /\ BufferInv'
  <2>1. [ListNext]_listVars /\ [BufferNext]_bufferVars
    BY <1>2 DEF MemoryNext
  <2>2. ListInv'
    BY <1>2, <2>1, StepKeeps
  <2>3. BufferInv'
    BY <1>2, <2>1, WriteKeeps, ReadKeeps, BufferStutterKeeps DEF BufferNext
  <2> QED BY <2>2, <2>3
<1>3. ListInv /\ BufferInv => MemoryTypeOK
  BY DEF ListInv, BufferInv, MemoryTypeOK
<1> QED BY <1>1, <1>2, <1>3, PTL DEF MemorySpec
=============================================================================
