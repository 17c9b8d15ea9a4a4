-------------------------- MODULE RingBufferProofs --------------------------
(***************************************************************************)
(* Proofs about RingBuffer, for every ring size, packet size, set of       *)
(* datagram lengths and set of read amounts its assumption allows.         *)
(***************************************************************************)
EXTENDS RingBuffer, SequenceTheorems, TLAPS

-----------------------------------------------------------------------------
(* The remainder on the range the pointers can reach: at most once round.  *)

\* A position short of the end of the storage is itself.
LEMMA ModBelow ==
  \A S \in Nat \ {0}, a \in Nat : a < S => a % S = a
  OBVIOUS

\* A position up to one round past the end comes back by the size.
LEMMA ModAbove ==
  \A S \in Nat \ {0}, a \in Nat : S <= a /\ a < S + S => a % S = a - S
  OBVIOUS

\* A remainder is a cell.
LEMMA ModInCells ==
  \A S \in Nat \ {0}, a \in Nat : a % S \in 0 .. S - 1
  OBVIOUS

-----------------------------------------------------------------------------
(* The measures of the ring.                                               *)

\* The unread bytes are fewer than the ring holds: the code cannot tell a
\* full ring from an empty one (macro at line 33 of istb_ringbuffer.c).
LEMMA AvailableBound ==
  ASSUME TypeOK
  PROVE  AvailableData \in 0 .. BufferSize - 1
  BY RingAssumption DEF TypeOK, Cells, AvailableData

\* The pointers after the rewinding of an empty ring delimit as much data.
LEMMA RewindKeeps ==
  ASSUME TypeOK
  PROVE  /\ WriteAt \in Cells
         /\ ReadAt \in Cells
         /\ AvailableData = IF WriteAt < ReadAt
                              THEN WriteAt + BufferSize - ReadAt
                              ELSE WriteAt - ReadAt
  BY RingAssumption DEF TypeOK, Cells, AvailableData, WriteAt, ReadAt

\* What a read returns is a block of the length asked for.
LEMMA BlockRead ==
  ASSUME TypeOK, NEW amount \in ReadLens, CanRead(amount)
  PROVE  /\ Load(amount) \in [1 .. TargetSize -> Nat]
         /\ [k \in 1 .. amount |-> Load(amount)[k]] \in Seq(Nat)
         /\ Len([k \in 1 .. amount |-> Load(amount)[k]]) = amount
<1>1. amount \in Nat /\ amount <= TargetSize /\ amount < BufferSize
  BY RingAssumption, AvailableBound DEF CanRead
<1>2. Load(amount) \in [1 .. TargetSize -> Nat]
  <2>1. ASSUME NEW k \in 1 .. TargetSize,
               k <= amount - (BufferSize - read_ptr)
        PROVE  buf[k - 1] \in Nat
    BY <1>1, <2>1, RingAssumption DEF TypeOK, Cells
  <2>2. ASSUME NEW k \in 1 .. TargetSize,
               k <= amount, k <= BufferSize - read_ptr
        PROVE  buf[read_ptr + k - 1] \in Nat
    BY <1>1, <2>2, RingAssumption DEF TypeOK, Cells
  <2>3. QED  BY <2>1, <2>2 DEF Load, TypeOK
<1>3. DEFINE block == [k \in 1 .. amount |-> Load(amount)[k]]
<1>4. block \in [1 .. amount -> Nat]
  BY <1>1, <1>2, RingAssumption
<1>5. block \in Seq(Nat) /\ Len(block) = amount
  <2>1. DOMAIN block = 1 .. amount
    OBVIOUS
  <2>2. QED  BY <1>1, <1>4, <2>1
<1>6. QED  BY <1>2, <1>5

-----------------------------------------------------------------------------
(* Type correctness.                                                       *)

\* Storing a block keeps every cell a byte of the stream.
LEMMA StoreType ==
  ASSUME TypeOK, NEW at \in Cells, NEW len \in Nat
  PROVE  Store(at, len) \in [Cells -> Nat]
  BY RingAssumption DEF TypeOK, Cells, Store

\* The pointers stay inside the storage, for every sequence of calls of
\* iSTB_Buffer_write and iSTB_Buffer_read.
LEMMA TypeStep ==
  ASSUME TypeOK, [Next]_vars
  PROVE  TypeOK'
<1>1. ASSUME NEW len \in WriteLens, WriteUnfit(len)
      PROVE  TypeOK'
  <2>1. sent' \in Nat
    BY <1>1, RingAssumption DEF TypeOK, WriteUnfit, Offer
  <2>2. QED
    BY <1>1, <2>1 DEF TypeOK, WriteUnfit, ringVars
<1>2. ASSUME NEW len \in WriteLens, WriteRefused(len)
      PROVE  TypeOK'
  <2>1. sent' \in Nat
    BY <1>2, RingAssumption DEF TypeOK, WriteRefused, Offer
  <2>2. write_ptr' \in Cells /\ read_ptr' \in Cells
    BY <1>2, RewindKeeps DEF WriteRefused
  <2>3. QED
    BY <1>2, <2>1, <2>2 DEF TypeOK, WriteRefused
<1>3. ASSUME NEW len \in WriteLens, WriteAccepted(len)
      PROVE  TypeOK'
  <2>1. len \in Nat /\ WriteAt \in Cells /\ ReadAt \in Cells
    BY RingAssumption, RewindKeeps
  <2>2. (WriteAt + len) % BufferSize \in Cells
    BY <2>1, RingAssumption, ModInCells DEF Cells
  <2>3. buf' \in [Cells -> Nat]
    BY <1>3, <2>1, StoreType DEF WriteAccepted
  <2>4. brimmed' \in BOOLEAN
    BY <1>3 DEF WriteAccepted, TypeOK
  <2>5. QED
    BY <1>3, <2>1, <2>2, <2>3, <2>4 DEF Commit, TypeOK, WriteAccepted, Offer
<1>4. ASSUME NEW amount \in ReadLens, Read(amount)
      PROVE  TypeOK'
  <2>1. amount \in Nat /\ read_ptr \in Nat /\ CanRead(amount)
    BY <1>4, RingAssumption DEF Read, TypeOK, Cells
  <2>2. (read_ptr + amount) % BufferSize \in Cells
    BY <2>1, RingAssumption, ModInCells DEF Cells
  <2>3. delivered' \in Seq(Nat) /\ target' \in [1 .. TargetSize -> Nat]
    BY <1>4, <2>1, BlockRead DEF Read, TypeOK
  <2>4. torn' \in BOOLEAN
    BY <1>4 DEF Read, TypeOK
  <2>5. QED
    BY <1>4, <2>2, <2>3, <2>4 DEF Commit, TypeOK, Read
<1>5. CASE UNCHANGED vars
  BY <1>5 DEF TypeOK, vars
<1>6. QED
  BY <1>1, <1>2, <1>3, <1>4, <1>5 DEF Next, Write

\* The ring starts with sound pointers.
LEMMA TypeInit ==
  ASSUME Init
  PROVE  TypeOK
<1>1. buf \in [Cells -> Nat] /\ target \in [1 .. TargetSize -> Nat]
  BY DEF Init
<1>2. torn \in BOOLEAN /\ brimmed \in BOOLEAN
  BY DEF Init
<1>3. delivered \in Seq(Nat)
  BY DEF Init
<1>4. QED
  BY <1>1, <1>2, <1>3, RingAssumption DEF Init, TypeOK, Cells

\* In every reachable state the pointers are cells, and what the reader got
\* is a sequence of bytes.
THEOREM TypeCorrect == Spec => []TypeOK
  BY TypeInit, TypeStep, PTL DEF Spec

-----------------------------------------------------------------------------
(* Nothing accepted is lost.                                               *)

\* What an accepted write adds to the unread data; filling the ring to the
\* brim leaves equal pointers instead.
LEMMA WriteAdds ==
  ASSUME TypeOK, NEW len \in WriteLens, WriteAccepted(len),
         AvailableData + len # BufferSize
  PROVE  AvailableData' = AvailableData + len
<1> DEFINE S == BufferSize
           w == WriteAt
           r == ReadAt
<1>1. /\ S \in Nat \ {0} /\ len \in Nat
      /\ w \in 0 .. S - 1 /\ r \in 0 .. S - 1
      /\ AvailableData = IF w < r THEN w + S - r ELSE w - r
      /\ AvailableData + len < S
  BY AvailableBound, RewindKeeps, RingAssumption DEF WriteAccepted, Cells
<1>2. write_ptr' = (w + len) % S /\ read_ptr' = r
  BY DEF Commit, WriteAccepted
<1>3. AvailableData' = IF write_ptr' < read_ptr' THEN write_ptr' + S - read_ptr'
                                                 ELSE write_ptr' - read_ptr'
  BY DEF AvailableData
<1> HIDE DEF S, w, r
<1>4. CASE w + len < S
  <2>1. (w + len) % S = w + len
    BY <1>1, <1>4, ModBelow, SMTT(30)
  <2>2. QED  BY <1>1, <1>2, <1>3, <1>4, <2>1
<1>5. CASE S <= w + len
  <2> DEFINE p == w + len
  <2>1. S \in Nat \ {0} /\ p \in Nat /\ S <= p /\ p < S + S
    BY <1>1, <1>5
  <2>2. write_ptr' = p % S
    BY <1>2
  <2> HIDE DEF p
  <2>3. p % S = p - S
    BY <2>1, ModAbove
  <2>4. QED  BY <1>1, <1>2, <1>3, <1>5, <2>2, <2>3 DEF p
<1>6. QED  BY <1>1, <1>4, <1>5

\* What a read takes from it.
LEMMA ReadTakes ==
  ASSUME TypeOK, NEW amount \in ReadLens, Read(amount)
  PROVE  AvailableData' = AvailableData - amount
<1> DEFINE S == BufferSize
           w == write_ptr
           r == read_ptr
<1>1. /\ S \in Nat \ {0} /\ amount \in Nat
      /\ w \in 0 .. S - 1 /\ r \in 0 .. S - 1
      /\ AvailableData = IF w < r THEN w + S - r ELSE w - r
      /\ amount <= AvailableData
  BY RingAssumption DEF Read, CanRead, TypeOK, Cells, AvailableData
<1>2. write_ptr' = w /\ read_ptr' = (r + amount) % S
  BY DEF Commit, Read
<1>3. AvailableData' = IF write_ptr' < read_ptr' THEN write_ptr' + S - read_ptr'
                                                 ELSE write_ptr' - read_ptr'
  BY DEF AvailableData
<1> HIDE DEF S, w, r
<1>4. CASE r + amount < S
  <2>1. (r + amount) % S = r + amount
    BY <1>1, <1>4, ModBelow
  <2>2. QED  BY <1>1, <1>2, <1>3, <1>4, <2>1
<1>5. CASE S <= r + amount
  <2> DEFINE p == r + amount
  <2>1. S \in Nat \ {0} /\ p \in Nat /\ S <= p /\ p < S + S
    BY <1>1, <1>5
  <2>2. read_ptr' = p % S
    BY <1>2
  <2> HIDE DEF p
  <2>3. p % S = p - S
    BY <2>1, ModAbove
  <2>4. QED  BY <1>1, <1>2, <1>3, <1>5, <2>2, <2>3 DEF p
<1>6. QED  BY <1>1, <1>4, <1>5

\* One step keeps the account of accepted, delivered and unread bytes.
LEMMA ConservedStep ==
  ASSUME TypeOK, ConservedUntilBrimmed, [Next]_vars
  PROVE  ConservedUntilBrimmed'
<1>1. ASSUME NEW len \in WriteLens, WriteUnfit(len)
      PROVE  ConservedUntilBrimmed'
  BY <1>1 DEF WriteUnfit, ringVars, ConservedUntilBrimmed, AvailableData
<1>2. ASSUME NEW len \in WriteLens, WriteRefused(len)
      PROVE  ConservedUntilBrimmed'
  <2>1. AvailableData' = AvailableData
    <3>1. write_ptr' = WriteAt /\ read_ptr' = ReadAt
      BY <1>2 DEF WriteRefused
    <3>2. QED  BY <3>1, RewindKeeps DEF AvailableData
  <2>2. QED  BY <1>2, <2>1 DEF WriteRefused, ConservedUntilBrimmed
<1>3. ASSUME NEW len \in WriteLens, WriteAccepted(len)
      PROVE  ConservedUntilBrimmed'
  <2>1. SUFFICES ASSUME ~brimmed'
                 PROVE  accepted' = Len(delivered') + AvailableData'
    BY DEF ConservedUntilBrimmed
  <2>2. ~brimmed /\ AvailableData + len # BufferSize
    BY <1>3, <2>1 DEF WriteAccepted
  <2>3. AvailableData' = AvailableData + len
    BY <1>3, <2>2, WriteAdds
  <2>4. accepted = Len(delivered) + AvailableData
    BY <2>2 DEF ConservedUntilBrimmed
  <2>5. /\ accepted' = accepted + len /\ delivered' = delivered
        /\ len \in Nat /\ AvailableData \in Nat /\ Len(delivered) \in Nat
    BY <1>3, AvailableBound, RingAssumption DEF WriteAccepted, TypeOK
  <2>6. QED  BY <2>3, <2>4, <2>5
<1>4. ASSUME NEW amount \in ReadLens, Read(amount)
      PROVE  ConservedUntilBrimmed'
  <2>1. SUFFICES ASSUME ~brimmed'
                 PROVE  accepted' = Len(delivered') + AvailableData'
    BY DEF ConservedUntilBrimmed
  <2>2. accepted = Len(delivered) + AvailableData
    BY <1>4, <2>1 DEF Read, ConservedUntilBrimmed
  <2>3. AvailableData' = AvailableData - amount
    BY <1>4, ReadTakes
  <2>4. Len(delivered') = Len(delivered) + amount
    <3>1. delivered \in Seq(Nat) /\ CanRead(amount)
      BY <1>4 DEF TypeOK, Read
    <3> DEFINE block == [k \in 1 .. amount |-> Load(amount)[k]]
    <3>2. delivered' = delivered \o block
      BY <1>4 DEF Read
    <3>3. block \in Seq(Nat) /\ Len(block) = amount
      BY <3>1, BlockRead
    <3> HIDE DEF block
    <3>4. Len(delivered \o block) = Len(delivered) + Len(block)
      BY <3>1, <3>3
    <3>5. QED  BY <3>2, <3>3, <3>4
  <2>5. /\ accepted' = accepted
        /\ amount \in Nat /\ AvailableData \in Nat /\ Len(delivered) \in Nat
    BY <1>4, AvailableBound, RingAssumption DEF Read, TypeOK
  <2>6. QED  BY <2>2, <2>3, <2>4, <2>5
<1>5. CASE UNCHANGED vars
  BY <1>5 DEF vars, ConservedUntilBrimmed, AvailableData
<1>6. QED
  BY <1>1, <1>2, <1>3, <1>4, <1>5 DEF Next, Write

\* A write that reported success is not lost: until a write fills the ring
\* exactly, every accepted byte has been delivered or is still unread.
THEOREM Conservation == Spec => []ConservedUntilBrimmed
<1>1. Init => ConservedUntilBrimmed
  BY DEF Init, ConservedUntilBrimmed, AvailableData
<1>2. TypeOK /\ ConservedUntilBrimmed /\ [Next]_vars => ConservedUntilBrimmed'
  BY ConservedStep
<1>3. QED  BY <1>1, <1>2, TypeCorrect, PTL DEF Spec

-----------------------------------------------------------------------------
(* What each call does to the unread bytes.                                *)

\* The cell a position of at most one round past the end comes to.
LEMMA Place ==
  \A S \in Nat \ {0}, a \in Nat :
    a < S + S => a % S = IF a < S THEN a ELSE a - S
<1> SUFFICES ASSUME NEW S \in Nat \ {0}, NEW a \in Nat, a < S + S
             PROVE  a % S = IF a < S THEN a ELSE a - S
  OBVIOUS
<1>1. CASE a < S
  BY <1>1, ModBelow
<1>2. CASE S <= a
  <2>1. a % S = a - S
    BY <1>2, ModAbove
  <2>2. ~(a < S)
    BY <1>2
  <2>3. QED  BY <2>1, <2>2
<1>3. QED  BY <1>1, <1>2

\* Around the ring from the read pointer: first the bytes unread before, at
\* the cells they were in, then the new block.
LEMMA StoreCell ==
  ASSUME TypeOK, NEW len \in Nat, AvailableData + len < BufferSize,
         NEW k \in 1 .. AvailableData + len
  PROVE  Store(WriteAt, len)[(ReadAt + k - 1) % BufferSize] =
           IF k <= AvailableData THEN buf[(read_ptr + k - 1) % BufferSize]
                                 ELSE sent + (k - AvailableData)
<1> DEFINE S == BufferSize
           A == AvailableData
           w == WriteAt
           r == ReadAt
           a == r + k - 1
           p == IF a < S THEN a ELSE a - S
<1>1. /\ S \in Nat \ {0} /\ A \in 0 .. S - 1 /\ k \in 1 .. A + len
      /\ w \in 0 .. S - 1 /\ r \in 0 .. S - 1
      /\ A = IF w < r THEN w + S - r ELSE w - r
      /\ len \in Nat /\ A + len < S
  BY AvailableBound, RewindKeeps, RingAssumption DEF Cells
<1>2. A # 0 => r = read_ptr
  BY DEF ReadAt
<1>3. p \in 0 .. S - 1
  BY <1>1
<1>4. a \in Nat /\ a < S + S
  BY <1>1
<1>5. a % S = p
  <2> HIDE DEF a
  <2>1. QED  BY <1>1, <1>4, Place
<1>6. Store(w, len)[p] = IF w <= p /\ p < w + len THEN sent + (p - w) + 1
                         ELSE IF p < w + len - S THEN sent + (p + S - w) + 1
                         ELSE buf[p]
  BY <1>3 DEF Store, Cells
<1>7. CASE k <= A
  <2>1. ~(w <= p /\ p < w + len) /\ ~(p < w + len - S)
    BY <1>1, <1>7
  <2>2. Store(w, len)[p] = buf[p]
    BY <1>6, <2>1
  <2>3. buf[p] = buf[(read_ptr + k - 1) % S]
    BY <1>1, <1>2, <1>5, <1>7
  <2>4. QED  BY <1>5, <1>7, <2>2, <2>3
<1>8. CASE A < k
  <2>1. sent \in Nat
    BY DEF TypeOK
  <2>2. \/ w <= p /\ p < w + len /\ p - w + 1 = k - A
        \/ ~(w <= p) /\ p < w + len - S /\ p + S - w + 1 = k - A
    BY <1>1, <1>8
  <2>3. Store(w, len)[p] = sent + (k - A)
    BY <1>1, <1>3, <1>6, <2>1, <2>2
  <2>4. QED  BY <1>1, <1>5, <1>8, <2>3
<1>9. QED  BY <1>1, <1>7, <1>8

\* A write that does not fill the ring appends the next len bytes.
LEMMA WriteAppends ==
  ASSUME TypeOK, NEW len \in WriteLens, WriteAccepted(len),
         AvailableData + len # BufferSize
  PROVE  /\ AvailableData' = AvailableData + len
         /\ \A k \in 1 .. AvailableData + len :
              Contents'[k] = IF k <= AvailableData THEN Contents[k]
                             ELSE sent + (k - AvailableData)
<1>1. len \in Nat /\ AvailableData + len < BufferSize
  BY AvailableBound, RingAssumption DEF WriteAccepted
<1>2. AvailableData' = AvailableData + len
  BY WriteAdds
<1>3. buf' = Store(WriteAt, len) /\ read_ptr' = ReadAt
  BY DEF WriteAccepted
<1>4. ASSUME NEW k \in 1 .. AvailableData + len
      PROVE  Contents'[k] = IF k <= AvailableData THEN Contents[k]
                            ELSE sent + (k - AvailableData)
  <2>1. Contents'[k] = Store(WriteAt, len)[(ReadAt + k - 1) % BufferSize]
    BY <1>2, <1>3, <1>4 DEF Contents
  <2>2. k <= AvailableData =>
          Contents[k] = buf[(read_ptr + k - 1) % BufferSize]
    BY <1>1, <1>4, AvailableBound DEF Contents
  <2>3. QED  BY <1>1, <1>4, <2>1, <2>2, StoreCell
<1>5. QED  BY <1>2, <1>4

\* A write that fills the ring leaves nothing to read.
LEMMA WriteBrims ==
  ASSUME TypeOK, NEW len \in WriteLens, WriteAccepted(len),
         AvailableData + len = BufferSize
  PROVE  AvailableData' = 0
<1> DEFINE S == BufferSize
           w == WriteAt
           r == ReadAt
           p == w + len
<1>1. /\ S \in Nat \ {0} /\ len \in Nat
      /\ w \in 0 .. S - 1 /\ r \in 0 .. S - 1
      /\ AvailableData = IF w < r THEN w + S - r ELSE w - r
  BY RewindKeeps, RingAssumption DEF Cells
<1>2. write_ptr' = p % S /\ read_ptr' = r
  BY DEF Commit, WriteAccepted
<1>3. p \in Nat /\ p < S + S /\ r = IF p < S THEN p ELSE p - S
  BY <1>1
<1>4. write_ptr' = r
  <2> HIDE DEF p, S, r, w
  <2>1. p % S = IF p < S THEN p ELSE p - S
    BY <1>1, <1>3, Place
  <2>2. QED  BY <1>2, <1>3, <2>1
<1>5. QED  BY <1>1, <1>2, <1>4 DEF AvailableData

\* A refused write changes nothing a reader could see.
LEMMA RefusalKeeps ==
  ASSUME TypeOK, NEW len \in WriteLens, WriteRefused(len)
  PROVE  AvailableData' = AvailableData /\ Contents' = Contents
<1>1. write_ptr' = WriteAt /\ read_ptr' = ReadAt /\ buf' = buf
  BY DEF WriteRefused
<1>2. AvailableData' = AvailableData
  BY <1>1, RewindKeeps DEF AvailableData
<1>3. CASE AvailableData = 0
  BY <1>2, <1>3 DEF Contents
<1>4. CASE AvailableData # 0
  BY <1>1, <1>2, <1>4 DEF Contents, ReadAt
<1>5. QED  BY <1>2, <1>3, <1>4

\* A read takes its bytes off the front of the unread ones.
LEMMA ReadDrops ==
  ASSUME TypeOK, NEW amount \in ReadLens, Read(amount)
  PROVE  /\ AvailableData' = AvailableData - amount
         /\ \A k \in 1 .. AvailableData - amount :
              Contents'[k] = Contents[k + amount]
<1> DEFINE S == BufferSize
           r == read_ptr
<1>1. AvailableData' = AvailableData - amount
  BY ReadTakes
<1>2. /\ S \in Nat \ {0} /\ amount \in Nat /\ r \in 0 .. S - 1
      /\ AvailableData \in 0 .. S - 1 /\ amount <= AvailableData
  BY RingAssumption, AvailableBound DEF Read, CanRead, TypeOK, Cells
<1>3. buf' = buf /\ read_ptr' = (r + amount) % S
  BY DEF Commit, Read
<1>4. ASSUME NEW k \in 1 .. AvailableData - amount
      PROVE  Contents'[k] = Contents[k + amount]
  <2> DEFINE a == r + amount
             b == read_ptr' + k - 1
             c == r + (k + amount) - 1
  <2>1. a \in Nat /\ a < S + S /\ c \in Nat /\ c < S + S
    BY <1>2
  <2>2. read_ptr' = IF a < S THEN a ELSE a - S
    <3>1. read_ptr' = a % S
      BY <1>3
    <3> HIDE DEF a, S
    <3>2. QED  BY <1>2, <2>1, <3>1, Place
  <2>3. b \in Nat /\ b < S + S
    BY <1>2, <2>2
  <2>4. b % S = IF b < S THEN b ELSE b - S
    <3> HIDE DEF b, S
    <3>1. QED  BY <1>2, <2>3, Place
  <2>5. c % S = IF c < S THEN c ELSE c - S
    <3> HIDE DEF c, S
    <3>1. QED  BY <1>2, <2>1, Place
  <2>6. b % S = c % S
    <3>1. (IF b < S THEN b ELSE b - S) = (IF c < S THEN c ELSE c - S)
      BY <1>2, <2>2
    <3>2. QED  BY <2>4, <2>5, <3>1
  <2>7. Contents'[k] = buf[b % S]
    BY <1>1, <1>3 DEF Contents
  <2>8. Contents[k + amount] = buf[c % S]
    BY <1>2 DEF Contents
  <2>9. QED  BY <2>6, <2>7, <2>8
<1>5. QED  BY <1>1, <1>4

\* A read that stays short of the end of the storage returns the bytes at
\* the front; one that runs past it need not (line 172).
LEMMA ReadReturns ==
  ASSUME TypeOK, NEW amount \in ReadLens, Read(amount), ~ReadWraps(amount),
         NEW k \in 1 .. amount
  PROVE  Load(amount)[k] = Contents[k]
<1>1. /\ BufferSize \in Nat \ {0} /\ amount \in Nat /\ k \in 1 .. TargetSize
      /\ read_ptr \in 0 .. BufferSize - 1 /\ k \in 1 .. AvailableData
      /\ amount <= BufferSize - read_ptr
  BY RingAssumption, AvailableBound, SMTT(30) DEF Read, CanRead, TypeOK,
     Cells, ReadWraps
<1> DEFINE a == read_ptr + k - 1
<1>2. a \in Nat /\ a < BufferSize
  BY <1>1
<1>3. a % BufferSize = a
  <2> HIDE DEF a
  <2>1. QED  BY <1>1, <1>2, ModBelow
<1>4. Load(amount)[k] = buf[a]
  BY <1>1 DEF Load
<1>5. Contents[k] = buf[a % BufferSize]
  BY <1>1 DEF Contents
<1>6. QED  BY <1>3, <1>4, <1>5

-----------------------------------------------------------------------------
(* Nothing is delivered out of order.                                      *)

\* Contents is indexed from 1 to the amount of unread data.
LEMMA ContentsDomain == DOMAIN Contents = 1 .. AvailableData
  BY DEF Contents

\* The invariant with the pointers hidden: only the unread bytes, by their
\* distance from the reader, and the bytes delivered.
LEMMA OrderView ==
  OrderInv <=>
    /\ \A k \in 1 .. AvailableData : Contents[k] \in 1 .. sent
    /\ \A i, j \in 1 .. AvailableData : i < j => Contents[i] < Contents[j]
    /\ ~torn =>
         /\ \A i \in DOMAIN delivered, k \in 1 .. AvailableData :
              delivered[i] < Contents[k]
         /\ \A i, j \in DOMAIN delivered : i < j => delivered[i] < delivered[j]
         /\ \A i \in DOMAIN delivered : delivered[i] \in 1 .. sent
  BY ContentsDomain
     DEF OrderInv, UnreadInOrder, DeliveredBeforeUnread, OrderedUntilTorn,
         Increasing

\* An offer that leaves the unread bytes alone.
LEMMA OrderKept ==
  ASSUME TypeOK, OrderInv, sent' \in Nat, sent <= sent',
         AvailableData' = AvailableData, Contents' = Contents,
         delivered' = delivered, torn' = torn
  PROVE  OrderInv'
  BY OrderView DEF OrderInv, UnreadInOrder, DeliveredBeforeUnread,
                   OrderedUntilTorn, Increasing, TypeOK

\* An accepted write.
LEMMA OrderWrite ==
  ASSUME TypeOK, OrderInv, NEW len \in WriteLens, WriteAccepted(len)
  PROVE  OrderInv'
<1>1. /\ sent \in Nat /\ len \in Nat /\ sent' = sent + len
      /\ delivered' = delivered /\ torn' = torn /\ AvailableData \in Nat
      /\ delivered \in Seq(Nat)
  BY AvailableBound, RingAssumption DEF WriteAccepted, Offer, TypeOK
<1>2. CASE AvailableData + len = BufferSize
  <2>1. AvailableData' = 0
    BY <1>2, WriteBrims
  <2>2. \A i \in DOMAIN delivered : delivered[i] \in Nat
    BY <1>1
  <2>3. QED
    BY <1>1, <2>1, <2>2, OrderView
       DEF OrderInv, UnreadInOrder, DeliveredBeforeUnread, OrderedUntilTorn,
           Increasing, Contents
<1>3. CASE AvailableData + len # BufferSize
  <2> DEFINE A == AvailableData
             old == Contents
             new == Contents'
  <2>1. AvailableData' = A + len
    BY <1>3, WriteAppends
  <2>2. \A k \in 1 .. A + len :
          new[k] = IF k <= A THEN old[k] ELSE sent + (k - A)
    BY <1>3, WriteAppends
  <2>3. \A k \in 1 .. A : old[k] \in 1 .. sent
    BY OrderView
  <2>4. \A i, j \in 1 .. A : i < j => old[i] < old[j]
    BY OrderView
  <2>5. ~torn => /\ \A i \in DOMAIN delivered, k \in 1 .. A :
                     delivered[i] < old[k]
                 /\ \A i, j \in DOMAIN delivered :
                     i < j => delivered[i] < delivered[j]
                 /\ \A i \in DOMAIN delivered : delivered[i] \in 1 .. sent
    BY OrderView
  <2>6. DOMAIN new = 1 .. A + len
    BY <2>1 DEF Contents
  <2> HIDE DEF A, old, new
  <2>7. A \in Nat
    BY <1>1 DEF A
  <2>8. \A k \in 1 .. A + len : new[k] \in 1 .. sent + len
    BY <1>1, <2>2, <2>3, <2>7
  <2>9. \A i, j \in 1 .. A + len : i < j => new[i] < new[j]
    BY <1>1, <2>2, <2>3, <2>4, <2>7
  <2>10. ASSUME ~torn
         PROVE  /\ \A i \in DOMAIN delivered, k \in 1 .. A + len :
                     delivered[i] < new[k]
                /\ \A i \in DOMAIN delivered :
                     delivered[i] \in 1 .. sent + len
    <3>1. ASSUME NEW i \in DOMAIN delivered
          PROVE  delivered[i] \in 1 .. sent
      BY <2>5, <2>10
    <3>2. ASSUME NEW i \in DOMAIN delivered, NEW k \in 1 .. A + len
          PROVE  delivered[i] < new[k]
      <4>1. CASE k <= A
        BY <2>2, <2>5, <2>7, <2>10, <4>1
      <4>2. CASE A < k
        BY <1>1, <2>2, <2>7, <3>1, <4>2
      <4>3. QED  BY <1>1, <2>7, <4>1, <4>2
    <3>3. QED  BY <1>1, <3>1, <3>2
  <2>11. UnreadInOrder'
    BY <1>1, <2>1, <2>6, <2>8, <2>9 DEF UnreadInOrder, Increasing, new
  <2>12. DeliveredBeforeUnread' /\ OrderedUntilTorn'
    BY <1>1, <2>1, <2>5, <2>10
       DEF DeliveredBeforeUnread, OrderedUntilTorn, Increasing, new
  <2>13. QED  BY <2>11, <2>12 DEF OrderInv
<1>4. QED  BY <1>2, <1>3

\* A read: what was at the front of the unread bytes is now at the end of
\* the delivered ones.
LEMMA OrderRead ==
  ASSUME TypeOK, OrderInv, NEW amount \in ReadLens, Read(amount)
  PROVE  OrderInv'
<1> DEFINE A == AvailableData
           old == Contents
           new == Contents'
           block == [k \in 1 .. amount |-> Load(amount)[k]]
<1>1. /\ sent \in Nat /\ sent' = sent /\ A \in Nat /\ amount \in Nat
      /\ amount <= A /\ CanRead(amount)
      /\ delivered \in Seq(Nat) /\ delivered' = delivered \o block
      /\ torn' = (torn \/ ReadWraps(amount))
  BY AvailableBound, RingAssumption DEF Read, CanRead, TypeOK
<1>sizes. sent \in Nat /\ A \in Nat /\ amount \in Nat /\ amount <= A
  BY <1>1
<1>2. AvailableData' = A - amount
  BY ReadDrops
<1>3. \A k \in 1 .. A - amount : new[k] = old[k + amount]
  BY ReadDrops
<1>4. \A k \in 1 .. A : old[k] \in 1 .. sent
  BY OrderView
<1>5. \A i, j \in 1 .. A : i < j => old[i] < old[j]
  BY OrderView
<1>6. DOMAIN new = 1 .. A - amount
  BY <1>2 DEF Contents
<1>7. block \in Seq(Nat) /\ Len(block) = amount
  BY <1>1, BlockRead
<1>8. UnreadInOrder'
  <2> HIDE DEF A, old, new
  <2>1. \A k \in 1 .. A - amount : new[k] \in 1 .. sent
    BY <1>sizes, <1>3, <1>4
  <2>2. \A i, j \in 1 .. A - amount : i < j => new[i] < new[j]
    BY <1>sizes, <1>3, <1>5
  <2>3. QED  BY <1>1, <1>2, <1>6, <2>1, <2>2 DEF UnreadInOrder, Increasing, new
<1>9. ASSUME ~torn'
      PROVE  /\ \A i \in DOMAIN delivered', k \in 1 .. A - amount :
                  delivered'[i] < new[k]
             /\ \A i, j \in DOMAIN delivered' :
                  i < j => delivered'[i] < delivered'[j]
             /\ \A i \in DOMAIN delivered' : delivered'[i] \in 1 .. sent
  <2>1. ~torn /\ ~ReadWraps(amount)
    BY <1>1, <1>9
  <2>2. /\ \A i \in DOMAIN delivered, k \in 1 .. A : delivered[i] < old[k]
        /\ \A i, j \in DOMAIN delivered : i < j => delivered[i] < delivered[j]
        /\ \A i \in DOMAIN delivered : delivered[i] \in 1 .. sent
    BY <2>1, OrderView
  <2>3. \A k \in 1 .. amount : block[k] = old[k]
    BY <2>1, ReadReturns
  <2> DEFINE n == Len(delivered)
  <2>4. n \in Nat /\ DOMAIN delivered = 1 .. n
    BY <1>1
  <2>5. DOMAIN delivered' = 1 .. n + amount
    <3> HIDE DEF block
    <3>1. QED  BY <1>1, <1>7
  <2>6. \A i \in 1 .. n + amount :
          delivered'[i] = IF i <= n THEN delivered[i] ELSE block[i - n]
    <3> HIDE DEF block
    <3>1. QED  BY <1>1, <1>7
  <2> HIDE DEF block, n, A, old, new
  <2>7. n \in Nat
    BY <2>4
  <2>8. \A i \in 1 .. n + amount :
          delivered'[i] = IF i <= n THEN delivered[i] ELSE old[i - n]
    BY <1>sizes, <2>3, <2>6, <2>7
  <2>9. ASSUME NEW i \in 1 .. n + amount
        PROVE  /\ delivered'[i] \in 1 .. sent
               /\ \A k \in 1 .. A - amount : delivered'[i] < new[k]
               /\ \A j \in 1 .. n + amount :
                    i < j => delivered'[i] < delivered'[j]
    <3>1. CASE i <= n
      <4>1. i \in DOMAIN delivered /\ delivered'[i] = delivered[i]
        BY <2>4, <2>8, <3>1
      <4>2. \A k \in 1 .. A : delivered[i] < old[k]
        BY <2>2, <4>1
      <4>3. \A k \in 1 .. A - amount : delivered[i] < new[k]
        BY <1>sizes, <1>3, <4>2
      <4>4. ASSUME NEW j \in 1 .. n + amount, i < j
            PROVE  delivered[i] < delivered'[j]
        <5>1. CASE j <= n
          <6>1. j \in DOMAIN delivered /\ delivered'[j] = delivered[j]
            BY <2>4, <2>8, <5>1
          <6>2. QED  BY <2>2, <4>1, <4>4, <6>1
        <5>2. CASE n < j
          <6>1. j - n \in 1 .. A /\ delivered'[j] = old[j - n]
            BY <1>sizes, <2>7, <2>8, <5>2
          <6>2. QED  BY <4>2, <6>1
        <5>3. QED  BY <1>sizes, <2>7, <5>1, <5>2
      <4>5. QED  BY <2>2, <4>1, <4>3, <4>4
    <3>2. CASE n < i
      <4>1. i - n \in 1 .. amount /\ delivered'[i] = old[i - n]
        BY <1>sizes, <2>7, <2>8, <3>2
      <4>2. \A k \in 1 .. A - amount : old[i - n] < new[k]
        BY <1>sizes, <1>3, <1>5, <4>1
      <4>3. ASSUME NEW j \in 1 .. n + amount, i < j
            PROVE  old[i - n] < delivered'[j]
        <5>1. j - n \in 1 .. A /\ i - n < j - n /\ delivered'[j] = old[j - n]
          BY <1>sizes, <2>7, <2>8, <3>2, <4>3
        <5>2. QED  BY <1>sizes, <1>5, <4>1, <5>1
      <4>4. QED  BY <1>sizes, <1>4, <4>1, <4>2, <4>3
    <3>3. QED  BY <1>sizes, <2>7, <3>1, <3>2
  <2>10. /\ \A i \in 1 .. n + amount : delivered'[i] \in 1 .. sent
         /\ \A i \in 1 .. n + amount, k \in 1 .. A - amount :
              delivered'[i] < new[k]
         /\ \A i, j \in 1 .. n + amount :
              i < j => delivered'[i] < delivered'[j]
    BY <2>9
  <2>11. QED  BY <2>5, <2>10
<1>10. DeliveredBeforeUnread' /\ OrderedUntilTorn'
  BY <1>1, <1>2, <1>9 DEF DeliveredBeforeUnread, OrderedUntilTorn, Increasing
<1>11. QED  BY <1>8, <1>10 DEF OrderInv

\* One step keeps the order.
LEMMA OrderStep ==
  ASSUME TypeOK, OrderInv, [Next]_vars
  PROVE  OrderInv'
<1>1. ASSUME NEW len \in WriteLens, WriteUnfit(len)
      PROVE  OrderInv'
  <2>1. /\ sent \in Nat /\ len \in Nat /\ sent' = sent + len
        /\ delivered' = delivered /\ torn' = torn
        /\ AvailableData' = AvailableData /\ Contents' = Contents
    BY <1>1, RingAssumption
       DEF WriteUnfit, Offer, ringVars, AvailableData, Contents, TypeOK
  <2>2. QED  BY <2>1, OrderKept
<1>2. ASSUME NEW len \in WriteLens, WriteRefused(len)
      PROVE  OrderInv'
  <2>1. /\ sent \in Nat /\ len \in Nat /\ sent' = sent + len
        /\ delivered' = delivered /\ torn' = torn
    BY <1>2, RingAssumption DEF WriteRefused, Offer, TypeOK
  <2>2. AvailableData' = AvailableData /\ Contents' = Contents
    BY <1>2, RefusalKeeps
  <2>3. QED  BY <2>1, <2>2, OrderKept
<1>3. ASSUME NEW len \in WriteLens, WriteAccepted(len)
      PROVE  OrderInv'
  BY <1>3, OrderWrite
<1>4. ASSUME NEW amount \in ReadLens, Read(amount)
      PROVE  OrderInv'
  BY <1>4, OrderRead
<1>5. CASE UNCHANGED vars
  BY <1>5, ZenonT(40) DEF vars, OrderInv, UnreadInOrder, DeliveredBeforeUnread,
     OrderedUntilTorn, Increasing, Contents, AvailableData
<1>6. QED
  BY <1>1, <1>2, <1>3, <1>4, <1>5 DEF Next, Write

\* The ring starts with nothing unread and nothing delivered.
LEMMA OrderInit ==
  ASSUME Init
  PROVE  OrderInv
<1>1. AvailableData = 0 /\ delivered = <<>>
  BY DEF Init, AvailableData
<1>2. QED  BY <1>1, OrderView

\* The reader gets the stream's bytes in the stream's order, none twice,
\* until a read runs past the end of the storage.
THEOREM InOrder == Spec => []OrderedUntilTorn
<1>1. Init => OrderInv
  BY OrderInit
<1>2. TypeOK /\ OrderInv /\ [Next]_vars => OrderInv'
  BY OrderStep
<1>3. OrderInv => OrderedUntilTorn
  BY DEF OrderInv
<1>4. QED  BY <1>1, <1>2, <1>3, TypeCorrect, PTL DEF Spec

-----------------------------------------------------------------------------
(* The ring is the queue of module ByteQueue.                              *)

\* The unread bytes are a sequence as long as the amount of unread data.
LEMMA ContentsType ==
  ASSUME TypeOK
  PROVE  Contents \in Seq(Nat) /\ Len(Contents) = AvailableData
<1>1. AvailableData \in Nat
  BY AvailableBound
<1>2. ASSUME NEW k \in 1 .. AvailableData
      PROVE  buf[(read_ptr + k - 1) % BufferSize] \in Nat
  <2>1. BufferSize \in Nat \ {0} /\ read_ptr + k - 1 \in Nat
    BY <1>1, RingAssumption DEF TypeOK, Cells
  <2> DEFINE a == read_ptr + k - 1
  <2>2. a % BufferSize \in Cells
    <3> HIDE DEF a
    <3>1. QED  BY <2>1, ModInCells DEF a, Cells
  <2>3. QED  BY <2>2 DEF TypeOK
<1>3. Contents \in [1 .. AvailableData -> Nat]
  BY <1>2 DEF Contents
<1>4. QED
  BY <1>1, <1>3, ContentsDomain

\* Sequences that agree on every index are the same.
LEMMA SameSequence ==
  ASSUME NEW s, NEW t, s \in Seq(Nat), t \in Seq(Nat), Len(s) = Len(t),
         \A k \in 1 .. Len(s) : s[k] = t[k]
  PROVE  s = t
  BY SeqEqual

\* What is left of a sequence when its first n elements are taken.
LEMMA DropFront ==
  ASSUME NEW s, s \in Seq(Nat), NEW n, n \in 0 .. Len(s)
  PROVE  /\ SubSeq(s, n + 1, Len(s)) \in Seq(Nat)
         /\ Len(SubSeq(s, n + 1, Len(s))) = Len(s) - n
         /\ \A k \in 1 .. Len(s) - n : SubSeq(s, n + 1, Len(s))[k] = s[n + k]
  OBVIOUS

\* A write the ring takes without being filled is a Put of its bytes.
LEMMA PutStep ==
  ASSUME TypeOK, NEW len \in WriteLens, WriteAccepted(len),
         AvailableData + len # BufferSize
  PROVE  Q!Put(len)
<1> DEFINE old == Contents
           new == Contents'
           A == AvailableData
           block == [i \in 1 .. len |-> sent + i]
<1>1. /\ A \in Nat /\ len \in Nat /\ A + len < BufferSize
      /\ len % PacketSize = 0 /\ sent \in Nat
  BY AvailableBound, RingAssumption DEF WriteAccepted, TypeOK
<1>2. old \in Seq(Nat) /\ Len(old) = A
  BY ContentsType
<1>3. \A k \in 1 .. A + len :
        new[k] = IF k <= A THEN old[k] ELSE sent + (k - A)
  BY WriteAppends
<1>4. new \in Seq(Nat) /\ Len(new) = A + len
  <2>1. new = [k \in 1 .. A + len |-> buf'[(read_ptr' + k - 1) % BufferSize]]
    BY WriteAppends DEF Contents
  <2> HIDE DEF old, new, A
  <2>2. \A k \in 1 .. A + len : new[k] \in Nat
    BY <1>1, <1>2, <1>3
  <2>3. new \in [1 .. A + len -> Nat]
    BY <2>1, <2>2
  <2>4. QED  BY <1>1, <2>3
<1>5. /\ block \in Seq(Nat) /\ Len(block) = len
      /\ \A k \in 1 .. len : block[k] = sent + k
  BY <1>1
<1> HIDE DEF old, new, A, block
<1>6. new = old \o block
  <2>0. block \in Seq(Nat) /\ Len(block) = len
    BY <1>5
  <2>1. old \o block \in Seq(Nat) /\ Len(old \o block) = A + len
    BY <1>1, <1>2, <2>0
  <2>2. \A k \in 1 .. A + len :
          (old \o block)[k] = IF k <= A THEN old[k] ELSE block[k - A]
    BY <1>1, <1>2, <2>0, ConcatProperties
  <2> DEFINE both == old \o block
  <2> HIDE DEF both
  <2>3. ASSUME NEW k \in 1 .. A + len
        PROVE  new[k] = both[k]
    <3>1. /\ both[k] = IF k <= A THEN old[k] ELSE block[k - A]
          /\ new[k] = IF k <= A THEN old[k] ELSE sent + (k - A)
      BY <1>3, <2>2 DEF both
    <3>2. CASE A < k
      <4>1. k - A \in 1 .. len
        BY <1>1, <3>2
      <4>2. block[k - A] = sent + (k - A)
        BY <1>5, <4>1
      <4>3. QED  BY <3>1, <4>2
    <3>3. QED  BY <1>1, <3>1, <3>2
  <2>4. QED  BY <1>4, <2>1, <2>3, SameSequence DEF both
<1>7. Contents' = Contents \o Q!Block(len)
  BY <1>6 DEF old, new, block, Q!Block
<1>8. Len(Contents) = AvailableData
  BY <1>2 DEF old, A
<1>9. Q!Fits(len) /\ Len(Contents) + len # BufferSize
  <2>1. AvailableData + len <= BufferSize /\ AvailableData + len # BufferSize
    BY <1>1, RingAssumption DEF A
  <2>2. QED  BY <1>1, <1>8, <2>1 DEF Q!Fits
<1>10. QED
  BY <1>7, <1>9 DEF Q!Put

\* A read is a Take from the front.
LEMMA TakeStep ==
  ASSUME TypeOK, NEW amount \in ReadLens, Read(amount)
  PROVE  Q!Take(amount)
<1> DEFINE old == Contents
           new == Contents'
           A == AvailableData
           rest == SubSeq(old, amount + 1, Len(old))
<1>1. A \in Nat /\ amount \in Nat /\ amount <= A
  BY AvailableBound, RingAssumption DEF Read, CanRead
<1>2. old \in Seq(Nat) /\ Len(old) = A
  BY ContentsType
<1>3. new \in Seq(Nat) /\ Len(new) = A - amount
  <2>1. new = [k \in 1 .. A - amount |->
                  buf'[(read_ptr' + k - 1) % BufferSize]]
    BY ReadDrops DEF Contents
  <2>2. \A k \in 1 .. A - amount : new[k] = old[k + amount]
    BY ReadDrops
  <2> HIDE DEF old, new, A
  <2>3. \A k \in 1 .. A - amount : new[k] \in Nat
    BY <1>1, <1>2, <2>2
  <2>4. new \in [1 .. A - amount -> Nat]
    BY <2>1, <2>3
  <2>5. QED  BY <1>1, <2>4
<1>4. \A k \in 1 .. A - amount : new[k] = old[k + amount]
  BY ReadDrops
<1> HIDE DEF old, new, A
<1>5. /\ rest \in Seq(Nat) /\ Len(rest) = A - amount
      /\ \A k \in 1 .. A - amount : rest[k] = old[amount + k]
  <2>1. amount \in 0 .. Len(old)
    BY <1>1, <1>2
  <2>2. QED  BY <1>2, <2>1, DropFront
<1> HIDE DEF rest
<1>6. new = rest
  <2>1. \A k \in 1 .. A - amount : new[k] = rest[k]
    BY <1>1, <1>4, <1>5
  <2>2. QED  BY <1>3, <1>5, <2>1, SameSequence
<1>7. QED  BY <1>1, <1>2, <1>6 DEF Q!Take, Read, old, new, rest

\* Every step of the ring is a step of the queue or leaves it alone.
LEMMA QueueStep ==
  ASSUME TypeOK, [Next]_vars
  PROVE  [Q!Next]_Q!vars
<1>0. Len(Contents) = AvailableData /\ AvailableData \in Nat
  BY ContentsType, AvailableBound
<1>1. ASSUME NEW len \in WriteLens, WriteUnfit(len)
      PROVE  Q!Offer(len)
  <2>1. Contents' = Contents
    BY <1>1 DEF WriteUnfit, ringVars, Contents, AvailableData
  <2>2. QED
    BY <1>1, <2>1 DEF WriteUnfit, Offer, Q!Offer, Q!Refuse, Q!Fits
<1>2. ASSUME NEW len \in WriteLens, WriteRefused(len)
      PROVE  Q!Offer(len)
  <2>1. Contents' = Contents
    BY <1>2, RefusalKeeps
  <2>2. ~(AvailableData + len <= BufferSize)
    BY <1>0, <1>2, RingAssumption DEF WriteRefused
  <2>3. QED
    BY <1>0, <1>2, <2>1, <2>2
       DEF WriteRefused, Offer, Q!Offer, Q!Refuse, Q!Fits
<1>3. ASSUME NEW len \in WriteLens, WriteAccepted(len)
      PROVE  Q!Offer(len)
  <2>1. CASE AvailableData + len # BufferSize
    <3>1. Q!Put(len)
      BY <1>3, <2>1, PutStep
    <3>2. QED  BY <1>3, <3>1 DEF WriteAccepted, Offer, Q!Offer
  <2>2. CASE AvailableData + len = BufferSize
    <3>1. Contents' = <<>>
      <4>1. AvailableData' = 0
        BY <1>3, <2>2, WriteBrims
      <4>2. QED  BY <4>1 DEF Contents
    <3>2. len % PacketSize = 0 /\ AvailableData + len <= BufferSize
      BY <1>0, <1>3, <2>2, RingAssumption DEF WriteAccepted
    <3>3. Q!Brim(len)
      BY <1>0, <2>2, <3>1, <3>2 DEF Q!Brim, Q!Fits
    <3>4. QED  BY <1>3, <3>3 DEF WriteAccepted, Offer, Q!Offer
  <2>3. QED  BY <2>1, <2>2
<1>4. ASSUME NEW amount \in ReadLens, Read(amount)
      PROVE  Q!Take(amount)
  BY <1>4, TakeStep
<1>5. CASE UNCHANGED vars
  BY <1>5 DEF vars, ringVars, Contents, AvailableData, Q!vars
<1>6. QED
  BY <1>1, <1>2, <1>3, <1>4, <1>5 DEF Next, Write, Q!Next

\* To its two users the ring is a bounded queue of bytes: blocks go in whole
\* and behind everything unread or not at all, reads take from the front,
\* and a block that fills it to the brim empties it.
THEOREM Refinement == Spec => ImplementsByteQueue
<1>1. Init => Q!Init
  BY DEF Init, Q!Init, Contents, AvailableData
<1>2. TypeOK /\ [Next]_vars => [Q!Next]_Q!vars
  BY QueueStep
<1>3. QED
  BY <1>1, <1>2, TypeCorrect, PTL DEF Spec, ImplementsByteQueue, Q!Spec
=============================================================================
