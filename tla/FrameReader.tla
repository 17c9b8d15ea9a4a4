----------------------------- MODULE FrameReader -----------------------------
(***************************************************************************)
(* How deliver_websocket_frame of istb_mongoose.c takes frames out of      *)
(* local_iobuf as their bytes come in, and the format it shares with       *)
(* mg_websocket_write.  MgConnection has the connection around this, where *)
(* a frame is one token.                                                   *)
(*                                                                         *)
(* A byte is a number, one of the four bytes of a mask, or a byte of a     *)
(* payload, which says which byte of the mask it is combined with (0: of   *)
(* none).  Half is the top bit of a byte.  A frame is no longer than an    *)
(* int can say, so what the code adds up in one is its length: of the      *)
(* eight bytes of a long one the first four are 0.                         *)
(***************************************************************************)
EXTENDS Integers, Sequences

CONSTANTS
  Half,          \* 2^7
  PayloadLens,   \* lengths of the frames a client sends
  MaxFrames,     \* bound: frames sent
  PieceLens      \* how many bytes one recv returns

ASSUME FrameAssumption ==
  /\ Half \in Nat \ {0, 1, 2}
  /\ PayloadLens \subseteq 0 .. (8 * Half * Half * Half * Half) - 15
  /\ MaxFrames \in Nat
  /\ PieceLens \subseteq Nat \ {0}

VARIABLES
  frames,        \* what the client sends, each with a length and a mask or not
  arrived,       \* bytes received
  taken,         \* bytes removed from local_iobuf with their frames
  delivered      \* the frames the handler was called for

frameVars == <<frames, arrived, taken, delivered>>

Byte == 2 * Half
In16Bits == Half - 2       \* 126: two bytes of length follow
In64Bits == Half - 1       \* 127: eight bytes of length follow

Number(n) == [k |-> "number", v |-> n, mask |-> 0]
MaskByte(j) == [k |-> "mask", v |-> j, mask |-> 0]
DataByte(i) == [k |-> "data", v |-> i, mask |-> 0]

-----------------------------------------------------------------------------
(* The format, as mg_websocket_write has it; a client may add a mask.      *)

Digit(n) == n % Byte
Shifted(n) == n \div Byte

LengthField(len) ==
  LET shifted == Shifted(len)
      twice == Shifted(shifted)
  IN  IF len < In16Bits THEN <<len>>
      ELSE IF len < Byte * Byte THEN <<In16Bits, Digit(shifted), Digit(len)>>
      ELSE <<In64Bits, 0, 0, 0, 0, Digit(Shifted(twice)), Digit(twice),
             Digit(shifted), Digit(len)>>

Encoded(frame) ==
  LET field == LengthField(frame.len)
      head == [field EXCEPT ![1] = @ + IF frame.masked THEN Half ELSE 0]
      key == IF frame.masked THEN [j \in 1 .. 4 |-> MaskByte(j)] ELSE <<>>
      data == [i \in 1 .. frame.len |->
                 [DataByte(i) EXCEPT
                    !.mask = IF frame.masked THEN ((i - 1) % 4) + 1 ELSE 0]]
  IN  <<Number(0)>> \o [i \in DOMAIN head |-> Number(head[i])] \o key \o data

\* The first n frames as they come over the connection.
Wire(n) ==
  LET upto[i \in 0 .. n] ==
        IF i = 0 THEN <<>> ELSE upto[i - 1] \o Encoded(frames[i])
  IN  upto[n]

FrameInit ==
  /\ frames \in [1 .. MaxFrames -> [len : PayloadLens, masked : BOOLEAN]]
  /\ arrived = 0
  /\ taken = 0
  /\ delivered = <<>>

-----------------------------------------------------------------------------
(* deliver_websocket_frame.                                                *)

Buffer == SubSeq(Wire(MaxFrames), taken + 1, arrived)

Frame(header, data, mask) == [header |-> header, data |-> data, mask |-> mask]

\* Mutant of Layout: 126 and 127 are taken for lengths.
LayoutInline(b) ==
  LET len == b[2].v % Half
      mask == IF b[2].v >= Half THEN 4 ELSE 0
  IN  IF Len(b) < 2 THEN Frame(0, 0, 0) ELSE Frame(2 + mask, len, mask)

\* Where header and data of the first frame in b lie, as far as b tells.
Layout(b) ==
  LET len == b[2].v % Half
      mask == IF b[2].v >= Half THEN 4 ELSE 0
  IN  IF Len(b) < 2 THEN Frame(0, 0, 0)
      ELSE IF len < In16Bits /\ Len(b) >= mask THEN Frame(2 + mask, len, mask)
      ELSE IF len = In16Bits /\ Len(b) >= 4 + mask
      THEN Frame(4 + mask, b[3].v * Byte + b[4].v, mask)
      ELSE IF Len(b) >= 10 + mask
      THEN Frame(10 + mask,
                 ((b[7].v * Byte + b[8].v) * Byte + b[9].v) * Byte + b[10].v,
                 mask)
      ELSE Frame(0, 0, mask)

FrameLen(frame) == frame.header + frame.data
Buffered == FrameLen(Layout(Buffer)) \in 1 .. Len(Buffer)

\* A byte combined once more with a byte of the mask.
Unmasked(byte, key) ==
  [byte EXCEPT !.mask = IF key.k = "mask" /\ @ = key.v THEN 0 ELSE -1]

\* The payload with the mask taken off.
Content(b, frame) ==
  [i \in 1 .. frame.data |->
     IF frame.mask = 0 THEN b[frame.header + i]
     ELSE Unmasked(b[frame.header + i],
                   b[frame.header - frame.mask + ((i - 1) % 4) + 1])]

\* The handler is called, the frame removed; and again while there is one.
DeliverFrame ==
  /\ Buffered
  /\ LET frame == Layout(Buffer)
         content == Content(Buffer, frame)
     IN  /\ delivered' = Append(delivered,
              [len |-> frame.data,
               intact |-> \A i \in DOMAIN content : content[i] = DataByte(i)])
         /\ taken' = taken + FrameLen(frame)
  /\ UNCHANGED <<frames, arrived>>

\* read_from_client, when every frame that was whole has been delivered.
ReceivePiece ==
  /\ ~Buffered
  /\ \E n \in PieceLens : arrived' = arrived + n
  /\ arrived' <= Len(Wire(MaxFrames))
  /\ UNCHANGED <<frames, taken, delivered>>

FrameNext == DeliverFrame \/ ReceivePiece
FrameSpec == FrameInit /\ [][FrameNext]_frameVars

-----------------------------------------------------------------------------
(* Properties.                                                             *)

FrameTypeOK ==
  /\ frames \in Seq([len : Nat, masked : BOOLEAN])
  /\ taken \in Nat /\ arrived \in Nat /\ taken <= arrived
  /\ delivered \in Seq([len : Nat, intact : BOOLEAN])

\* However the bytes of frames are cut, across a length, a mask or a payload,
\* and with every way of writing the length: the handler is called for each
\* frame once, in order, with its unmasked payload, as soon as it is whole.
FramesIntact ==
  LET n == Len(delivered) IN
  /\ n <= MaxFrames /\ taken = Len(Wire(n))
  /\ \A k \in 1 .. n : delivered[k] = [len |-> frames[k].len, intact |-> TRUE]
  /\ ~Buffered /\ n < MaxFrames => arrived < Len(Wire(n + 1))
=============================================================================
