---------------------------- MODULE RequestReader ----------------------------
(***************************************************************************)
(* How istb_mongoose.c takes a request out of what a client sends: each    *)
(* recv appends a piece to local_iobuf, which spool makes grow, and        *)
(* process_request looks again whether a whole header is there.            *)
(*                                                                         *)
(* A character is one of five kinds: "g" is a complete request line (or    *)
(* its first character: what follows it does not matter here), "p" any     *)
(* other printable, "r" and "n" the line ends, "x" a control character.    *)
(* MgConnection has the life of the connection around this.                *)
(***************************************************************************)
EXTENDS Integers, Sequences

CONSTANTS
  Chars,           \* kinds of characters clients send, some of AllChars
  MaxSent,         \* bound: characters sent
  RecvSize,        \* IOBUF_SIZE: the most one recv returns
  MaxRequestSize,  \* MAX_REQUEST_SIZE
  ReallocMayFail   \* may realloc return a null pointer?

AllChars == {"g", "p", "r", "n", "x"}

ASSUME ReaderAssumption ==
  /\ Chars \subseteq AllChars
  /\ MaxSent \in Nat
  /\ RecvSize \in Nat \ {0}
  /\ MaxRequestSize \in Nat
  /\ ReallocMayFail \in BOOLEAN

VARIABLES
  io, size,      \* local_iobuf: its contents and its size
  request,       \* conn->request
  verdict,       \* what process_request makes of it
  sent,          \* history: all that recv returned
  lost           \* history: spool could not keep a piece

readerVars == <<io, size, request, verdict, sent, lost>>

ReaderInit ==
  /\ io = <<>>
  /\ size = 0
  /\ request = <<>>
  /\ verdict = "none"
  /\ sent = <<>>
  /\ lost = FALSE

-----------------------------------------------------------------------------
\* The size spool reallocates to: (int) (new_len * 1.2).
Enlarged(len) == (len * 6) \div 5

\* get_request_len: the loop over i, one character after the other.
RequestLen(s) ==
  LET at(i) == IF i <= Len(s) THEN s[i] ELSE "end"
      from[i \in 1 .. Len(s) + 1] ==
        IF i > Len(s) THEN 0
        ELSE IF s[i] = "x" THEN -1
        ELSE IF s[i] = "n" /\ at(i + 1) = "n" THEN i + 1
        ELSE IF s[i] = "n" /\ at(i + 1) = "r" /\ at(i + 2) = "n" THEN i + 2
        ELSE from[i + 1]
  IN  from[1]

\* parse_http_message, up to its result: leading white space is skipped, then
\* a request line must come.
IsRequest(header) ==
  \E i \in DOMAIN header :
     header[i] = "g" /\ \A j \in 1 .. i - 1 : header[j] \in {"r", "n"}

\* The decision of process_request on what is in the buffer.
VerdictOn(s) ==
  LET n == RequestLen(s) IN
  IF n < 0 THEN "bad"
  ELSE IF n > 0 THEN IF IsRequest(SubSeq(s, 1, n)) THEN "request" ELSE "bad"
  ELSE IF Len(s) > MaxRequestSize THEN "too large" ELSE "none"

\* Mutant of Process: the header is left in the buffer.
ProcessKeep(s) ==
  LET n == RequestLen(s) IN
  /\ verdict' = VerdictOn(s)
  /\ request' = IF n > 0 THEN SubSeq(s, 1, n) ELSE <<>>
  /\ io' = s

\* process_request on the buffer s: a header is moved out of it.
Process(s) ==
  LET n == RequestLen(s) IN
  /\ verdict' = VerdictOn(s)
  /\ request' = IF n > 0 THEN SubSeq(s, 1, n) ELSE <<>>
  /\ io' = IF n > 0 THEN SubSeq(s, n + 1, Len(s)) ELSE s

\* Mutant of SpoolSize: the size is computed from the old length.
SpoolSizeOld(len) ==
  IF Len(io) + len < size THEN size ELSE Enlarged(Len(io))

\* The size of the buffer after spool has put len characters into it.
SpoolSize(len) ==
  IF Len(io) + len < size THEN size ELSE Enlarged(Len(io) + len)

\* read_from_client: recv, spool, process_request.
Receive ==
  /\ verdict = "none"
  /\ \E len \in 1 .. RecvSize :
       /\ Len(sent) + len <= MaxSent
       /\ \E piece \in [1 .. len -> Chars] :
            /\ sent' = sent \o piece
            /\ size' = SpoolSize(len)
            /\ Process(io \o piece)
  /\ UNCHANGED lost

\* realloc fails: spool drops the piece, and nobody looks at its result.
ReceiveLost ==
  /\ ReallocMayFail
  /\ verdict = "none"
  /\ \E len \in 1 .. RecvSize :
       /\ Len(sent) + len <= MaxSent
       /\ Len(io) + len >= size
       /\ \E piece \in [1 .. len -> Chars] : sent' = sent \o piece
  /\ lost' = TRUE
  /\ Process(io)
  /\ UNCHANGED size

ReaderNext == Receive \/ ReceiveLost
ReaderSpec == ReaderInit /\ [][ReaderNext]_readerVars

-----------------------------------------------------------------------------
(* Properties.                                                             *)

\* What is in the iobuf fits into it (the assertions of spool).
SpoolFits == Len(io) <= size

ReaderTypeOK ==
  /\ io \in Seq(AllChars) /\ size \in Nat /\ SpoolFits
  /\ request \in Seq(AllChars)
  /\ verdict \in {"none", "request", "bad", "too large"}
  /\ sent \in Seq(AllChars) /\ lost \in BOOLEAN

\* Where a header ends in s: after the first empty line.
HeaderEnds(s) ==
  {i \in DOMAIN s : s[i] = "n" /\ \/ i > 1 /\ s[i - 1] = "n"
                                  \/ i > 2 /\ s[i - 1] = "r" /\ s[i - 2] = "n"}
Before(s, n) == \A i \in 1 .. n : s[i] # "x"

\* However the client's bytes are cut into pieces, it is the bytes that
\* decide: a header ends with the first empty line and is taken out whole,
\* the rest stays in order for what comes after it, a control character
\* before that end refuses it, and so does a length beyond the limit.
PiecesDoNotMatter ==
  ~lost =>
    /\ sent = request \o io
    /\ request # <<>> => Len(request) \in HeaderEnds(sent)
    /\ \A n \in HeaderEnds(sent) : request # <<>> => n >= Len(request)
    /\ verdict = "request" <=> request # <<>> /\ IsRequest(request)
    /\ verdict = "none" =>
         HeaderEnds(sent) = {} /\ Before(sent, Len(sent))
           /\ Len(sent) <= MaxRequestSize
    /\ verdict = "too large" =>
         HeaderEnds(sent) = {} /\ Before(sent, Len(sent))
    /\ verdict = "bad" =>
         \/ request # <<>> /\ ~IsRequest(request)
         \/ request = <<>> /\ ~Before(sent, Len(sent))
    /\ request # <<>> => Before(request, Len(request))
=============================================================================
