---------------------------- MODULE MgConnection ----------------------------
(***************************************************************************)
(* The life of one connection in mg_poll_server of istb_mongoose.c: what   *)
(* its client sends, in pieces and ahead of the replies, how the poll loop *)
(* reads, answers and writes, and how the connection ends.  The loop is    *)
(* one thread that treats each connection on its own, so one is enough;    *)
(* others show only in the errno they leave.                               *)
(*                                                                         *)
(* The byte stream is cut into tokens, the smallest pieces that matter to  *)
(* the parser; replies into units: a header, a block of the body, an error.*)
(* That other readers or the segmenter change the buffer that is served is *)
(* the subject of HlsService; here it is the connection's own.             *)
(***************************************************************************)
EXTENDS Integers, Sequences, FiniteSets

CONSTANTS
  Kinds,           \* of requests the client may send, some of AllKinds
  MaxRequests,     \* bound: requests on the connection
  FileLen,         \* units in a served buffer
  BlockSize,       \* IOBUF_SIZE: units one transfer_file_data moves
  MaxRequestSize   \* MAX_REQUEST_SIZE, in tokens

\* A request for a buffer that is there, for one that is not, one with a
\* body that asks for "100 Continue", one of an unsupported HTTP version,
\* one whose URI does not begin with a slash, a control character where a
\* request should be, and one that makes the connection a websocket.
AllKinds == {"get", "miss", "post", "old", "odd", "junk", "ws"}

ASSUME ConnAssumption ==
  /\ Kinds \subseteq AllKinds
  /\ MaxRequests \in Nat \ {0}
  /\ FileLen \in Nat \ {0}
  /\ BlockSize \in Nat \ {0}
  /\ MaxRequestSize \in Nat \ {0}

VARIABLES
  script,      \* the kinds of the client's requests; request r is script[r]
  tosend,      \* tokens the client has yet to send
  inbox,       \* tokens sent and not yet received
  hungup,      \* the client has closed its end
  received,    \* the units the client got, pings left out
  conn,        \* "none", "open" or "closed"
  phase,       \* where mg_poll_server is
  writeset,    \* the socket is in write_set
  idle,        \* no activity: "no", for the ping interval: "quiet", or for
               \* idle_timeout_ms: "over"
  c            \* struct connection

client == <<script, tosend, hungup>>
vars == <<client, inbox, received, conn, phase, writeset, idle, c>>

Requests == 1 .. Len(script)

Tokens(r) ==
  CASE script[r] = "junk" -> <<[k |-> "junk", r |-> r]>>
    [] script[r] = "post" -> <<[k |-> "post", r |-> r], [k |-> "end", r |-> r],
                               [k |-> "body", r |-> r]>>
    [] script[r] = "ws" -> <<[k |-> "ws", r |-> r], [k |-> "end", r |-> r],
                             [k |-> "frame", r |-> r], [k |-> "frame", r |-> r]>>
    [] OTHER -> <<[k |-> script[r], r |-> r], [k |-> "end", r |-> r]>>

\* All that the client will send.
Stream ==
  LET upto[r \in 0 .. Len(script)] ==
        IF r = 0 THEN <<>> ELSE upto[r - 1] \o Tokens(r)
  IN  upto[Len(script)]

NULL == 0      \* no handle, no request

\* accept_new_connection: calloc.
NewConnection ==
  [local |-> <<>>, remote |-> <<>>, endpoint |-> "none", flags |-> {},
   request |-> NULL, request_len |-> 0, content_len |-> 0, handle |-> NULL,
   websocket |-> FALSE, cl |-> 0, unread |-> [r \in Requests |-> FileLen]]

\* Once it has asked for a websocket a client sends frames only.
Scripts ==
  {s \in UNION {[1 .. n -> Kinds] : n \in 1 .. MaxRequests} :
     \A r \in DOMAIN s : s[r] = "ws" => r = Len(s)}

Init ==
  /\ script \in Scripts
  /\ tosend = Stream
  /\ inbox = <<>>
  /\ hungup = FALSE
  /\ received = <<>>
  /\ conn = "none"
  /\ phase = "prepare"
  /\ writeset = FALSE
  /\ idle = "no"
  /\ c = NewConnection

-----------------------------------------------------------------------------
(* The functions of istb_mongoose.c that work on one struct connection.    *)

Unit(k, r, len) == [k |-> k, r |-> r, len |-> len]
Spool(d, unit) == [d EXCEPT !.remote = Append(@, unit)]

\* A keep-alive is announced for any GET, but only an EP_USER or EP_FILE
\* endpoint keeps the connection: with an mg_io_fun there is neither.
CloseLocalAtOnce(d) ==                                  \* mutant of CloseLocal
  [d EXCEPT !.endpoint = "none", !.flags = {"CLOSE"}, !.cl = 0,
            !.request = NULL, !.request_len = 0]
CloseLocal(d) ==
  [d EXCEPT !.endpoint = "none",
            !.flags = IF d.remote = <<>> THEN {"CLOSE"} ELSE {"SPOOL_DONE"},
            !.cl = 0, !.request = NULL, !.request_len = 0]

SendError(d, r) == CloseLocal(Spool(d, Unit("error", r, 0)))

\* get_request_len: -1 at a control character, 0 while the blank line that
\* ends the header is missing.
RequestLen(io) ==
  LET marks == {i \in DOMAIN io : io[i].k \in {"end", "junk"}}
      first == CHOOSE i \in marks : \A j \in marks : i <= j
  IN  IF marks = {} THEN 0 ELSE IF io[first].k = "junk" THEN -1 ELSE first

\* parse_http_message on the header: a request line must come first.
IsRequest(header) == header[1].k \in AllKinds \ {"junk"}

\* The head of process_request: a complete header leaves local_iobuf.
Parse(d) ==
  LET n == RequestLen(d.local) IN
  IF d.request_len # 0 THEN d
  ELSE IF n <= 0 THEN [d EXCEPT !.request_len = n]
  ELSE [d EXCEPT !.local = SubSeq(@, n + 1, Len(@)),
                 !.request = d.local[1].r, !.websocket = FALSE,
                 !.request_len = IF IsRequest(d.local) THEN 1 ELSE -1]

Kind(d) == script[d.request]
ValidUri(d) == Kind(d) # "odd"

\* parse_http_headers, of which mg_get_header looks one up.
Headers(kind) ==
  CASE kind = "post" -> {"Expect", "Content-Length"}
    [] kind = "ws" -> {"Sec-WebSocket-Version", "Sec-WebSocket-Key"}
    [] OTHER -> {}
HasHeader(d, name) == name \in Headers(Kind(d))

SendHandshake(d) == Spool(d, Unit("handshake", d.request, 0))
HandshakeIfRequested(d) ==
  IF HasHeader(d, "Sec-WebSocket-Version") /\ HasHeader(d, "Sec-WebSocket-Key")
  THEN SendHandshake([d EXCEPT !.websocket = TRUE]) ELSE d

SendContinue(d) ==
  IF HasHeader(d, "Expect") THEN Spool(d, Unit("continue", d.request, 0)) ELSE d

\* find_uri_handler: the one for "/" takes every URI with a slash in front.
HandlerFound(d) == ValidUri(d)

\* open_local_endpoint, up to the return for a handler.
OpenLocal(d) ==
  [d EXCEPT !.endpoint = IF HandlerFound(d) THEN "user_file" ELSE "none",
            !.content_len = IF HasHeader(d, "Content-Length") THEN 1 ELSE 0]

\* user_defined_requst: istb_m3u8_api_open and mg_write_range.  A buffer
\* that is opened once more is read on from where it was left.
FileOf(d) == IF Kind(d) = "miss" THEN NULL ELSE d.request
LengthOf(d) == IF Kind(d) = "miss" THEN 0 ELSE FileLen
AnnouncedShort(d) == LengthOf(d) - 1                    \* mutant of Announced
Announced(d) == LengthOf(d)
Handler(d) ==
  Spool([d EXCEPT !.handle = FileOf(d), !.cl = LengthOf(d)],
        Unit("head", d.request, Announced(d)))

\* deliver_websocket_frame, as often as a whole frame is buffered: the handler
\* is called for it and the frame removed.
Deliver(d) ==
  LET after[n \in 0 .. Len(d.local)] ==
        IF n = 0 THEN d
        ELSE [Handler(after[n - 1]) EXCEPT !.local = SubSeq(@, 2, Len(@)),
                                           !.content_len = 1]
  IN  after[Len(d.local)]

\* call_uri_handler_if_data_is_buffered; the content is never removed.
CallHandler(d) ==
  IF d.websocket THEN Deliver(d)
  ELSE IF Len(d.local) >= d.content_len THEN Handler(d) ELSE d

\* The decision of process_request.
Decide(d) ==
  IF d.request_len < 0 \/ (d.request_len > 0 /\ ~ValidUri(d))
    THEN SendError(d, IF d.request = NULL THEN d.local[1].r ELSE d.request)
  ELSE IF d.request_len = 0
    THEN IF Len(d.local) > MaxRequestSize THEN SendError(d, d.local[1].r) ELSE d
  ELSE IF Kind(d) = "old" THEN SendError(d, d.request)
  ELSE IF d.endpoint = "none" THEN OpenLocal(SendContinue(HandshakeIfRequested(d)))
  ELSE d

ProcessRequest(d) ==
  LET e == Decide(Parse(d))
  IN  IF e.endpoint = "user_file" THEN CallHandler(e) ELSE e

\* istb_m3u8_api_read: a block of what is promised, cut at what is there.
Least(a, b) == IF a < b THEN a ELSE b
MovedUncut(d) == Least(d.cl, BlockSize)                 \* mutant of Moved
Moved(d) == Least(Least(d.cl, BlockSize), d.unread[d.handle])

\* is_error of a read that returned n, with retry if errno, which nobody
\* sets here, still has EAGAIN in it from some earlier call.
IsError(n, retry) == n = 0 \/ (n < 0 /\ ~retry)

\* transfer_file_data.  Without a buffer the read returns -1.
Transfer(d, retry) ==
  IF d.endpoint # "user_file" THEN d
  ELSE IF d.handle = NULL THEN IF IsError(-1, retry) THEN CloseLocal(d) ELSE d
  ELSE LET n == Moved(d)
           e == Spool([d EXCEPT !.cl = @ - n, !.unread[d.handle] = @ - n],
                      Unit("data", d.request, n))
       IN  IF IsError(n, retry) THEN CloseLocal(d)
           ELSE IF e.cl <= 0 THEN CloseLocal(e) ELSE e

-----------------------------------------------------------------------------
(* mg_poll_server, once around.  A select that is interrupted only delays  *)
(* what it would have found to the next round.                             *)

At(p) == conn = "open" /\ phase = p

\* A connection accepted after select is first served in the next round.
Accept ==
  /\ conn = "none"
  /\ conn' = "open"
  /\ phase' = "reap"
  /\ UNCHANGED <<client, inbox, received, writeset, idle, c>>

\* Before select: a block is moved, then it is wait-to-write or close.
Prepare ==
  /\ At("prepare")
  /\ \E retry \in BOOLEAN : c' = Transfer(c, retry)
  /\ writeset' = (c'.remote # <<>>)
  /\ conn' = IF c'.remote = <<>> /\ "CLOSE" \in c'.flags THEN "closed"
                                                         ELSE "open"
  /\ phase' = "read"
  /\ UNCHANGED <<client, inbox, received, idle>>

\* read_from_client.
Read ==
  /\ At("read")
  /\ inbox # <<>>
  /\ c' = ProcessRequest([c EXCEPT !.local = @ \o inbox])
  /\ inbox' = <<>>
  /\ idle' = "no"
  /\ phase' = "write"
  /\ UNCHANGED <<client, received, conn, writeset>>

\* recv returns 0, or fails for a connection that was reset.
ReadEnd ==
  /\ At("read")
  /\ hungup
  /\ c' = [c EXCEPT !.flags = @ \cup {"CLOSE"}]
  /\ idle' = "no"
  /\ phase' = "write"
  /\ UNCHANGED <<client, inbox, received, conn, writeset>>

NothingToRead ==
  /\ At("read")
  /\ inbox = <<>> /\ ~hungup
  /\ phase' = "write"
  /\ UNCHANGED <<client, inbox, received, conn, writeset, idle, c>>

\* The flags after write_to_client, if the last units of remote are left.
FlagsSoon(flags, left) ==                               \* mutant of FlagsAfter
  IF "SPOOL_DONE" \in flags THEN flags \cup {"CLOSE"} ELSE flags
FlagsAfter(flags, left) ==
  IF left = <<>> /\ "SPOOL_DONE" \in flags THEN flags \cup {"CLOSE"} ELSE flags

\* What received keeps of the units the client takes.
WithoutPings(units) ==
  LET kept[n \in 0 .. Len(units)] ==
        IF n = 0 THEN <<>>
        ELSE IF units[n].k = "ping" THEN kept[n - 1]
        ELSE Append(kept[n - 1], units[n])
  IN  kept[Len(units)]

Write ==
  /\ At("write")
  /\ writeset
  /\ \E n \in 1 .. Len(c.remote) :
       LET left == SubSeq(c.remote, n + 1, Len(c.remote)) IN
       /\ received' = received \o WithoutPings(SubSeq(c.remote, 1, n))
       /\ c' = [c EXCEPT !.remote = left, !.flags = FlagsAfter(@, left)]
  /\ idle' = "no"
  /\ phase' = "reap"
  /\ UNCHANGED <<client, inbox, conn, writeset>>

\* send fails for a connection that was reset.
WriteError ==
  /\ At("write")
  /\ writeset /\ hungup
  /\ c' = [c EXCEPT !.flags = @ \cup {"CLOSE"}]
  /\ idle' = "no"
  /\ phase' = "reap"
  /\ UNCHANGED <<client, inbox, received, conn, writeset>>

\* There is nothing to write, or the client does not take it.
NotWritable ==
  /\ At("write")
  /\ phase' = "reap"
  /\ UNCHANGED <<client, inbox, received, conn, writeset, idle, c>>

ReapableOnFlag == "CLOSE" \in c.flags                   \* mutant of Reapable
Reapable == "CLOSE" \in c.flags \/ idle = "over"

\* ping_idle_websocket_connection.  Pings in a row count as one.
Pinged ==
  LET last == Len(c.remote) IN
  IF ~c.websocket \/ idle = "no" THEN c
  ELSE IF last > 0 /\ c.remote[last].k = "ping" THEN c
  ELSE Spool(c, Unit("ping", Len(script), 0))

Reap ==
  /\ At("reap")
  /\ conn' = IF Reapable THEN "closed" ELSE "open"
  /\ c' = Pinged
  /\ phase' = "prepare"
  /\ UNCHANGED <<client, inbox, received, writeset, idle>>

Poll ==
  \/ Accept \/ Prepare \/ Read \/ ReadEnd \/ NothingToRead
  \/ Write \/ WriteError \/ NotWritable \/ Reap

-----------------------------------------------------------------------------
(* The client, and time.                                                   *)

ClientSend ==
  /\ conn # "closed" /\ ~hungup
  /\ \E n \in 1 .. Len(tosend) :
       /\ inbox' = inbox \o SubSeq(tosend, 1, n)
       /\ tosend' = SubSeq(tosend, n + 1, Len(tosend))
  /\ UNCHANGED <<script, hungup, received, conn, phase, writeset, idle, c>>

ClientHangup ==
  /\ conn = "open" /\ ~hungup
  /\ hungup' = TRUE
  /\ UNCHANGED <<script, tosend, inbox, received, conn, phase, writeset, idle,
                 c>>

\* Time passes in which nothing comes and nothing is taken.  A round goes by
\* the time at which it began.
Lapse ==
  /\ At("prepare") /\ inbox = <<>> /\ ~hungup /\ idle # "over"
  /\ idle' = IF idle = "no" THEN "quiet" ELSE "over"
  /\ UNCHANGED <<client, inbox, received, conn, phase, writeset, c>>

Next == Poll \/ ClientSend \/ ClientHangup \/ Lapse

\* The loop turns and, over its rounds, time passes; the client need not do
\* anything.
Spec == Init /\ [][Next]_vars /\ WF_vars(Poll) /\ SF_vars(Lapse)

-----------------------------------------------------------------------------
(* Properties.                                                             *)

Token == [k : AllKinds \cup {"end", "body", "frame"}, r : Requests]
UnitType == [k : {"head", "data", "error", "continue", "handshake",
                   "ping"}, r : Requests, len : Nat]

ConnTypeOK ==
  /\ tosend \in Seq(Token) /\ inbox \in Seq(Token)
  /\ hungup \in BOOLEAN /\ writeset \in BOOLEAN
  /\ idle \in {"no", "quiet", "over"}
  /\ received \in Seq(UnitType)
  /\ conn \in {"none", "open", "closed"}
  /\ phase \in {"prepare", "read", "write", "reap"}
  /\ c \in [local : Seq(Token), remote : Seq(UnitType),
            endpoint : {"none", "user_file"},
            flags : SUBSET {"CLOSE", "SPOOL_DONE"},
            request : Requests \cup {NULL}, request_len : {-1, 0, 1},
            content_len : {0, 1}, websocket : BOOLEAN, handle : Requests \cup {NULL}, cl : Nat,
            unread : [Requests -> Nat]]

Spooled == received \o c.remote

\* The units of request r's buffer that the connection has spooled.
DataOf(r) ==
  LET upto[i \in 0 .. Len(Spooled)] ==
        IF i = 0 THEN 0
        ELSE upto[i - 1] + IF Spooled[i].k = "data" /\ Spooled[i].r = r
                           THEN Spooled[i].len ELSE 0
  IN  upto[Len(Spooled)]

\* The body that follows a header is that request's and no longer than the
\* header announced, whatever comes in while it is moved; an error ends it,
\* and only a websocket's ping may come in between.  Though a block is spooled
\* in every round, taken or not, remote never holds more of a buffer than
\* there is in it.  A websocket gets its handshake first, then at most one
\* reply for each of its frames.
BodiesFramed ==
  /\ \A i \in DOMAIN Spooled :
       Spooled[i].k = "data" =>
         \E h \in 1 .. i - 1 :
            /\ Spooled[h].k = "head" /\ Spooled[h].r = Spooled[i].r
            /\ \A j \in h + 1 .. i : Spooled[j].k \in {"data", "ping"}
            /\ LET body[j \in h .. i] ==
                     IF j = h THEN 0 ELSE body[j - 1] + Spooled[j].len
               IN  body[i] <= Spooled[h].len
  /\ \A r \in Requests : DataOf(r) + c.unread[r] = FileLen
  /\ \A r \in Requests : script[r] = "ws" =>
       LET heads == {i \in DOMAIN Spooled : Spooled[i] = Unit("head", r, FileLen)}
       IN  /\ Cardinality(heads) <= Len(Tokens(r)) - 2
           /\ \A i \in heads : \E h \in 1 .. i - 1 :
                Spooled[h] = Unit("handshake", r, 0)

\* A client that sends a GET and then waits gets one whole reply before the
\* server closes, whatever the pieces and the pace of both directions.
OnlyFirstSent == Len(Stream) - Len(tosend) <= Len(Tokens(1))
LoneGetServed ==
  (/\ script[1] = "get" /\ OnlyFirstSent
   /\ conn = "closed" /\ ~hungup /\ idle # "over") =>
    LET body[j \in 1 .. Len(received)] ==
          IF j = 1 THEN 0 ELSE body[j - 1] + received[j].len
    IN  /\ received # <<>>
        /\ received[1] = Unit("head", 1, FileLen)
        /\ body[Len(received)] = FileLen

\* The server does not close on its own while units wait to be written.
DrainedBeforeClose ==
  [][(conn = "open" /\ conn' = "closed" /\ ~hungup /\ idle # "over") =>
       c'.remote = <<>>]_vars

\* No connection stays for ever, also when its buffer is missing; only a
\* websocket is kept alive, by a client that takes the pings.
ConnectionEnds == conn = "open" ~> (conn = "closed" \/ c.websocket)
=============================================================================
