# A verification project for walker (iUDPtoHLS)

walker receives an MPEG transport stream over UDP, cuts it into segments, keeps
the segments and an m3u8 index in memory and serves both over HTTP. It is one
process with four threads and almost no locking: the memory one thread frees is
the memory another one serves. This directory holds TLA+ models of the program,
the TLC configurations that check them on small instances, and proofs checked
by TLAPS.

To check a run: `tlc -config MCRingBuffer.cfg MCRingBuffer.tla`. To check the
proofs: `tlapm RingBufferProofs.tla`, and the same for the other modules whose
names end in `Proofs`. `PROJECT.json` lists the runs, maps every definition
that models code to the lines it models, and lists the hazards, findings,
theorems and, for each checked property, a mutated definition that breaks it.

## 1. The system

```
 network --> UDP receiver --write--> byte ring --read--> segmenter --> segment
             (istb_udp.c)      (istb_ringbuffer.c)    (istb_m3u8.c)    store
                                                                      + index
 clients <-------- HTTP server (istb_mongoose.c, istb_httpserver.c) <----+
 main (main.c): starts the threads, waits for READY, catches signals, stops all
```

| component | state | operations | what makes it correct |
|---|---|---|---|
| Byte ring (`istb_ringbuffer.c`) | `buf`, `write_ptr`, `read_ptr`, one lock held over each call | create, write, read, destroy | bytes come out in the order and number they went in; a refused call changes nothing a user can see |
| UDP receiver (`istb_udp.c`) | `connect_live`, the socket | start, the select/recvfrom loop, stop | ends when told to; writes to a ring that exists |
| Segmenter (`istb_m3u8.c`, `istb_m3u8_task`) | `first_segment`, `last_segment`, `output_index`, `write_index`, `terminate` | set-up, rotation on a key frame, index, removal, clean-up | an index names complete segments that are still there; a bounded window; everything is given back |
| Segment store (`istb_m3u8.c`, the queue functions) | a linked list of `m3u8_segment_t`, the head's `m3u8data`, one `m3u8buf_t` with one `write_ptr` and one `read_ptr` for each | add, remove, head update, destroy, buffer read/write/seek | what a reader holds is alive; each reader gets the bytes it was promised |
| HTTP handler (`istb_httpserver.c`, `istb_m3u8_api_*`, `mg_write_range`, `transfer_file_data`) | per connection: handle, `cl`, range | open, range, one block per poll, close | the reply has the promised length and content, and ends |
| Connection and poll loop (`istb_mongoose.c`) | the list of connections, their flags, two iobufs each, `last_activity_time` | accept, read, parse, answer, write, close, expire | replies in order, no reply cut off, no connection kept for ever |
| Request parsing (`istb_mongoose.c`) | `local_iobuf` | request length, websocket frames, header lines, URI, ranges | the bytes decide, not the pieces they come in |
| Names (`main`'s getopt, `istb_m3u8_parse_options`, `write_index_file`, the URI, `istb_m3u8_api_open`) | the options record, the names in the queue | options printed and parsed once; a lookup for each request | the segmenter gets the options main was given; who follows the index gets that segment |
| Process life cycle (`main.c` and the start/stop functions) | four flags, a semaphore, the signal dispositions, the ring | start, READY, signals, stop, destroy | nothing is freed under a user; the process ends when asked |

Outside the models: libavformat (demuxing and muxing), libc, pthreads, the
kernel; mongoose's files, CGI, DAV, SSI, digests, directory listings and Lua.
The handler for `/` takes every request whose URI begins with `/`; only the URI
`*` gets past it to mongoose's files. The handler is there for websockets too,
which nothing in walker asks for but any client may.

How they interact. The receiver and the segmenter share the ring through
`udp_write_data` and `m3u8_read_data` in main.c; the latter spins until data
comes or `myterminate` is set. The segmenter calls back into main with
`M3U8_SEGMENT_READY`, which posts the semaphore that makes main start the HTTP
server. The HTTP server reads the segment store through function pointers
(`mg_io_fun`), with no lock: `m3u8queue_t` has a `locker` that nobody takes.
main and the segmenter install their own handlers for the same two signals.
The segmenter and the server get their parameters as a pointer to one array on
main's stack, `buf`, which main fills twice.

What is hard here, and hence what the properties are about:

* a segment or an index freed by the segmenter while the HTTP thread holds it,
  or between two reads the handler makes;
* several connections on one buffer with one `read_ptr`;
* the order index, removal, next segment in one rotation, with every step able
  to fail;
* the boundary cases of the ring: exactly full, past the end;
* the stop protocol: flags raised and lowered by main, seen by threads that may
  be in `select`, in a spin loop or already gone, and signals at any moment;
* a connection whose client sends in pieces, sends ahead, takes nothing or
  leaves, while the server parses, answers, writes and closes;
* a linked list and growing buffers that one thread changes, store by store,
  while the other one walks and reads them without a lock;
* names and numbers that are printed, cut to an array, parsed, printed into the
  index, followed by a client, decoded and compared as prefixes.

## 2. The modules

| module | models | composed from |
|---|---|---|
| `ByteQueue` | what the ring promises: an abstract bounded queue | |
| `RingBuffer` | `istb_ringbuffer.c` | refines `ByteQueue` |
| `RingBufferProofs` | theorems about `RingBuffer` | extends `RingBuffer` |
| `SegmentQueue` | what the segment queue promises: an abstract queue | |
| `SegmentStore` | the segmenter thread with the queue and its buffers | |
| `SegmentList` | the queue as linked nodes, each load and store a step, with a walk of the HTTP thread | refines `SegmentQueue` |
| `SegmentBuffer` | one `m3u8buf_t` that grows while it is read | |
| `SegmentMemoryProofs` | theorems about `SegmentList`, `SegmentBuffer` and the two side by side | extends `MCSegmentMemory` |
| `HlsService` | the HTTP handler and its readers on top of the store | extends `SegmentStore` |
| `HlsServiceProofs` | theorems about `SegmentStore` and `HlsService` | extends `HlsService` |
| `MgConnection` | one connection in mongoose's poll loop | |
| `MgConnectionProofs` | theorems about `MgConnection` | extends `MgConnection` |
| `MgReplyProofs` | the theorem that its replies stay framed | extends `MgConnectionProofs` |
| `RequestReader` | how a request is taken out of `local_iobuf`, character by character | |
| `FrameReader` | the same for websocket frames, byte by byte | |
| `ClientBytes` | what a client sends, a request or frames | extends `RequestReader`, `FrameReader` |
| `ClientBytesProofs` | theorems about `ClientBytes` and both readers | extends `ClientBytes` |
| `Naming` | options, addresses, names and URIs, from the command line to the lookup | |
| `InputsProofs` | theorems about `Naming`, and about it and `ClientBytes` side by side | extends `MCInputs`, `ClientBytesProofs` |
| `Lifecycle` | main, the loops of the three threads, flags, semaphore, signals | |
| `LifecycleProofs` | theorems about `Lifecycle` | extends `Lifecycle` |
| `MC...` | the instances TLC checks | extend the above |

### RingBuffer and ByteQueue

Both ring calls hold `ringbuffer->locker` from the first look at the pointers
to the last change, so each call is one action: `Write(len)` (not a whole
number of packets, refused, accepted) and `Read(amount)`. `Store` is the pair
of `memcpy`s of the write, `Load` that of the read, `WriteAt`/`ReadAt` the
rewinding of an empty ring, which happens even if the write is then refused. A
byte's value is its position in the source stream, so order and loss can be
told; `sent`, `accepted`, `delivered`, `torn`, `brimmed` are history variables.
The read's second `memcpy` goes to the start of the target, not behind the
first part, and the model does the same; `torn` records that this has happened.
A write that fills the ring exactly makes the pointers equal, which is the
empty ring; `brimmed` records that.

`ByteQueue` is the queue the ring's two users see. The stream is offered in
blocks; a block is appended whole, byte for byte and behind everything unread,
or refused, and it is refused only if it is no whole number of packets or there
is no room; a read takes its amount off the front. The one exception is stated
openly: a block which fills the queue exactly empties it. The refinement maps
the queue to `Contents`, the bytes between the pointers; what an empty ring's
rewinding does to the pointers does not show.

### SegmentStore

`istb_m3u8_task` from set-up to clean-up. `pc` stands at the points between
which the shared memory changes in a way another thread can tell: the index
buffer built (`BuildIndex`), the old one destroyed (`FreeIndex`), the pointer
replaced (`SwapIndex`), the node unlinked (`Unlink`), its memory freed
(`FreeSegment`), the next segment at the tail (`OpenSegment`). `Rotate` and
`EndOfStream` are the two ways to complete a segment; `AfterClose` and
`AfterIndex` are the order the code has. What libavformat writes is external:
`WriteFrame` adds any length from `SegLens` to the current segment. An index is
kept as the pair of segment numbers it names. `SetupFails`, `IndexFails`,
`OpenFails` are the error paths; `DestroyWithoutIndex` is the clean-up reached
before there is an index, which dereferences a null pointer. An index that
cannot be written in a rotation clears `write_index` for good; at the end of
the stream the result is dropped (line 760), so `write_index` stays as it was.
Either way the thread goes on to the removal, and the published index is one
behind `last_segment`, which counts the indexes tried: `IndexLost`.

### SegmentQueue, SegmentList and SegmentBuffer

`SegmentStore` takes a change of the queue as one step. `SegmentList` does not:
every store of `ISTB_LINKED_LIST_ADD_TO_TAIL` and `..._REMOVE`, every `free`,
and every load of `ISTB_LINKED_LIST_FOREACH` in `istb_m3u8_api_open` is an
action, in the order the compiler keeps without optimisation (the Makefile has
`-g` and no `-O`). `wpc` is where the segmenter is, `walk` the state of the HTTP thread's walk. The
walk may read freed memory; it is then `lost` and the behaviour says no more.
It implements `SegmentQueue`, in which a segment enters at the tail and leaves
at the head, with the queue mapped to the nodes `Reached` from the head; the
sequence `queue` of `SegmentStore` is that queue. `Reached` follows `next` by the
recursive function `Hop`, which gives up after as many steps as there are nodes.

`SegmentBuffer` is one buffer: `istb_m3u8_buffer_write` in the steps room, new
size, `realloc`, assignment, copy, `write_ptr`; `istb_m3u8_buffer_read` in the
steps of its two looks at `write_ptr`, the load of `buf`, and the end of the
copy. Contents are how many bytes have been copied (`filled`). A block that
`realloc` moves gets a new number, and the old one is free at once; one that
fails leaves `buf` null in a segment which may still be completed and served.
`Seek` takes `read_ptr` to any of `Offsets`, also past the end, where the next
length turns negative. A copy of negative length or from a null pointer is
`FaultyRead`; after it, or after a sum beyond `MaxInt`, `reading` is
"undefined" and the behaviour says no more. `within` records that a read began
at a place within the data, with a length that is not negative.

### HlsService

The store with the HTTP thread. There is one such thread, so only one
connection at a time is inside the handler (`InHandler`), but the segmenter can
take a step between the two places where the handler reads the shared memory:
`Lookup` (the node and the length, `istb_m3u8_api_open`) and `Reply` (the
address, read once more from the head for an index, then `mg_write_range` and
the seek). `Transfer` is `transfer_file_data` for one block. Touching a freed
buffer or a null pointer is undefined; the model then sets `ub` and stops.
`got` records which bytes of the buffer a connection received.

### MgConnection

`mg_poll_server` visits its connections one by one and they share nothing but
`errno`, so the module has one. `c` is `struct connection`; the functions that
work on it (`process_request`, `user_defined_requst`, `transfer_file_data`,
`close_local_endpoint`, ...) are operators from one value of it to the next, and
the actions are the places of the loop: `Prepare` (before `select`: a block is
moved, a connection with `CONN_CLOSE` and nothing to write is closed), `Read`
or `ReadEnd`, `Write` of any part of the spool or `WriteError`, `Reap` (flag or
idle time), `Accept`. What the loop finds ready is the environment's choice.

The client's `script` is any sequence of requests of seven kinds; their tokens
arrive in any pieces, also ahead of the replies. A reply is a header, blocks of
a body, or an error. A missing buffer makes the read return -1, and whether that
closes the connection depends on an `errno` left over from another call, a
choice in `Prepare`. `Lapse` lets time pass between rounds, first the ping
interval and then the idle time. A request for a websocket (`ws`) gets a
handshake, then the handler is called for each frame (`Deliver`), which answers
it as if it were a GET; `Pinged` adds a ping in each round once it is quiet. As the code has it, the
handler is called again whenever bytes arrive for an open `EP_USER_FILE`
endpoint, the content of a POST is never taken out of the buffer, a request is
complete before its content is, and no connection is kept alive although its
header may say so.

### RequestReader and FrameReader

`RequestReader` is `read_from_client`, `spool` and the head of
`process_request` on characters of five kinds, any number of them at a time:
`RequestLen` is the loop of `get_request_len`, `SpoolSize` the size `realloc` is
called with, `ReceiveLost` the piece that is lost when it fails. `FrameReader`
is `deliver_websocket_frame` on bytes: `Layout` decides where header and data
lie from what has come, `Content` takes the mask off. What a client sends is
encoded by `Encoded`, which is the format of `mg_websocket_write`. Header and
payload together have a length that an `int` can say (`FrameAssumption`): of
the eight bytes of a long length the code shifts four out of an `int`.
`ClientBytes` has both, one at a time: `speaks` is `is_websocket`, by which
`call_uri_handler_if_data_is_buffered` takes frames.

### Naming

The way of a name: `GetOptions` (getopt and the URL prefix), `OptionString` (the
`snprintf` into 128 bytes), `ParseOptions` (`istb_m3u8_parse_options`, as the
function `Pairs` from a place in the string to the options found from there
on), `StartServer` (`parse_port_string`), `Name` (the name `write_index_file`
and the task print), `Request` (a client follows the index or its path),
`ParseUri` (decoding and removal of double dots and slashes), `Lookup`
(`istb_m3u8_api_open`). `Rotate` moves the window at any moment. Texts are
sequences of characters (`Letters`, without backslashes and control characters);
in the run they are a dozen that the parsers tell apart, and numbers have a
small radix so that the window passes from one digit to two. `Cleaned` is the
loop of `remove_double_dots_and_double_slashes`, `PastSlashes` its inner one. The
server is on the port the URLs name only if the host is a dotted address; and a
client finds the path of a URL behind the first slash, so that
`AdvertisedIsFound` is about hosts without one.

### Lifecycle

Where each thread is, the flags, the semaphore, both signals with their
dispositions, main's array `buf` with what the two threads found in it, the
listening socket, and counts in place of data. The command line ends in
`GetOptions` or, if an option is missing, in `MissingOption`: `opts` is not
initialised, so it may also pass as given. main's `act.sa_flags` is read
uninitialised, so whether the handler resets itself is an arbitrary choice made
in `Init` (`oneshot`). A signal may be taken by any thread: `Deliver` (in no
call that fails for it), `InterruptSemWait`, `InterruptSelect`. `SeenDead` is
`pthread_kill(tid, 0)` on a detached thread.

## 3. The runs

| run | properties | what it shows |
|---|---|---|
| `ring` | `TypeOK`, `OrderedUntilTorn`, `ConservedUntilBrimmed`, `ImplementsByteQueue` | order and conservation up to the two boundary cases; refinement |
| `ring_order` (violation) | `Ordered` | a read past the end of the storage delivers bytes out of order |
| `store` | `StoreTypeOK`, `IndexNamesKeptSegments`, `BoundedWhileIndexed`, `ReadyWithThree`, `NoLeak`, `PlaylistSlides`, `EndsClean` | the publish/remove order, the window, the clean-up, with all failures |
| `memory` | `MemoryTypeOK`, `FoundUnlessHit`, `WritesFit`, `ReadsOnlyWritten`, `CompleteReadsSafe`, `ImplementsQueue`, `WalkEnds` | the list and a buffer, store by store, under a reader without a lock, with any seek |
| `hls` | `OnlyReaderGetsAll`, `HandleLiveWhileNamed`, `SharedReadPointer` | what two concurrent readers may rely on |
| `hls_range` | `HlsTypeOK`, `RangeFromStart`, `RepliesEnd` | ranges, and the end of every reply |
| `hls_use_after_free` (violation) | `NoUseAfterFree` | the HTTP thread touches freed buffers |
| `hls_shared` (violation) | `EveryReplyWhole` | the second reader of a segment gets less than promised |
| `lifecycle` | `LifecycleTypeOK`, `RingOutlivesUsers`, `ServerHasIndex`, `BufReadInTime`, `ReturnsAlone`, `ShutsDown` | orderly start and stop |
| `lifecycle_ctrl_c` (violation) | `CtrlCTerminates` | a signal before main's own handler is in place never ends the process |
| `conn` | `ConnTypeOK`, `BodiesFramed`, `LoneGetServed`, `DrainedBeforeClose`, `ConnectionEnds` | a single GET gets its whole reply; replies stay framed; nothing is cut off; every connection but a websocket ends |
| `inputs` | `InputsTypeOK`, `CutsDoNotMatter`, `OptionsArrive`, `AdvertisedIsFound` | requests and frames in any pieces; names from the command line to the lookup |

`memory` and `inputs` each check modules that share no state, side by side: a
behaviour is of one part, and the properties of the others hold in it as they
do at the start.

Bounds, and why they are enough.

* `ring`: 6 cells of 2-cell packets, 13 bytes of stream, writes of 0, 2, 4 and
  the unfit 3, reads of 1 to 3. The storage is passed twice, so every
  alignment of the pointers, the full ring, wrapped writes and wrapped reads
  occur. What holds here is proved for every size (section 5).
* `store`: a window of 2 and 6 segments: the window fills with the third, so
  three full rotations slide it; READY falls in between. Segments of 0 to 2
  units tell empty, growing and complete apart. Every failure may happen at
  every occasion, any number of times.
* `hls`: 5 segments are the fewest with which a segment is named, then passed,
  then freed after READY has started the server. Two connections are the
  smallest number that share a pointer; more of them add no new kind of
  interference, since they only meet in `read_ptr`. The connections are
  symmetric; the run checks safety only.
* `hls_range`: one connection, since liveness is checked and symmetry is not
  used. The ranges are one without an end and one whose end is past every
  segment's size, which covers the cut to the size and its off-by-one.
* `conn`: two requests of any two kinds, which is what pipelining takes, the
  second of which may be a websocket with two frames, so that one can come while
  the other is answered; a
  buffer of three units in blocks of two, so that a reply takes two rounds and
  its last block is short; a `MaxRequestSize` of one token, so that a client can
  exceed it.
* `memory`: a window of 2 and 5 segments, so that the list is empty, has one
  node, is full, and is rotated twice under a walk, which may ask for any
  segment or for one that is not there. A buffer of 2 bytes, writes of 1 to 3 and
  6 bytes in all: room, no room, growth by the fixed step and by the length, and
  each again after a growth. Reads of 1 and 3 are within and past the end, and
  one of -1 is what a range leaves of `cl` past the end; seeks go to -1, 0, 2 and 7,
  which is before, at the start of, within and past the data; the greatest int is
  9, so that 7 and 3 pass it. What holds of the buffer is proved for every size
  (section 5).
* `inputs`, requests: up to 5 characters in pieces of up to 3, and a limit of 3,
  so that each way to end a header is cut in each place, something follows it,
  and the limit is passed. Frames: two of them, with lengths on both sides of the
  two places at which the length is written differently, with a top bit of 4 in
  place of 128; pieces of 1, 2 and 7 cut everywhere. Names: every prefix of up to
  two of nine characters and five longer ones; radix 3, so that the third segment
  has two digits; an array of 33 characters, which some of the strings fill and
  some pass; a port beyond the range of 4.
* `lifecycle`: two signals, since the first may be spent on the segmenter's
  handler; a ring of two units tells empty, half and full apart.

Deadlock is not an error in these runs: the thread and the process end, and the
bounded stream runs out.

Fairness. `StoreSpec`: the segmenter thread goes on (weak fairness) except
while it waits for its input, whose end is the source's choice. `HlsSpec`: weak
fairness for `Reply` and `Transfer`, as `mg_poll_server` visits every
connection in every round, and for `Expire`, as it compares every
connection's idle time with `idle_timeout_ms` in every round. None is assumed
of `Hangup` or of `TransferNothing`, which depends on a stale `errno`. `Spec`
of Lifecycle: weak fairness of each of the four threads, which the scheduler
gives; `select` has a timeout of its own, `m3u8_read_data` sleeps and looks
again. Nothing is assumed of the network, the stream or the sender of signals.
`Spec` of MgConnection: the loop turns (`Poll`), as `select` has a timeout, and
time passes (`Lapse`), which the loop sees between two rounds, hence strong
fairness; the client need do nothing. A `Poll` step need not write:
a client that never takes its reply is allowed, and then the idle time ends the
connection.

`ListSpec`: the segmenter completes the queue function it is in, the HTTP
thread its walk, as both are running threads; nobody need begin anything.

Assumption about `pthread_kill`. The three stop functions poll
`pthread_kill(tid, 0)` for a detached thread; POSIX leaves undefined what it
says of one that is gone. `lifecycle` checks the case the code counts on, that
it then says ESRCH (`DeadIsESRCH = TRUE`). With `FALSE`, TLC shows that main
stays in the first wait for ever.

## 4. Findings

Each violation run ends in a counterexample that is a behaviour of the code.

1. `istb_ringbuffer.c:172` copies the second part of a wrapped read over the
   first (`ring_order`).
2. `istb_m3u8.c:1341`: freed while in use (`hls_use_after_free`).
3. `istb_m3u8.c:1448`: all readers of a segment share one read pointer
   (`hls_shared`).
4. `istb_m3u8.c:643`: the segmenter's signal handler takes signals that were
   meant for main (`lifecycle_ctrl_c`).

What the models take as the code has it, without a run of its own:

* `istb_ringbuffer.c:132`: a ring filled to the last byte counts as empty, and
  all unread data is lost. `ConservedUntilBrimmed` and `Brim` of `ByteQueue` say
  how far conservation goes.
* `istb_m3u8.c:1363`: the clean-up after a failure before the first index goes
  through a null pointer (`DestroyWithoutIndex`). `EndsClean` and `NoLeak` allow
  this end, and only without an index.
* `main.c:196`: the tests for missing options look at uninitialised memory
  (`MissingOption`, `GetOptions`).
* `istb_httpserver.c:81`: a port that is taken goes unnoticed (`Listen`).
* `istb_m3u8.c:688`: after one failed index nothing is removed any more, and the
  queue grows without bound, against what the README says of `-n`.
  `BoundedWhileIndexed` states the window only while `write_index` is set.
* `istb_m3u8.c:760`: at the end of the stream nobody looks whether the last index
  was written. If it was not, the old one stays, without an end of its list, and
  the segment it names first is removed at line 767. `IndexNamesKeptSegments`
  says what can still be fetched then: everything from `first_segment` on.
* `istb_m3u8.c:731`: when the index of the third segment cannot be written
  `last_segment` stays at 3 and READY is reported again in every rotation; when
  an earlier one cannot be written it is never reported, and main stays in
  `sem_wait`. `ReadyWithThree` says so.
* `istb_m3u8.c:736`: the failure of a `realloc` at line 1263 reaches nobody. The
  segment is completed and named in the index with a null `buf`, through which
  its readers copy. `CompleteReadsSafe` has it as the one exception.
* `istb_m3u8.c:1482`: the seek is not checked. A range that begins past the end
  of a buffer gives `memcpy` a negative length (`FaultyRead`), where
  `ReadsOnlyWritten` promises a length only for reads from within the data.
* `istb_m3u8.c:1283`: a read of a buffer that is being written looks at
  `write_ptr` twice and may return more than its caller asked for. A client that
  follows the index does not come to that, as it names complete segments only,
  and `CompleteReadsSafe` is about those; one that asks for the next number may.
* `istb_m3u8.c:46`: a walk that stands on the node being removed is lost
  (`FoundUnlessHit` says that nothing else loses it).
* `main.c:104`: the documented `-o 8909` leaves the port of the URLs to what is
  on the stack, while the server, which takes a number for a port, listens on
  8909; `parse_port_string` says whether an address is valid and nobody asks.
  `AdvertisedIsFound` is about a dotted address with a port.
* `main.c:235`: options that do not fit into 128 bytes are cut; behind a dash
  this sends `istb_m3u8_parse_options` past the end of the string
  (`phase = "lost"`). A name without a dot, as `-m` may give one, makes
  `istb_m3u8_api_open` follow a null pointer (`phase = "undefined"`).
* `istb_mongoose.c:3415`: bytes that arrive during a reply make the handler
  answer the same request again, in the middle of the body, though
  istb_httpserver.c:16 says "on every new request". `BodiesFramed` says what a
  client can still rely on.
* `istb_mongoose.c:1863`: a websocket gets a ping in every round once it is
  quiet, also in the middle of a body; while its client takes the pings, it
  never expires.
* `istb_mongoose.c:1307`: `close_conn` closes `endpoint.fd`, which for walker's
  endpoint holds part of the address of the handler; the `errno` this leaves is
  one of those `Prepare` chooses from.
* `istb_mongoose.c:1891`: the reply to a pipelined request is cut when the spool
  of the reply before runs empty; a keep-alive is announced and never kept.

## 5. The proofs

`RingBufferProofs` proves, from `RingAssumption` alone (a positive size that is
a whole number of packets, reads that fit the reader's buffer), for every size,
datagram and amount:

* `TypeCorrect`: `Spec => []TypeOK`. The step that needs care is that a
  pointer stays below `BufferSize` through `Commit`.
* `Conservation`: `Spec => []ConservedUntilBrimmed`. It is inductive together
  with the type invariant, from a lemma on how `AvailableData` changes: a write
  adds `len` unless it fills the ring, a read takes `amount`.
* `InOrder`: `Spec => []OrderedUntilTorn`. That what was delivered is
  increasing is not inductive: the next read could return anything. `OrderInv`
  adds that the unread bytes are increasing, and that whatever was delivered
  comes before them. This in turn needs that the write puts the stream's next
  bytes behind the last unread one without touching any unread cell, which is
  the modular arithmetic of the lemmas `Place`, `WriteAppends`, `ReadDrops` and
  `ReadReturns`.
* `Refinement`: `Spec => ImplementsByteQueue`. Initial states map to initial
  states; an accepted write is a `Put` of the offered bytes, or a `Brim` if it
  fills the ring; a refused one is a justified `Refuse`; a read is a `Take`. It rests on the same
  lemmas: `Contents'` is `Contents` with a block appended or a prefix removed.

`LifecycleProofs` proves, from `LifecycleAssumption` alone, for any number of
signals, any size of the ring and whatever `pthread_kill` says of dead threads:

* `TypeCorrect`: `Spec => []LifecycleTypeOK`.
* `RingSafe`: `Spec => []RingOutlivesUsers` and `LastToLeave`:
  `Spec => []ReturnsAlone`. Neither is inductive: that the ring is there when a
  thread runs depends on how far main is, and that main is that far on which
  thread it saw dead before. `OrderOfThreads` relates main's position to the
  ring (`RingByMain`), to the threads not yet started (`StartOrder`) and to
  those already stopped (`StopOrder`). A lemma for each thread says what its
  steps leave alone, so that only main's steps need looking at.
* `ServerSafe`: `Spec => []ServerHasIndex` and `ArrayReadInTime`:
  `Spec => []BufReadInTime`. The segmenter reads main's array at its very start,
  and main fills it again only after `sem_wait`. `HandOver` states why that is
  late enough: the semaphore goes up with the third segment, and a signal ends
  the wait only through a handler, which the segmenter is the first to install;
  both come after it has read its options.

With `DeadIsESRCH = FALSE` main never passes its first wait, and what the
theorems say of later moments holds for that reason; the case of interest is
`TRUE`.

`HlsServiceProofs` proves of the store, from `StoreAssumption` alone, for every window
(also none), any number and length of segments and every failure:

* `StoreTypes`, `NamedIsKept` (`IndexNamesKeptSegments`), `WindowBounded`
  (`BoundedWhileIndexed`), `ReadyInTime` (`ReadyWithThree`), `GivesAllBack`
  (`NoLeak`), `IndexSlides` (`PlaylistSlides`). None of them is inductive. The
  segmenter counts the same things four times: the numbers in the queue,
  `first_segment`, `last_segment`, `output_index`. In a rotation the counts part
  and meet again, and `StoreInv` says at each `pc` how far apart they are:
  `QueueInv` (the queue is the numbers from `Oldest` to `Current`), `FirstInv`,
  `WindowInv` (what the published index names, and the next one), `SlackInv` (when
  the queue is longest), `MemInv` (exactly which buffers are live), and for the
  ends `PublishedInv`, `LastIndexInv` and `ReadyInv`. `LostInv` says where they
  stand once an index is lost: `head` is one behind `last_segment` and names no
  segment beyond its own number, so that by `QueueInv` what it names from
  `first_segment` on is in the queue. `NamedIsKept` is about all that an index
  names only until then.

and of its readers, from `StoreAssumption` and `ServiceAssumption`, for any
number of connections, any ranges and any block size:

* `HlsTypes`, `OnlyReaderServed` (`OnlyReaderGetsAll`), `NamedHandleLive`
  (`HandleLiveWhileNamed`), `ReadersShare` (`SharedReadPointer`), `RangeServed`
  (`RangeFromStart`). With no lock the argument is one of non-interference. A
  step of the segmenter leaves alone the `read_ptr` and the written bytes of every
  buffer made so far (`StoreTouches`). What is left is to relate `read_ptr` to
  what the readers of a buffer have got: `OpensInv` counts them, `AloneInv` says
  that a single reader is where `read_ptr` is, `SharedInv` that nobody is beyond
  it and no two readers have a byte in common as long as nobody seeks.
* `ReadingDisturbsNothing`: the properties of the store hold with its readers,
  too. The HTTP thread only moves `read_ptr`, on which no part of `StoreInv`
  depends (`StoreStays`).

`SegmentMemoryProofs` proves of the list, from `ListAssumption` alone, for every
window and any number of segments, with each store and load a step:

* `ListTypes`, and `ListRefines`: `ListSpec => ImplementsQueue`. As segments come
  and go in order, the list is always the range of numbers `Lo .. Hi`. `ListInv`
  says how far `next` (`ForwardInv`) and `prev` (`BackInv`) agree with that range
  between the stores of `ADD_TO_TAIL` and `REMOVE`, and where the segmenter's
  pointers are (`PointerInv`). One store of each macro moves `Hi` or `Lo`; the
  lemmas `ReachedIs`, `RangeGrows` and `RangeShrinks` turn the range into the
  sequence that `Reached` finds, and so the step into one of the queue.
* `WalkFinds`: `FoundUnlessHit`. `WalkInv` keeps a walk that has not been hit
  inside the range and not past the segment it looks for, at each of its loads.

and of a buffer, from `BufferAssumption` alone, for any size of the first block,
any lengths of writes and reads, and with `realloc` failing or not:

* `BufferTypes`: `BufferSpec => []BufferTypeOK`.
* `GrowthSuffices`: `WritesFit`. One growth is enough for a write: `WriterInv`
  relates `writing`, `wlen`, `bufsize` and the block in use at each step, so
  that `Room` or `Growth` gives the bound when the copy begins.
* `NothingUnwritten`: `ReadsOnlyWritten`. `read_ptr` may be anywhere after a seek,
  but a read ends where the writer was at one of the two looks, and `write_ptr <=
  filled` holds in every state, also between the two stores of a write; and one
  that began within the data (`within`) stays there (`ReaderInv`). The arithmetic
  is that of an int, for every `MaxInt` that is not passed by what is written and
  asked for.
* `CompleteNeedsNoLock`: `CompleteReadsSafe`. A read that begins on a complete
  buffer (`calm`) meets no step of the writer, so `buf` and `write_ptr` stay
  (`CalmInv`). If a `realloc` failed, `buf` stays null, and that is the only
  undefined read of a complete buffer from within its data. `BufferInv`, the
  conjunction of all these, is inductive.
* `MemoryTypes`: `MemorySpec => []MemoryTypeOK`. A step of the one leaves the
  other alone, so `ListInv` and `BufferInv` hold side by side.

`MgConnectionProofs` proves, from `ConnAssumption` alone, for any script of
requests, length of the served buffer and size of a block:

* `ConnTypes`, in which what could go wrong is a handler called without a
  request, a body read beyond its buffer, or a `cl` below zero. Each function of
  istb_mongoose.c that takes a connection has a lemma that it gives back one in
  order (`ConnOK`).
* `Drains`: `DrainedBeforeClose`. `ClosingInv`: unless the client has gone,
  `CLOSE` comes only from the write that empties `remote_iobuf`, and the reaper
  looks before anything can be spooled again.
* `GetServed`: `LoneGetServed`. `LoneInv` follows the one request through
  three stages. `Waiting`: the tokens sent are in `inbox` or `local_iobuf`, too
  few for a header, and nothing is spooled. `Serving`: the header is spooled, and
  the body spooled (`BodyLen`) and what is left in the buffer make `FileLen`,
  which is also what `cl` still owes. `Served`: the buffer is empty, the endpoint
  closed, and a connection that is closed has written all. `SendInv` says that what
  the client has yet to send is a tail of its stream, so that the two tokens that
  come in are its header, however they are cut. A first token must not be refused
  as too long, so `MaxRequestSize` is positive (the code has 16384).

`MgReplyProofs` proves, from `ConnAssumption` alone, for any script with any
number of requests, pipelined, cut and paused in any way, any length of the
buffer and any size of a block:

* `Framed`: `Spec => []BodiesFramed`. The property quantifies over pairs of places
  in `Spooled` and sums between them, which no step can be followed through. So
  the units are read once, from front to back: `Told` is the state of such a
  reader after the last unit - which header was last (`of`), how much of its body
  is missing (`left`), whether a block ever came without a header or beyond it
  (`ok`), how much of a request's body was seen (`data`), how many whole replies
  were announced (`heads`), whether a reply came before the handshake (`bare`). One
  more unit is one step of the reader (`ToldMore`), and pings that are dropped from
  `Received` change nothing (`ToldWithoutPings`). `FramesTold`, `DataTold`,
  `HeadsTold` and `ShakenTold` turn what the reader ends with back into the
  property. `ReplyInv` ties the reader to the connection: as long as `cl` is
  positive the endpoint is open for the request whose header was last and `left`
  is `cl`; `data` and `unread` make the whole buffer; a websocket that is open has
  had its handshake, and its replies and the tokens still to come are two at most
  (`Counted`), since each reply takes a frame. For the last one it must also be
  known that only the three tokens of the handshake and its frames follow a
  websocket's request line in what is still to come (`Coming`). Each function that
  spools has a lemma that it keeps `Replies`; within a function the endpoint may
  be open before the header is out, which is why `RepliesOK`, with a request
  whose endpoint is open, holds only between calls.

`ClientBytesProofs` proves, from `ReaderAssumption` and `FrameAssumption`, for any
bytes, lengths, pieces and limits, and with `realloc` failing or not:

* `ReaderTypes`, with the assertions of `spool`: what is in a buffer fits.
* `BytesDecide`: `PiecesDoNotMatter`. The loop of `get_request_len` stops at a
  control character or at the first line end of an empty line (`Stops`), and
  returns what it sees at the first of these places (`RequestLenIs`), which is
  where the first header ends (`RequestLenMeans`). As long as nothing is found
  the buffer is all that came (`BufferIsAll`), so the property is inductive with
  the type invariant.
* `FramesWhole`: `FramesIntact`. What is removed are the bytes of the frames
  delivered, so that the buffer is a prefix of what the next frames encode to
  (`WireIs`, `WirePrefix`, `NextFrame`, `BufferIs`); that, with each delivered
  frame being the one sent, is the invariant `FrameInv`. A step keeps it because
  of what `Layout` makes of a prefix: once header and length are there it reads
  the length back that `LengthField` wrote, in one, three or nine bytes
  (`FieldIs`, `EncodedIs`, `LayoutKnown`), and before that it never takes what is
  there for a whole frame (`LayoutShort`), so a frame is taken out when all of it
  is there and not before (`BufferedIs`), and each byte of it meets the byte of
  the mask it was combined with (`ContentIs`).
* `CutsDecideNothing`: `CutsDoNotMatter`, the two together.

`InputsProofs` proves, from `NamingAssumption` alone, for any texts, ports, numbers,
radix, window and length of the array:

* `OptionsReach`: `OptionsArrive`. What main prints has five dashes that begin an
  option, and others inside the texts and before numbers. `WrittenIs` says where
  the five stand in the whole string; what `snprintf` leaves of it is a prefix.
  The loop of `istb_m3u8_parse_options`, put down at the blank before one of the
  five, finds that dash next, reads a value up to the blank that ends it, and
  stands before the next one (`NextDash`, `ShowsOption`, `OptionStep`): for a text
  because a plain one holds no blank before a dash (`TextField`), for a number
  because `strtol` stops at the blank (`NumberField`). Where the string is cut
  off in the middle of an option, what is read is a beginning of its value, or
  the read goes past the end, which plain values that fit never let happen
  (`OptionsRead`, `ParsedIs`). Copying over an empty field leaves the value alone,
  as the five letters differ (`AssignedIs`).
* `AdvertisedReach`: `AdvertisedIsFound`. `NamingInv` says of each phase what
  the request has become. A path with no `%`, `?`, blank, double slash or slash with
  two dots passes the decoder and the cleaner as it is (`DecodedIs`, `PastIs`,
  `CleanedIs`), and prefix, dash, digits and `.ts` make such a path if the prefix
  does (`NameClear`). The lookup takes the first name that begins with the one
  asked for: two numbers whose digits agree up to the end of one of them are
  equal or differ in length (`DigitsDiffer`), and then the dot meets a digit
  (`NamesDiffer`), so only the very segment can match, in any window. The port
  that the server listens on is the one in the URLs, by `ServerPortIs`.
* `InputsTypes`: `InputsTypeOK`, from `NamingInv` and the invariants of both readers,
  none of which a step of another part disturbs.

Recursive definitions. The induction theorems of the library take an operator
for an argument, which the provers cannot instantiate. The proofs that need an
induction (`SegmentMemoryProofs`, `MgConnectionProofs`, `MgReplyProofs`,
`ClientBytesProofs`, `InputsProofs`) do it in first-order terms: `LeastNumber`, which
follows from the well-foundedness of `<`, gives a least counterexample. That a
recursive function has the values its definition gives is shown by exhibiting
one: `Recursion` for steps along numbers, and `Recursive` where a value rests on
others of a lower rank, as in a parser that jumps ahead. `SelectSeq` and `Tail`
were not within reach, which is why `MgConnection` has `WithoutPings` and
`SubSeq`.

Only model-checked: all liveness (`EndsClean`, `WalkEnds`, `RepliesEnd`,
`ShutsDown`, `ConnectionEnds`), since fairness is beyond the prover. Every other
property of a passing run is stated by a theorem.

The bounds `MaxStream` and `MaxSent` play no part in the proofs; those on the
number of segments and requests are any number, and so is `MaxWritten`, as long
as a length asked for on top of it is still an int.

## 6. What the models leave out

* In `SegmentStore` and `HlsService` the capacity of a buffer and the pointers of
  the list: a segment has a length, `queue` is a sequence and a walk of it one
  step, and no `realloc` of a segment fails. `SegmentBuffer` and `SegmentList` have
  them, one buffer and one list on their own. Stores are taken to become visible
  in program order, as they do on x86; on the ARM processors the Makefile mentions, more could happen.
* Failing `malloc` and `pthread_create`, except where `write_index_file` and
  the opening of a segment report them.
* The text of replies and, but for the names in it, of the index; outside of
  `Naming` names are numbers.
* `istb_m3u8_segment_get`, which nobody calls, and the code that is compiled
  out (`istb_ringbuffer.c` from 188 on).
* In `HlsService` the socket side of a connection: a reply's bytes are delivered
  once they leave the buffer. `MgConnection` has that side, with a buffer that
  nobody else reads or changes.
* What becomes of websocket bytes once the endpoint is closed (their control
  characters), lengths of frames from 2^31 on, the key of a handshake; the URI
  `*`; the sizes of a connection's two buffers, the
  look `close_local_endpoint` takes at a request that is already freed (it
  decides nothing), a `select` that is interrupted (it delays the round).
* Usage texts, and the address of the UDP receiver.
* `add_output_stream`, which ends the process with `exit(1)` if libavformat gives
  it nothing.
* Files, CGI, DAV, SSI, digests, directory listings and Lua of mongoose: only the
  URI `*` comes to them. SHA1 and base64 serve the handshake alone.

## 7. The plan

Done: the ring, the store down to its pointers, its readers, the connection with
its requests and frames, the names, the life cycle; proofs of every safety and
action property of them, and of the two refinements (the ring of `ByteQueue`,
the list of `SegmentQueue`). Next, in this order:

1. `SegmentBuffer` below `SegmentStore`: the readers of `HlsService` on buffers
   that grow while they are read.
2. The growth of `remote_iobuf` below `MgConnection`, whose `spool` takes any
   number of units.
