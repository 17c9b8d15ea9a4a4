------------------------------ MODULE Lifecycle ------------------------------
(***************************************************************************)
(* How the process starts, runs and stops: main.c, the loops of its three  *)
(* detached threads (UDP receiver, segmenter, HTTP server), the flags that *)
(* stop them, the semaphore that starts the server, and the signals.       *)
(*                                                                         *)
(* What flows through the threads is cut down to counts: units of data in  *)
(* the ring, segments the index names.  main hands the segmenter and the   *)
(* server a pointer to one and the same array on its stack, which it fills *)
(* anew in between.  A disposition is a property of the process: the       *)
(* segmenter and main each install handlers of their own, the later one    *)
(* wins.  A signal may be taken by any thread; the call it is blocked in   *)
(* then fails with EINTR.                                                  *)
(***************************************************************************)
EXTENDS Integers

CONSTANTS
  MaxSignals,   \* bound: signals sent to the process
  RingUnits,    \* units of data the ring holds
  DeadIsESRCH   \* does pthread_kill report a detached thread that is gone?

ASSUME LifecycleAssumption ==
  /\ MaxSignals \in Nat
  /\ RingUnits \in Nat \ {0}
  /\ DeadIsESRCH \in BOOLEAN

VARIABLES
  status,                     \* the process
  main, udp, m3u8, http,      \* where each thread is
  disposition,                \* of each signal
  oneshot,                    \* main's act.sa_flags is never set: is the
                              \* SA_RESETHAND bit of what it holds on?
  signalled,                  \* signals sent so far
  interrupted,                \* history: sem_wait was ended by a signal
  sem,
  myterminate, terminate, connect_live, http_terminate,
  ring,                       \* buffer_queue: "none", "live", "freed"
  level,                      \* units of data in it
  listed,                     \* segments the index has named, up to Ready + 1
  buf,                        \* main's array: "empty", "options", "address"
  optionstring, portstr,      \* what the two threads found in it
  listening                   \* the server's listening socket is open

Signals == {"SIGINT", "SIGTERM"}

threads == <<main, udp, m3u8, http>>
flags == <<myterminate, terminate, connect_live, http_terminate>>
sigs == <<disposition, oneshot, signalled>>
shared == <<buf, optionstring, portstr, listening>>
data == <<ring, level, listed, shared>>
vars == <<status, threads, sigs, interrupted, sem, flags, data>>

Ready == 3      \* the last_segment that reports M3U8_SEGMENT_READY

Running == status = "running"

Init ==
  /\ status = "running"
  /\ main = "getopt"
  /\ udp = "none" /\ m3u8 = "none" /\ http = "none"
  /\ disposition = [s \in Signals |-> "default"]
  /\ oneshot \in BOOLEAN
  /\ signalled = 0
  /\ interrupted = FALSE
  /\ sem = 0
  /\ myterminate = FALSE /\ terminate = FALSE
  /\ connect_live = TRUE /\ http_terminate = FALSE
  /\ ring = "none"
  /\ level = 0
  /\ listed = 0
  /\ buf = "empty"
  /\ optionstring = "unread" /\ portstr = "unread"
  /\ listening = FALSE

-----------------------------------------------------------------------------
(* main.                                                                   *)

MainGoes(from, to) == Running /\ main = from /\ main' = to

\* All options are there, or what was on the stack passes for them.
GetOptions ==
  /\ MainGoes("getopt", "start_udp")
  /\ UNCHANGED <<status, udp, m3u8, http, sigs, interrupted, sem, flags, data>>

\* opts is never set to zero: a missing option is refused if its pointer
\* happens to be null, and else may point nowhere.
MissingOption ==
  /\ MainGoes("getopt", "refused")
  /\ status' \in {"exited", "crashed"}
  /\ UNCHANGED <<udp, m3u8, http, sigs, interrupted, sem, flags, data>>

StartUdp ==
  /\ MainGoes("start_udp", "start_m3u8")
  /\ ring' = "live"
  /\ udp' = "setup"
  /\ UNCHANGED <<status, m3u8, http, sigs, interrupted, sem, flags, level,
                 listed, shared>>

\* The segmenter gets a pointer to buf, not a copy.
StartM3u8 ==
  /\ MainGoes("start_m3u8", "sem_wait")
  /\ buf' = "options"
  /\ m3u8' = "start"
  /\ UNCHANGED <<status, udp, http, sigs, interrupted, sem, flags, ring, level,
                 listed, optionstring, portstr, listening>>

\* Mutant of SemWait: main does not wait.
SemWaitNot ==
  /\ MainGoes("sem_wait", "format")
  /\ UNCHANGED <<status, udp, m3u8, http, sigs, interrupted, sem, flags, data>>

SemWait ==
  /\ MainGoes("sem_wait", "format")
  /\ sem > 0
  /\ sem' = sem - 1
  /\ UNCHANGED <<status, udp, m3u8, http, sigs, interrupted, flags, data>>

\* buf is filled once more, now for the server.
FormatAddress ==
  /\ MainGoes("format", "start_http")
  /\ buf' = "address"
  /\ UNCHANGED <<status, udp, m3u8, http, sigs, interrupted, sem, flags, ring,
                 level, listed, optionstring, portstr, listening>>

StartHttp ==
  /\ MainGoes("start_http", "install")
  /\ http' = "setup"
  /\ UNCHANGED <<status, udp, m3u8, sigs, interrupted, sem, flags, data>>

\* sigaction for the one signal, then for the other.
Take(signal, owner) == disposition' = [disposition EXCEPT ![signal] = owner]

Install ==
  /\ \/ MainGoes("install", "install_more") /\ Take("SIGINT", "main")
     \/ MainGoes("install_more", "sleep") /\ Take("SIGTERM", "main")
  /\ UNCHANGED <<status, udp, m3u8, http, oneshot, signalled, interrupted, sem,
                 flags, data>>

Wake ==
  /\ MainGoes("sleep", "stop_m3u8")
  /\ myterminate
  /\ UNCHANGED <<status, udp, m3u8, http, sigs, interrupted, sem, flags, data>>

\* pthread_kill(tid, 0) in the three stop functions.
SeenDeadAlways(thread) == TRUE                          \* mutant of SeenDead
SeenDead(thread) == DeadIsESRCH /\ thread = "dead"

StopM3u8 ==
  /\ Running /\ main = "stop_m3u8"
  /\ main' = IF SeenDead(m3u8) THEN "stop_udp" ELSE "wait_m3u8"
  /\ terminate' = (terminate \/ ~SeenDead(m3u8))
  /\ UNCHANGED <<status, udp, m3u8, http, sigs, interrupted, sem, myterminate,
                 connect_live, http_terminate, data>>

M3u8Stopped ==
  /\ MainGoes("wait_m3u8", "stop_udp")
  /\ SeenDead(m3u8)
  /\ terminate' = FALSE
  /\ UNCHANGED <<status, udp, m3u8, http, sigs, interrupted, sem, myterminate,
                 connect_live, http_terminate, data>>

StopUdp ==
  /\ Running /\ main = "stop_udp"
  /\ main' = IF SeenDead(udp) THEN "stop_http" ELSE "wait_udp"
  /\ connect_live' = (connect_live /\ SeenDead(udp))
  /\ UNCHANGED <<status, udp, m3u8, http, sigs, interrupted, sem, myterminate,
                 terminate, http_terminate, data>>

UdpStopped ==
  /\ MainGoes("wait_udp", "stop_http")
  /\ SeenDead(udp)
  /\ connect_live' = TRUE
  /\ UNCHANGED <<status, udp, m3u8, http, sigs, interrupted, sem, myterminate,
                 terminate, http_terminate, data>>

StopHttp ==
  /\ Running /\ main = "stop_http"
  /\ main' = IF SeenDead(http) THEN "destroy" ELSE "wait_http"
  /\ http_terminate' = (http_terminate \/ ~SeenDead(http))
  /\ UNCHANGED <<status, udp, m3u8, http, sigs, interrupted, sem, myterminate,
                 terminate, connect_live, data>>

HttpStopped ==
  /\ MainGoes("wait_http", "destroy")
  /\ SeenDead(http)
  /\ http_terminate' = FALSE
  /\ UNCHANGED <<status, udp, m3u8, http, sigs, interrupted, sem, myterminate,
                 terminate, connect_live, data>>

\* iSTB_Buffer_destroy, then main returns and the process is over.
DestroyRing ==
  /\ MainGoes("destroy", "return")
  /\ ring' = "freed"
  /\ UNCHANGED <<status, udp, m3u8, http, sigs, interrupted, sem, flags,
                 level, listed, shared>>

Return ==
  /\ MainGoes("return", "returned")
  /\ status' = "exited"
  /\ UNCHANGED <<udp, m3u8, http, sigs, interrupted, sem, flags, data>>

MainStep ==
  \/ GetOptions \/ MissingOption \/ StartUdp \/ StartM3u8 \/ SemWait
  \/ FormatAddress \/ StartHttp \/ Install \/ Wake
  \/ StopM3u8 \/ M3u8Stopped \/ StopUdp \/ UdpStopped
  \/ StopHttp \/ HttpStopped \/ DestroyRing \/ Return

-----------------------------------------------------------------------------
(* istb_udp_recv_task.                                                     *)

UdpGoes(from, to) == Running /\ udp = from /\ udp' = to

Bind ==
  /\ UdpGoes("setup", "check")
  /\ UNCHANGED <<status, main, m3u8, http, sigs, interrupted, sem, flags, data>>

\* No socket or the port is taken: exit(errno) ends the whole process.
BindFails ==
  /\ UdpGoes("setup", "dead")
  /\ status' = "exited"
  /\ UNCHANGED <<main, m3u8, http, sigs, interrupted, sem, flags, data>>

UdpCheck ==
  /\ Running /\ udp = "check"
  /\ udp' = IF connect_live THEN "select" ELSE "dead"
  /\ UNCHANGED <<status, main, m3u8, http, sigs, interrupted, sem, flags, data>>

SelectTimeout ==
  /\ UdpGoes("select", "check")
  /\ UNCHANGED <<status, main, m3u8, http, sigs, interrupted, sem, flags, data>>

\* select or recvfrom fails.
SelectError ==
  /\ UdpGoes("select", "check")
  /\ connect_live' = FALSE
  /\ UNCHANGED <<status, main, m3u8, http, sigs, interrupted, sem, myterminate,
                 terminate, http_terminate, data>>

\* Mutant of Receive: whether there is room is not looked at.
ReceiveAlways ==
  /\ UdpGoes("select", "check")
  /\ level' = level + 1
  /\ UNCHANGED <<status, main, m3u8, http, sigs, interrupted, sem, flags,
                 ring, listed, shared>>

\* A datagram is written to the ring, or dropped for lack of room.
Receive ==
  /\ UdpGoes("select", "check")
  /\ level' = IF level < RingUnits THEN level + 1 ELSE level
  /\ UNCHANGED <<status, main, m3u8, http, sigs, interrupted, sem, flags,
                 ring, listed, shared>>

UdpStep ==
  \/ Bind \/ BindFails \/ UdpCheck \/ SelectTimeout \/ SelectError \/ Receive

-----------------------------------------------------------------------------
(* istb_m3u8_task: every packet it reads comes from m3u8_read_data, which  *)
(* waits for data and gives up on myterminate only.                        *)

M3u8Goes(from, to) == Running /\ m3u8 = from /\ m3u8' = to

\* istb_m3u8_parse_options, first of all.
ParseOptions ==
  /\ M3u8Goes("start", "setup")
  /\ optionstring' = buf
  /\ UNCHANGED <<status, main, udp, http, sigs, interrupted, sem, flags, ring,
                 level, listed, buf, portstr, listening>>

\* The stream is opened and its start is read.
Probe ==
  /\ M3u8Goes("setup", "install")
  /\ level > 0
  /\ level' = level - 1
  /\ UNCHANGED <<status, main, udp, http, sigs, interrupted, sem, flags, ring,
                 listed, shared>>

\* Not a transport stream, no memory: the cleanup without an index crashes
\* (DestroyWithoutIndex of SegmentStore).
ProbeFails ==
  /\ M3u8Goes("setup", "dead")
  /\ level > 0
  /\ status' = "crashed"
  /\ UNCHANGED <<main, udp, http, sigs, interrupted, sem, flags, data>>

\* The segmenter's own sigaction calls, for the whole process.
M3u8Install ==
  /\ \/ M3u8Goes("install", "install_more") /\ Take("SIGINT", "m3u8")
     \/ M3u8Goes("install_more", "check") /\ Take("SIGTERM", "m3u8")
  /\ UNCHANGED <<status, main, udp, http, oneshot, signalled, interrupted, sem,
                 flags, data>>

M3u8Check ==
  /\ Running /\ m3u8 = "check"
  /\ m3u8' = IF terminate THEN "finish" ELSE "read"
  /\ UNCHANGED <<status, main, udp, http, sigs, interrupted, sem, flags, data>>

\* A packet that starts no segment, or one that does: the index then names
\* one more, and the third is announced.
AnnouncesAny(n) == TRUE                                 \* mutant of Announces
Announces(n) == n = Ready

ReadPacket ==
  /\ M3u8Goes("read", "check")
  /\ ~myterminate
  /\ level > 0
  /\ level' = level - 1
  /\ \/ UNCHANGED <<listed, sem>>
     \/ /\ listed' = IF listed > Ready THEN listed ELSE listed + 1
        /\ sem' = IF Announces(listed') THEN sem + 1 ELSE sem
  /\ UNCHANGED <<status, main, udp, http, sigs, interrupted, flags, ring,
                 shared>>

\* Mutant of ReadEnds: m3u8_read_data does not look at myterminate.
ReadEndsOnData ==
  /\ M3u8Goes("read", "finish")
  /\ level > 0
  /\ UNCHANGED <<status, main, udp, http, sigs, interrupted, sem, flags, data>>

\* m3u8_read_data returns nothing, or libav finds no packet in what it got.
ReadEnds ==
  /\ M3u8Goes("read", "finish")
  /\ myterminate \/ level > 0
  /\ UNCHANGED <<status, main, udp, http, sigs, interrupted, sem, flags, data>>

\* The queue is destroyed and the thread returns.
Finish ==
  /\ M3u8Goes("finish", "dead")
  /\ UNCHANGED <<status, main, udp, http, sigs, interrupted, sem, flags, data>>

M3u8Step ==
  \/ ParseOptions \/ Probe \/ ProbeFails \/ M3u8Install \/ M3u8Check
  \/ ReadPacket \/ ReadEnds \/ Finish

-----------------------------------------------------------------------------
(* istb_httpserver_task.                                                   *)

\* The address is copied and the server made.
HttpSetup ==
  /\ Running /\ http = "setup" /\ http' = "listen"
  /\ portstr' = buf
  /\ UNCHANGED <<status, main, udp, m3u8, sigs, interrupted, sem, flags, ring,
                 level, listed, buf, optionstring, listening>>

\* open_listening_socket: a socket or, if the port is taken, none.
SocketOpened == BOOLEAN

\* mg_set_option, whose answer nobody looks at: without a socket
\* mg_poll_server returns at once, every time.
Listen ==
  /\ Running /\ http = "listen" /\ http' = "check"
  /\ listening' \in SocketOpened
  /\ UNCHANGED <<status, main, udp, m3u8, sigs, interrupted, sem, flags, ring,
                 level, listed, buf, optionstring, portstr>>

HttpCheck ==
  /\ Running /\ http = "check"
  /\ http' = IF http_terminate THEN "finish" ELSE "poll"
  /\ UNCHANGED <<status, main, udp, m3u8, sigs, interrupted, sem, flags, data>>

Poll ==
  /\ Running /\ http = "poll" /\ http' = "check"
  /\ UNCHANGED <<status, main, udp, m3u8, sigs, interrupted, sem, flags, data>>

\* mg_destroy_server, and the thread returns.
DestroyServer ==
  /\ Running /\ http = "finish" /\ http' = "dead"
  /\ listening' = FALSE
  /\ UNCHANGED <<status, main, udp, m3u8, sigs, interrupted, sem, flags, ring,
                 level, listed, buf, optionstring, portstr>>

HttpStep == HttpSetup \/ Listen \/ HttpCheck \/ Poll \/ DestroyServer

-----------------------------------------------------------------------------
(* Signals.                                                                *)

Send(s) ==
  /\ Running
  /\ signalled < MaxSignals
  /\ signalled' = signalled + 1

\* No handler: the process is killed.
Kill(s) ==
  /\ Send(s)
  /\ disposition[s] = "default"
  /\ status' = "killed"
  /\ UNCHANGED <<threads, disposition, oneshot, interrupted, sem, flags, data>>

\* handler of istb_m3u8.c or main_handler; the second may be good for one
\* signal only, for all the flags main left in act.
RunHandler(s) ==
  /\ disposition[s] # "default"
  /\ IF disposition[s] = "m3u8" THEN terminate' = TRUE /\ UNCHANGED myterminate
                                ELSE myterminate' = TRUE /\ UNCHANGED terminate
  /\ disposition' = IF disposition[s] = "main" /\ oneshot
                    THEN [disposition EXCEPT ![s] = "default"]
                    ELSE disposition

\* A thread that is not in a call a signal ends.
Deliver(s) ==
  /\ Send(s)
  /\ RunHandler(s)
  /\ UNCHANGED <<status, threads, oneshot, interrupted, sem, connect_live,
                 http_terminate, data>>

\* main in sem_wait: it returns -1, which main does not look at.
InterruptSemWait(s) ==
  /\ Send(s)
  /\ RunHandler(s)
  /\ main = "sem_wait" /\ main' = "format"
  /\ interrupted' = TRUE
  /\ UNCHANGED <<status, udp, m3u8, http, oneshot, sem, connect_live,
                 http_terminate, data>>

\* The receiver in select: an error like any other.
InterruptSelect(s) ==
  /\ Send(s)
  /\ RunHandler(s)
  /\ udp = "select" /\ udp' = "check"
  /\ connect_live' = FALSE
  /\ UNCHANGED <<status, main, m3u8, http, oneshot, interrupted, sem,
                 http_terminate, data>>

Signal ==
  \E s \in Signals :
    Kill(s) \/ Deliver(s) \/ InterruptSemWait(s) \/ InterruptSelect(s)

Next == MainStep \/ UdpStep \/ M3u8Step \/ HttpStep \/ Signal

\* Every thread that can go on does; nothing is assumed of the network, of
\* the stream or of whoever sends signals.
Spec ==
  /\ Init
  /\ [][Next]_vars
  /\ WF_vars(MainStep) /\ WF_vars(UdpStep) /\ WF_vars(M3u8Step)
  /\ WF_vars(HttpStep)

-----------------------------------------------------------------------------
(* Properties.                                                             *)

LifecycleTypeOK ==
  /\ status \in {"running", "exited", "killed", "crashed"}
  /\ main \in {"getopt", "refused", "start_udp", "start_m3u8", "sem_wait",
               "format", "start_http", "install", "install_more", "sleep",
               "stop_m3u8", "wait_m3u8", "stop_udp", "wait_udp", "stop_http",
               "wait_http", "destroy", "return", "returned"}
  /\ udp \in {"none", "setup", "check", "select", "dead"}
  /\ m3u8 \in {"none", "start", "setup", "install", "install_more", "check",
               "read", "finish", "dead"}
  /\ http \in {"none", "setup", "listen", "check", "poll", "finish", "dead"}
  /\ disposition \in [Signals -> {"default", "m3u8", "main"}]
  /\ oneshot \in BOOLEAN
  /\ signalled \in 0 .. MaxSignals
  /\ interrupted \in BOOLEAN
  /\ sem \in Nat
  /\ myterminate \in BOOLEAN /\ terminate \in BOOLEAN
  /\ connect_live \in BOOLEAN /\ http_terminate \in BOOLEAN
  /\ ring \in {"none", "live", "freed"}
  /\ level \in 0 .. RingUnits
  /\ listed \in 0 .. Ready + 1
  /\ buf \in {"empty", "options", "address"}
  /\ optionstring \in {"unread", "empty", "options", "address"}
  /\ portstr \in {"unread", "empty", "options", "address"}
  /\ listening \in BOOLEAN

\* The ring is there for as long as a thread can read or write it: it is
\* destroyed only when main has seen both its users dead (main.c, 265-268).
RingOutlivesUsers ==
  (udp \in {"check", "select"} \/ m3u8 \notin {"none", "dead"}) =>
     ring = "live"

\* The server starts on an index of three segments, unless a signal ended
\* sem_wait early.
ServerHasIndex == http # "none" => interrupted \/ listed >= Ready

\* Each thread reads from main's array what was put there for it, although
\* main fills it again for the second and nothing but the semaphore, and the
\* signals that can end its wait, lie in between (main.c, 235 to 249).
BufReadInTime ==
  /\ optionstring \in {"unread", "options"}
  /\ portstr \in {"unread", "address"}

\* myterminate is what ends main, and by then nobody else runs: an orderly
\* return leaves no thread behind that could still use what main freed, and
\* no listening socket open.
ReturnsAlone ==
  main = "returned" => /\ myterminate
                       /\ udp = "dead" /\ m3u8 = "dead" /\ http = "dead"
                       /\ ~listening

\* Once main_handler has run the process comes to an end, wherever its
\* threads were and whatever arrives or fails to arrive.
ShutsDown == myterminate ~> ~Running

\* "Hit Ctrl-C to terminate the program" (istb_httpserver.c, line 85).
CtrlCTerminates == (signalled > 0) ~> ~Running
=============================================================================
