-------------------------- MODULE LifecycleProofs --------------------------
(***************************************************************************)
(* Proofs about Lifecycle, for any number of signals and any size of the   *)
(* ring, whatever pthread_kill says of a thread that is gone.              *)
(*                                                                         *)
(* What the properties say of a moment rests on the order main keeps: it   *)
(* starts the threads one after the other, and a stop function returns     *)
(* only when the thread it stops is seen dead.  The parts of the inductive *)
(* invariant state that order as a relation between where main is and what *)
(* the other threads and the ring can be.                                  *)
(***************************************************************************)
EXTENDS Lifecycle, TLAPS

-----------------------------------------------------------------------------
(* The parts of the inductive invariant.                                   *)

BeforeUdp == {"getopt", "refused", "start_udp"}
BeforeM3u8 == BeforeUdp \cup {"start_m3u8"}
BeforeIndex == BeforeM3u8 \cup {"sem_wait"}
BeforeHttp == BeforeIndex \cup {"format", "start_http"}
RingGone == {"return", "returned"}
HttpStoppedAt == {"destroy"} \cup RingGone
UdpStoppedAt == {"stop_http", "wait_http"} \cup HttpStoppedAt
M3u8StoppedAt == {"stop_udp", "wait_udp"} \cup UdpStoppedAt
Stopping == {"stop_m3u8", "wait_m3u8"} \cup M3u8StoppedAt

\* The ring is main's: created before the receiver, destroyed after all.
RingByMain ==
  /\ main \in BeforeUdp => ring = "none"
  /\ main \in RingGone => ring = "freed"
  /\ main \notin BeforeUdp \cup RingGone => ring = "live"

\* No thread runs before main has started it.
StartOrder ==
  /\ main \in BeforeUdp => udp = "none"
  /\ main \in BeforeM3u8 => m3u8 = "none"
  /\ main \in BeforeHttp => http = "none"

\* No thread runs on past the call that stopped it.
StopOrder ==
  /\ main \in Stopping => myterminate
  /\ main \in M3u8StoppedAt => m3u8 = "dead"
  /\ main \in UdpStoppedAt => udp = "dead"
  /\ main \in HttpStoppedAt => http = "dead"
  /\ http \in {"none", "dead"} => ~listening

\* The semaphore is up, or main has got past it, only on an index of three
\* segments, if no signal ended sem_wait.
IndexOrder ==
  /\ sem > 0 => listed >= Ready
  /\ main \notin BeforeIndex => interrupted \/ listed >= Ready

\* main fills its array for the segmenter, and again for the server when
\* the segmenter has long read it: nothing can end main's wait before.  The
\* semaphore goes up, and handlers are installed, only by a segmenter that
\* has its options.
Started == m3u8 \notin {"none", "start"}
BufOrder ==
  /\ main \in {"sem_wait", "format"} => buf = "options"
  /\ main \notin BeforeIndex \cup {"format"} => buf = "address"
  /\ listed > 0 => Started
  /\ (\E s \in Signals : disposition[s] # "default") => Started
  /\ main \notin BeforeIndex => Started

OrderOfThreads == RingByMain /\ StartOrder /\ StopOrder

USE DEF BeforeUdp, BeforeM3u8, BeforeIndex, BeforeHttp, Stopping,
        M3u8StoppedAt, UdpStoppedAt, HttpStoppedAt, RingGone

-----------------------------------------------------------------------------
(* Types.                                                                  *)

\* What a handler does to the flags and the dispositions keeps their types.
LEMMA HandlerType ==
  ASSUME LifecycleTypeOK, NEW s \in Signals, RunHandler(s)
  PROVE  /\ disposition' \in [Signals -> {"default", "m3u8", "main"}]
         /\ myterminate' \in BOOLEAN
         /\ terminate' \in BOOLEAN
  BY DEF LifecycleTypeOK, RunHandler

\* Every variable keeps its type: the semaphore, the ring's level and the
\* count of signals never leave their ranges.
THEOREM TypeCorrect == Spec => []LifecycleTypeOK
<1>1. Init => LifecycleTypeOK
  <2> SUFFICES ASSUME Init PROVE LifecycleTypeOK
    OBVIOUS
  <2>1. /\ signalled \in 0 .. MaxSignals
        /\ level \in 0 .. RingUnits
        /\ listed \in 0 .. Ready + 1
        /\ sem \in Nat
    BY LifecycleAssumption DEF Init, Ready
  <2> QED
    BY <2>1 DEF Init, LifecycleTypeOK
<1>2. LifecycleTypeOK /\ [Next]_vars => LifecycleTypeOK'
  <2> SUFFICES ASSUME LifecycleTypeOK, [Next]_vars
               PROVE  LifecycleTypeOK'
    OBVIOUS
  <2> USE DEF LifecycleTypeOK, threads, sigs, flags, data, shared
  <2>1. CASE MainStep
    <3>1. CASE Install
      BY <3>1 DEF Install, MainGoes, Take, Signals
    <3>2. CASE SemWait
      BY <3>2 DEF SemWait, MainGoes
    <3>3. CASE StartUdp \/ StartM3u8 \/ FormatAddress \/ StartHttp
      BY <3>3 DEF StartUdp, StartM3u8, FormatAddress, StartHttp, MainGoes
    <3>4. CASE StopM3u8 \/ M3u8Stopped
      <4>1. terminate' \in BOOLEAN
        BY <3>4, Zenon DEF StopM3u8, M3u8Stopped
      <4> QED
        BY <3>4, <4>1 DEF StopM3u8, M3u8Stopped, MainGoes
    <3>5. CASE StopUdp \/ UdpStopped
      <4>1. connect_live' \in BOOLEAN
        BY <3>5, Zenon DEF StopUdp, UdpStopped
      <4> QED
        BY <3>5, <4>1 DEF StopUdp, UdpStopped, MainGoes
    <3>6. CASE StopHttp \/ HttpStopped
      <4>1. http_terminate' \in BOOLEAN
        BY <3>6, Zenon DEF StopHttp, HttpStopped
      <4> QED
        BY <3>6, <4>1 DEF StopHttp, HttpStopped, MainGoes
    <3>7. CASE Wake \/ DestroyRing \/ Return
      BY <3>7 DEF Wake, DestroyRing, Return, MainGoes
    <3>8. CASE GetOptions \/ MissingOption
      BY <3>8 DEF GetOptions, MissingOption, MainGoes
    <3> QED
      BY <2>1, <3>1, <3>2, <3>3, <3>4, <3>5, <3>6, <3>7, <3>8 DEF MainStep
  <2>2. CASE UdpStep
    <3>1. CASE Receive
      <4>1. level' \in 0 .. RingUnits
        BY <3>1, LifecycleAssumption DEF Receive
      <4> QED
        BY <3>1, <4>1 DEF Receive, UdpGoes
    <3>2. CASE Bind \/ BindFails \/ UdpCheck \/ SelectTimeout
      BY <3>2 DEF Bind, BindFails, UdpCheck, SelectTimeout, UdpGoes
    <3>3. CASE SelectError
      <4>1. connect_live' \in BOOLEAN
        BY <3>3, Zenon DEF SelectError
      <4> QED
        BY <3>3, <4>1 DEF SelectError, UdpGoes
    <3> QED
      BY <2>2, <3>1, <3>2, <3>3 DEF UdpStep
  <2>3. CASE M3u8Step
    <3>1. CASE ReadPacket
      BY <3>1, LifecycleAssumption DEF ReadPacket, M3u8Goes, Ready
    <3>2. CASE Probe \/ ProbeFails
      BY <3>2, LifecycleAssumption DEF Probe, ProbeFails, M3u8Goes
    <3>3. CASE M3u8Install
      BY <3>3 DEF M3u8Install, M3u8Goes, Take, Signals
    <3>4. CASE ParseOptions \/ M3u8Check \/ ReadEnds \/ Finish
      BY <3>4 DEF ParseOptions, M3u8Check, ReadEnds, Finish, M3u8Goes
    <3> QED
      BY <2>3, <3>1, <3>2, <3>3, <3>4 DEF M3u8Step
  <2>4. CASE HttpStep
    <3>1. listening' \in BOOLEAN
      BY <2>4, Zenon DEF HttpStep, HttpSetup, Listen, SocketOpened,
                         HttpCheck, Poll, DestroyServer
    <3>2. CASE HttpSetup
      BY <3>2 DEF HttpSetup
    <3>3. CASE Listen
      BY <3>1, <3>3 DEF Listen
    <3>4. CASE HttpCheck \/ Poll
      BY <3>4 DEF HttpCheck, Poll
    <3>5. CASE DestroyServer
      BY <3>1, <3>5 DEF DestroyServer
    <3> QED
      BY <2>4, <3>2, <3>3, <3>4, <3>5 DEF HttpStep
  <2>5. CASE Signal
    <3> SUFFICES ASSUME NEW s \in Signals,
                        \/ Kill(s) \/ Deliver(s)
                        \/ InterruptSemWait(s) \/ InterruptSelect(s)
                 PROVE  LifecycleTypeOK'
      BY <2>5 DEF Signal
    <3>1. signalled' \in 0 .. MaxSignals
      BY LifecycleAssumption
      DEF Kill, Deliver, InterruptSemWait, InterruptSelect, Send
    <3>2. CASE Kill(s)
      BY <3>1, <3>2 DEF Kill
    <3>3. CASE Deliver(s)
      BY <3>1, <3>3, HandlerType DEF Deliver
    <3>4. CASE InterruptSemWait(s)
      BY <3>1, <3>4, HandlerType DEF InterruptSemWait
    <3>5. CASE InterruptSelect(s)
      <4>1. connect_live' \in BOOLEAN
        BY <3>5, Zenon DEF InterruptSelect
      <4> QED
        BY <3>1, <3>5, <4>1, HandlerType DEF InterruptSelect
    <3> QED
      BY <3>2, <3>3, <3>4, <3>5
  <2>6. CASE UNCHANGED vars
    BY <2>6 DEF vars, threads
  <2> QED
    BY <2>1, <2>2, <2>3, <2>4, <2>5, <2>6 DEF Next
<1> QED
  BY <1>1, <1>2, PTL DEF Spec

-----------------------------------------------------------------------------
(* The order of the threads.                                               *)

\* A step of main keeps the order: it starts what was not there, and goes on
\* from a stop function only with the thread dead.
LEMMA MainKeepsOrder ==
  ASSUME OrderOfThreads, MainStep
  PROVE  OrderOfThreads'
<1> USE DEF OrderOfThreads, RingByMain, StartOrder, StopOrder, MainGoes,
            SeenDead, flags, data, shared
<1>1. CASE GetOptions \/ MissingOption \/ StartUdp
  BY <1>1 DEF GetOptions, MissingOption, StartUdp
<1>2. CASE StartM3u8
  BY <1>2 DEF StartM3u8
<1>3. CASE SemWait \/ FormatAddress \/ StartHttp \/ Install
  BY <1>3 DEF SemWait, FormatAddress, StartHttp, Install
<1>4. CASE Wake
  BY <1>4 DEF Wake
<1>5. CASE StopM3u8 \/ M3u8Stopped
  BY <1>5 DEF StopM3u8, M3u8Stopped
<1>6. CASE StopUdp \/ UdpStopped
  BY <1>6 DEF StopUdp, UdpStopped
<1>7. CASE StopHttp \/ HttpStopped
  BY <1>7 DEF StopHttp, HttpStopped
<1>8. CASE DestroyRing \/ Return
  BY <1>8 DEF DestroyRing, Return
<1> QED
  BY <1>1, <1>2, <1>3, <1>4, <1>5, <1>6, <1>7, <1>8 DEF MainStep

\* What a step of each other thread leaves alone, and that a thread which
\* was never started, or is gone, takes none.
LEMMA UdpLeaves ==
  ASSUME UdpStep
  PROVE  /\ UNCHANGED <<main, m3u8, http, disposition, interrupted, sem,
                        myterminate, ring, listed, shared>>
         /\ udp \notin {"none", "dead"}
  BY DEF UdpStep, Bind, BindFails, UdpCheck, SelectTimeout, SelectError,
         Receive, UdpGoes, sigs, flags, data

\* The segmenter's steps, likewise; it has read its options once it is past
\* its first one.
LEMMA M3u8Leaves ==
  ASSUME M3u8Step
  PROVE  /\ UNCHANGED <<main, udp, http, interrupted, myterminate, ring, buf,
                        portstr, listening>>
         /\ m3u8 \notin {"none", "dead"}
         /\ m3u8' \notin {"none", "start"}
  BY DEF M3u8Step, ParseOptions, Probe, ProbeFails, M3u8Install, M3u8Check,
         ReadPacket, ReadEnds, Finish, M3u8Goes, flags, data, shared

\* The server's steps, likewise; its socket is closed when it is gone.
LEMMA HttpLeaves ==
  ASSUME HttpStep
  PROVE  /\ UNCHANGED <<main, udp, m3u8, disposition, interrupted, sem,
                        myterminate, ring, listed, buf, optionstring>>
         /\ http \notin {"none", "dead"}
         /\ http' # "none"
         /\ http' = "dead" => ~listening'
         /\ portstr' # portstr => http = "setup" /\ portstr' = buf
  BY DEF HttpStep, HttpSetup, Listen, HttpCheck, Poll, DestroyServer, sigs,
         flags, data, shared

\* A signal may send main on from sem_wait and the receiver out of select,
\* and only if somebody has installed a handler; it never takes myterminate
\* back.
LEMMA SignalLeaves ==
  ASSUME Signal
  PROVE  /\ UNCHANGED <<m3u8, http, sem, ring, listed, shared>>
         /\ myterminate => myterminate'
         /\ interrupted => interrupted'
         /\ \/ main' = main
            \/ /\ main = "sem_wait" /\ main' = "format"
               /\ interrupted'
               /\ \E s \in Signals : disposition[s] # "default"
         /\ udp' = udp \/ (udp = "select" /\ udp' = "check")
<1> PICK s \in Signals : \/ Kill(s) \/ Deliver(s)
                         \/ InterruptSemWait(s) \/ InterruptSelect(s)
  BY DEF Signal
<1>1. UNCHANGED <<m3u8, http, sem, ring, listed, shared>>
  BY DEF Kill, Deliver, InterruptSemWait, InterruptSelect, threads, data
<1>2. myterminate => myterminate'
  BY DEF Kill, Deliver, InterruptSemWait, InterruptSelect, RunHandler, flags
<1>3. interrupted => interrupted'
  BY DEF Kill, Deliver, InterruptSemWait, InterruptSelect
<1>4. \/ main' = main
      \/ /\ main = "sem_wait" /\ main' = "format"
         /\ interrupted'
         /\ disposition[s] # "default"
  BY DEF Kill, Deliver, InterruptSemWait, InterruptSelect, RunHandler, threads
<1>5. udp' = udp \/ (udp = "select" /\ udp' = "check")
  BY DEF Kill, Deliver, InterruptSemWait, InterruptSelect, threads
<1> QED
  BY <1>1, <1>2, <1>3, <1>4, <1>5

\* Where main is tells which threads may run, and whether the ring exists.
LEMMA OrderKept == Spec => []OrderOfThreads
<1>1. Init => OrderOfThreads
  BY DEF Init, OrderOfThreads, RingByMain, StartOrder, StopOrder
<1>2. OrderOfThreads /\ [Next]_vars => OrderOfThreads'
  <2> SUFFICES ASSUME OrderOfThreads, [Next]_vars
               PROVE  OrderOfThreads'
    OBVIOUS
  <2> USE DEF OrderOfThreads, RingByMain, StartOrder, StopOrder
  <2>1. CASE MainStep
    BY <2>1, MainKeepsOrder
  <2>2. CASE UdpStep
    BY <2>2, UdpLeaves DEF shared
  <2>3. CASE M3u8Step
    BY <2>3, M3u8Leaves
  <2>4. CASE HttpStep
    BY <2>4, HttpLeaves
  <2>5. CASE Signal
    BY <2>5, SignalLeaves DEF shared
  <2>6. CASE UNCHANGED vars
    BY <2>6 DEF vars, threads, flags, data, shared
  <2> QED
    BY <2>1, <2>2, <2>3, <2>4, <2>5, <2>6 DEF Next
<1> QED
  BY <1>1, <1>2, PTL DEF Spec

\* The ring exists for as long as the receiver or the segmenter can touch it
\* (iSTB_Buffer_destroy in main.c, line 268).
THEOREM RingSafe == Spec => []RingOutlivesUsers
<1>1. OrderOfThreads => RingOutlivesUsers
  BY DEF OrderOfThreads, RingByMain, StartOrder, StopOrder, RingOutlivesUsers
<1> QED
  BY <1>1, OrderKept, PTL

\* When main returns it was told to, it is the last thread, and the server's
\* socket is closed (main.c, 262 to 270).
THEOREM LastToLeave == Spec => []ReturnsAlone
<1>1. OrderOfThreads => ReturnsAlone
  BY DEF OrderOfThreads, StopOrder, ReturnsAlone
<1> QED
  BY <1>1, OrderKept, PTL

-----------------------------------------------------------------------------
(* The server, the index and main's array.                                 *)

HandOver == IndexOrder /\ BufOrder /\ BufReadInTime

\* main goes on from sem_wait with the index there, and fills its array for
\* the server only then.
LEMMA MainHandsOver ==
  ASSUME LifecycleTypeOK, OrderOfThreads, HandOver, MainStep
  PROVE  HandOver'
<1> USE DEF HandOver, IndexOrder, BufOrder, BufReadInTime, Started, MainGoes,
            sigs, data, shared
<1>1. CASE SemWait
  <2>1. sem' > 0 => sem > 0
    BY <1>1 DEF SemWait, LifecycleTypeOK
  <2>2. sem > 0 /\ listed > 0
    BY <1>1 DEF SemWait, LifecycleTypeOK, Ready
  <2> QED
    BY <1>1, <2>1, <2>2 DEF SemWait
<1>2. CASE GetOptions \/ MissingOption \/ StartUdp
  BY <1>2 DEF GetOptions, MissingOption, StartUdp
<1>3. CASE StartM3u8
  <2>1. ~Started
    BY <1>3 DEF StartM3u8, OrderOfThreads, StartOrder
  <2> QED
    BY <1>3, <2>1 DEF StartM3u8
<1>4. CASE FormatAddress \/ StartHttp
  BY <1>4 DEF FormatAddress, StartHttp
<1>5. CASE Install
  BY <1>5 DEF Install
<1>6. CASE Wake \/ StopM3u8 \/ M3u8Stopped \/ StopUdp \/ UdpStopped
  BY <1>6 DEF Wake, StopM3u8, M3u8Stopped, StopUdp, UdpStopped
<1>7. CASE StopHttp \/ HttpStopped \/ DestroyRing \/ Return
  BY <1>7 DEF StopHttp, HttpStopped, DestroyRing, Return
<1> QED
  BY <1>1, <1>2, <1>3, <1>4, <1>5, <1>6, <1>7 DEF MainStep

\* The segmenter reads its options first, and before main fills its array
\* again; sem_post comes only with the third segment.
LEMMA M3u8HandsOver ==
  ASSUME LifecycleTypeOK, OrderOfThreads, HandOver, M3u8Step
  PROVE  HandOver'
<1> USE DEF HandOver, IndexOrder, BufOrder, BufReadInTime, Started
<1>1. UNCHANGED <<main, interrupted, buf, portstr>> /\ Started'
  BY M3u8Leaves
<1>2. optionstring' \in {"unread", "options"}
  <2>1. CASE ParseOptions
    <3>1. main \in {"sem_wait", "format"} \/ main \in BeforeM3u8
      BY <2>1 DEF ParseOptions, M3u8Goes
    <3>2. main \notin BeforeM3u8
      BY <2>1 DEF ParseOptions, M3u8Goes, OrderOfThreads, StartOrder
    <3> QED
      BY <2>1, <3>1, <3>2 DEF ParseOptions
  <2>2. CASE ~ParseOptions
    BY <2>2 DEF M3u8Step, Probe, ProbeFails, M3u8Install, M3u8Check,
                ReadPacket, ReadEnds, Finish, data, shared
  <2> QED
    BY <2>1, <2>2
<1>3. /\ sem' > 0 => listed' >= Ready
      /\ listed >= Ready => listed' >= Ready
  <2>1. CASE ReadPacket
    BY <2>1 DEF ReadPacket, Announces, LifecycleTypeOK, Ready
  <2>2. CASE ~ReadPacket
    BY <2>2 DEF M3u8Step, ParseOptions, Probe, ProbeFails, M3u8Install,
                M3u8Check, ReadEnds, Finish, data
  <2> QED
    BY <2>1, <2>2
<1> QED
  BY <1>1, <1>2, <1>3

\* The index is there before the server, and main's array is filled for each
\* thread before that thread reads it.
LEMMA HandOverKept == Spec => []HandOver
<1>1. Init => HandOver
  BY DEF Init, HandOver, IndexOrder, BufOrder, BufReadInTime, Ready, Signals
<1>2. LifecycleTypeOK /\ OrderOfThreads /\ HandOver /\ [Next]_vars
        => HandOver'
  <2> SUFFICES ASSUME LifecycleTypeOK, OrderOfThreads, HandOver, [Next]_vars
               PROVE  HandOver'
    OBVIOUS
  <2> USE DEF HandOver, IndexOrder, BufOrder, BufReadInTime, Started, shared
  <2>1. CASE MainStep
    BY <2>1, MainHandsOver
  <2>2. CASE UdpStep
    BY <2>2, UdpLeaves
  <2>3. CASE M3u8Step
    BY <2>3, M3u8HandsOver
  <2>4. CASE HttpStep
    BY <2>4, HttpLeaves DEF OrderOfThreads, StartOrder
  <2>5. CASE Signal
    <3>1. (\E s \in Signals : disposition'[s] # "default") =>
             \E s \in Signals : disposition[s] # "default"
      BY <2>5 DEF Signal, Kill, Deliver, InterruptSemWait, InterruptSelect,
                  RunHandler, LifecycleTypeOK
    <3> QED
      BY <2>5, <3>1, SignalLeaves
  <2>6. CASE UNCHANGED vars
    BY <2>6 DEF vars, threads, sigs, data
  <2> QED
    BY <2>1, <2>2, <2>3, <2>4, <2>5, <2>6 DEF Next
<1> QED
  BY <1>1, <1>2, TypeCorrect, OrderKept, PTL DEF Spec

\* The HTTP server runs only on an index of three segments, unless a signal
\* has ended sem_wait (main.c, 239).
THEOREM ServerSafe == Spec => []ServerHasIndex
<1>1. StartOrder /\ IndexOrder => ServerHasIndex
  BY DEF StartOrder, IndexOrder, ServerHasIndex
<1>2. OrderOfThreads /\ HandOver => StartOrder /\ IndexOrder
  BY DEF OrderOfThreads, HandOver
<1> QED
  BY <1>1, <1>2, OrderKept, HandOverKept, PTL

\* Segmenter and server each find in main's one array what was meant for
\* them (main.c, 235 to 249; istb_m3u8.c, 496; istb_httpserver.c, 70).
THEOREM ArrayReadInTime == Spec => []BufReadInTime
<1>1. HandOver => BufReadInTime
  BY DEF HandOver
<1> QED
  BY <1>1, HandOverKept, PTL
=============================================================================
