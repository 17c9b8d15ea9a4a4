----------------------------- MODULE ClientBytes -----------------------------
(***************************************************************************)
(* What a client sends, as process_request takes it out of local_iobuf: a  *)
(* request (RequestReader) or, once the connection is a websocket, frames  *)
(* (FrameReader).                                                          *)
(***************************************************************************)
EXTENDS RequestReader, FrameReader

VARIABLE speaks     \* what the connection speaks

bytesVars == <<speaks, readerVars, frameVars>>

BytesInit == speaks \in {"http", "websocket"} /\ ReaderInit /\ FrameInit

BytesNext ==
  \/ speaks = "http" /\ ReaderNext /\ UNCHANGED <<speaks, frameVars>>
  \/ speaks = "websocket" /\ FrameNext /\ UNCHANGED <<speaks, readerVars>>

BytesSpec == BytesInit /\ [][BytesNext]_bytesVars

\* How recv cuts what a client sends decides nothing: neither what request
\* process_request finds in it nor which frames deliver_websocket_frame does.
CutsDoNotMatter == PiecesDoNotMatter /\ FramesIntact
=============================================================================
