--------------------------- MODULE MCSegmentMemory ---------------------------
\* The memory of the segment store: its list of nodes and one of its buffers.
\* They share no state, so a behaviour is of the one or of the other.
EXTENDS SegmentList, SegmentBuffer

\* Lengths and offsets: of either sign, within the data and past its end.
MCReadLens == {-1, 1, 3}
MCOffsets == {-1, 0, 2, 7}

VARIABLE part

MemoryInit == part \in {"list", "buffer"} /\ ListInit /\ BufferInit

MemoryNext ==
  \/ part = "list" /\ ListNext /\ UNCHANGED <<part, bufferVars>>
  \/ part = "buffer" /\ BufferNext /\ UNCHANGED <<part, listVars>>

\* The fairness of ListSpec, for the behaviours of the list.
MemorySpec ==
  /\ MemoryInit
  /\ [][MemoryNext]_<<part, listVars, bufferVars>>
  /\ WF_<<part, listVars, bufferVars>>
       (/\ part = "list" /\ walk.at # "lost"
        /\ Add \/ Remove \/ FreeData \/ Destroy
        /\ UNCHANGED <<part, bufferVars>>)
  /\ WF_<<part, listVars, bufferVars>>
       (part = "list" /\ walk.at # "lost" /\ Walk /\ UNCHANGED <<part, bufferVars>>)

\* Every variable of the list and of the buffer is of its type.
MemoryTypeOK == ListTypeOK /\ BufferTypeOK
=============================================================================
