--------------------------- MODULE MCSegmentStore ---------------------------
(* Small instances of SegmentStore for TLC.                                *)
EXTENDS SegmentStore
=============================================================================
