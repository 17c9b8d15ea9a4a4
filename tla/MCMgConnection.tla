--------------------------- MODULE MCMgConnection ---------------------------
(* Small instances of MgConnection for TLC.                                *)
EXTENDS MgConnection
=============================================================================
