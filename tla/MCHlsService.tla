---------------------------- MODULE MCHlsService ----------------------------
(* Small instances of HlsService for TLC.                                  *)
EXTENDS HlsService, TLC

\* "bytes=1-" and "bytes=0-2": from the second byte on; the first three.
MCRanges == {<<1, Open>>, <<0, 2>>}
MCNoRanges == {}

MCSymmetry == Permutations(Conns)
=============================================================================
