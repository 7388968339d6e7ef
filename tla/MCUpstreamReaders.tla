-------------------------- MODULE MCUpstreamReaders --------------------------
(***************************************************************************)
(* Small instances of UpstreamReaders.                                     *)
(***************************************************************************)
EXTENDS UpstreamReaders

CONSTANTS t1, t2, a1
=============================================================================
