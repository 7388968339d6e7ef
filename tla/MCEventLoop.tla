----------------------------- MODULE MCEventLoop -----------------------------
(***************************************************************************)
(* A small instance of EventLoop.                                          *)
(***************************************************************************)
EXTENDS EventLoop

CONSTANTS c1, c2
=============================================================================
