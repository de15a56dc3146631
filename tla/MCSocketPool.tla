---------------------------- MODULE MCSocketPool ----------------------------
(***************************************************************************)
(* Instances of SocketPool small enough for TLC.                           *)
(***************************************************************************)
EXTENDS SocketPool
=============================================================================
