---------------------------- MODULE MCThreadPool ----------------------------
(***************************************************************************)
(* The instance of ThreadPool for TLC: its sets of model values are those  *)
(* of the configuration.  Liveness is checked, so symmetry is not used.    *)
(***************************************************************************)
EXTENDS ThreadPool
=============================================================================
